---------------------------- MODULE MCExtraction ----------------------------
(* Small files for the extractor.                                          *)
EXTENDS Components

MCDistance(u, v) == 10 * (IF u < v THEN v - u ELSE u - v)
MCTurnPenalty(u, v, w) == IF u < w THEN 1 ELSE 0

Plain == [use_turn_restrictions |-> TRUE, exceptions |-> {"motorcar"}]
Bus == [use_turn_restrictions |-> TRUE, exceptions |-> {"motorcar", "bus"}]
Bicycle == [use_turn_restrictions |-> FALSE, exceptions |-> {}]

MCNodes(S, barriers, lights) ==
  {[id |-> k, barrier |-> k \in barriers, lights |-> k \in lights] : k \in S}

(* Ways: open both ways, one way, the other way, at two speeds, by two     *)
(* modes, for a ferry with a duration.                                     *)
Way(id, name, nodes) ==
  [id |-> id, nodes |-> nodes, name |-> name, forward_speed |-> 36, backward_speed |-> 36,
   forward_mode |-> "driving", backward_mode |-> "driving", duration |-> 0,
   roundabout |-> FALSE]
OneWay(w) == [w EXCEPT !.backward_mode = Inaccessible]
Opposite(w) == [w EXCEPT !.forward_mode = Inaccessible]
TwoSpeeds(w) == [w EXCEPT !.backward_speed = 12]
Pushing(w) == [w EXCEPT !.backward_mode = "pushing"]
Ferry(w) == [w EXCEPT !.duration = 60, !.forward_speed = 0, !.backward_speed = 0]
RoundAbout(w) == [OneWay(w) EXCEPT !.roundabout = TRUE]
Variants(w) == {w, OneWay(w), Opposite(w), TwoSpeeds(w)}

Member(role, type, ref) == [role |-> role, type |-> type, ref |-> ref]
Relation(id, only, from, via, to) ==
  [id |-> id, keys |-> {[suffix |-> "", only |-> only]}, except |-> {},
   members |-> <<Member("from", "way", from), Member("via", "node", via), Member("to", "way", to)>>]
For(r, suffix) == [r EXCEPT !.keys = {[suffix |-> suffix, only |-> FALSE]}]
Except(r, who) == [r EXCEPT !.except = {who}]

Input(profile, nodes, ways, relations) ==
  [profile |-> profile, buffers |-> <<[nodes |-> nodes, ways |-> ways, relations |-> relations]>>]

(* A junction in 7 with three roads, one a chain on each side.             *)
Junctions ==
  {Input(Plain, MCNodes({3, 5, 7, 8, 9, 11}, barriers, lights),
         {w, Way(20, "B", <<7, 8, 9>>), Way(30, "B", <<11, 7>>)}, relations) :
     barriers \in {{}, {7}, {8}}, lights \in {{5, 8}, {7}},
     w \in Variants(Way(10, "A", <<3, 5, 7>>)),
     relations \in {{}, {Relation(1, FALSE, 10, 7, 20)},
                    {Relation(1, TRUE, 10, 7, 20), Relation(2, FALSE, 20, 7, 30)},
                    {Relation(1, FALSE, 10, 7, 30), Relation(2, TRUE, 10, 7, 20),
                     Relation(3, FALSE, 30, 7, 10)}}}

(* Chains that are compressed from the middle and from both ends.          *)
Chains ==
  {Input(Plain, MCNodes(3 .. 8, {}, lights), {w, Way(20, "A", <<7, 8>>)}, relations) :
     lights \in SUBSET {3, 4, 6},
     relations \in {{}, {Relation(1, FALSE, 10, 7, 20)}},
     w \in UNION {Variants(Way(10, "A", <<5, 3, 6, 4, 7>>)), Variants(Way(10, "B", <<3, 4, 5, 6, 7>>))}}

(* Roads between the same nodes, loops, nodes that are missing, and roads  *)
(* nobody may use.                                                         *)
Parallels ==
  {Input(Plain, MCNodes({2, 3, 5, 6}, {}, {}), {v, w, Way(40, "C", <<3, 4, 5, 5, 6>>)}, {}) :
     v \in Variants(Way(10, "A", <<3, 5>>)) \cup {Ferry(Way(10, "A", <<6, 3, 5>>))},
     w \in {Way(20, "A", <<5, 3>>), OneWay(Way(20, "B", <<5, 3>>)),
            TwoSpeeds(Way(20, "B", <<3, 5>>)), Pushing(Way(20, "B", <<6, 5, 3>>))}}
Nothing ==
  {Input(Plain, MCNodes({3, 5}, {}, {}), ways, {}) :
     ways \in {{}, {Way(10, "A", <<3>>)}, {Way(10, "A", <<3, 4>>)},
               {[Way(10, "A", <<3, 5>>) EXCEPT !.forward_speed = 0, !.backward_speed = 0]},
               {Way(10, "A", <<3, 3>>)}}}

Roundabouts ==
  {Input(Plain, MCNodes(3 .. 8, {}, {}),
         {RoundAbout(Way(10, "", <<3, 4, 5, 3>>)), v, Way(30, "B", <<5, 7>>),
          OneWay(Way(40, "B", <<7, 8>>))}, {}) :
     v \in Variants(Way(20, "A", <<4, 6>>))}

(* Relations of all kinds, in a file of two buffers.                       *)
Relations ==
  {[profile |-> profile,
    buffers |-> <<[nodes |-> MCNodes({3, 5, 7, 11}, {}, {}), relations |-> {},
                   ways |-> {Way(10, "A", <<3, 5>>), Way(20, "B", <<7, 5>>)}],
                  [nodes |-> {}, relations |-> {r},
                   ways |-> {Way(30, "", <<5, 11>>), Way(40, "C", <<5, 8>>), Way(50, "C", <<6, 8>>)}]>>] :
     profile \in {Plain, Bus, Bicycle},
     r \in {Relation(1, FALSE, 10, 5, 20), For(Relation(1, FALSE, 10, 5, 20), "bus"),
            Except(Relation(1, TRUE, 10, 5, 20), "motorcar"),
            Relation(1, FALSE, 15, 5, 20), Relation(1, FALSE, 10, 5, 15),
            Relation(1, FALSE, 10, 8, 20), Relation(1, TRUE, 10, 5, 30),
            Relation(1, FALSE, 40, 5, 10), Relation(1, FALSE, 10, 5, 40),
            Relation(1, FALSE, 60, 8, 10), Relation(1, FALSE, 10, 5, 60),
            [Relation(1, FALSE, 10, 5, 20) EXCEPT !.keys = {}],
            [Relation(1, FALSE, 10, 5, 20) EXCEPT
               !.members = <<Member("from", "way", 30), Member("from", "way", 10),
                             Member("via", "node", 5), Member("to", "node", 7)>>]}}

(* A way that starts and ends at the via node.                             *)
Rings ==
  {Input(Plain, MCNodes({3, 5, 7, 11}, {}, {}),
         {Way(10, "A", <<3, 5>>), Way(20, "B", <<5, 7, 11, 5>>)}, {r}) :
     r \in {Relation(1, FALSE, 10, 5, 20), Relation(1, TRUE, 20, 5, 10), Relation(1, FALSE, 20, 5, 20)}}

MCInputs == Rings \cup Junctions \cup Chains \cup Parallels \cup Nothing \cup Roundabouts \cup Relations

=============================================================================
