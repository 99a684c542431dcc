----------------------------- MODULE Extraction -----------------------------
(***************************************************************************)
(* The first half of osrm-extract: from the entities of an OSM file to the *)
(* .osrm and .restrictions files (extractor/extractor.cpp,                 *)
(* extractor_callbacks.cpp, restriction_parser.cpp,                        *)
(* extraction_containers.cpp).                                             *)
(*                                                                         *)
(* The entities of a buffer are parsed in parallel, so the callbacks see   *)
(* them in any order: nodes first, then ways, then relations.  The lists   *)
(* they fill are kept as sets until they are sorted; an edge carries the   *)
(* place it comes from (tag), so that two equal edges stay two.            *)
(* PrepareData then joins the sorted lists, one loop iteration per step;   *)
(* it and jt are the iterators of the loop that runs.                      *)
(***************************************************************************)
EXTENDS Integers, FiniteSets, FiniteSetsExt, Sequences, SequencesExt, TLC

CONSTANTS
  Inputs,           \* the files: a profile and a sequence of buffers
  Distance(_, _),   \* metres between two OSM nodes
  Special           \* SPECIAL_NODEID, above every id

Inaccessible == "inaccessible"

(* A set as a sequence that a sort would leave.                            *)
InOrder(S, Less(_, _)) == SortSeq(FoldSet(LAMBDA x, list : Append(list, x), <<>>, S), Less)

CmpEdgeByOSMStartID(d, e) == d.osm_source < e.osm_source
CmpEdgeByOSMTargetID(d, e) == d.osm_target < e.osm_target
CmpRestrictionContainerByFrom(r, s) == r.from < s.from
CmpRestrictionContainerByTo(r, s) == r.to < s.to

VARIABLES
  input, buffer, todo,         \* the file, the buffer at hand, what is left of it
  string_map,                  \* the names so far; a name's id is its place
  used_node_id_list, all_nodes_list, all_edges_list, way_start_end_id_list,
  restrictions_list,
  ids,                         \* external_to_internal_node_id_map
  stage, it, jt,
  file                         \* what .osrm and .restrictions hold

lists == <<used_node_id_list, all_nodes_list, all_edges_list,
           way_start_end_id_list, restrictions_list, ids>>
extractionVars == <<input, buffer, todo, string_map, lists, stage, it, jt, file>>

-----------------------------------------------------------------------------
(* Ways.                                                                   *)

Passable(speed, mode) == speed > 0 /\ mode # Inaccessible

WeightData(w, speed, mode) ==
  CASE w.duration > 0 -> [type |-> "WAY_DURATION", value |-> w.duration,
                          parts |-> Len(w.nodes) - 1]
    [] w.duration <= 0 /\ Passable(speed, mode) ->
         [type |-> "SPEED", value |-> speed, parts |-> 1]
    [] OTHER -> [type |-> "INVALID", value |-> 0, parts |-> 1]

Split(w) ==
  /\ Passable(w.forward_speed, w.forward_mode)
  /\ Passable(w.backward_speed, w.backward_mode)
  /\ w.forward_speed # w.backward_speed \/ w.forward_mode # w.backward_mode

WayUsed(w) ==
  /\ \/ Passable(w.forward_speed, w.forward_mode)
     \/ Passable(w.backward_speed, w.backward_mode)
     \/ w.duration > 0
  /\ Len(w.nodes) > 1

(* An edge before its ends are known by their internal ids.                *)
InternalExtractorEdge(tag, source, target, name_id, data, forward, backward, roundabout, mode, split) ==
  [tag |-> tag, osm_source |-> source, osm_target |-> target, source |-> Special,
   target |-> Special, name_id |-> name_id, weight_data |-> data, weight |-> 0,
   forward |-> forward, backward |-> backward, roundabout |-> roundabout, mode |-> mode,
   is_split |-> split]

(* The edges pushed for a way with the name name_id: against its direction *)
(* when only that is open, along it otherwise, and once more against it    *)
(* when the two directions differ.                                         *)
WayEdges(w, name_id) ==
  LET Edge(i, side, source, target, data, forward, backward, mode, split) ==
        InternalExtractorEdge(<<w.id, i, side>>, source, target, name_id, data, forward,
                              backward, w.roundabout, mode, split)
      along == WeightData(w, w.forward_speed, w.forward_mode)
      against == WeightData(w, w.backward_speed, w.backward_mode)
      n == w.nodes
  IN IF w.forward_mode = Inaccessible
     THEN {Edge(i, "opposite", n[i + 1], n[i], against, TRUE, FALSE,
                w.backward_mode, FALSE) : i \in 1 .. Len(n) - 1}
     ELSE {Edge(i, "along", n[i], n[i + 1], along, TRUE,
                ~ (Split(w) \/ w.backward_mode = Inaccessible),
                w.forward_mode, Split(w)) : i \in 1 .. Len(n) - 1}
            \cup IF Split(w)
                 THEN {Edge(i, "against", n[i], n[i + 1], against, FALSE, TRUE,
                            w.backward_mode, TRUE) : i \in 1 .. Len(n) - 1}
                 ELSE {}

WayEnds(w) ==
  [way |-> w.id, first_source |-> w.nodes[Len(w.nodes)],
   first_target |-> w.nodes[Len(w.nodes) - 1],
   last_source |-> w.nodes[2], last_target |-> w.nodes[1]]

-----------------------------------------------------------------------------
(* Relations.                                                              *)

(* The last member with a role and a type counts.                          *)
MemberRef(relation, role, type) ==
  LET hits == {k \in DOMAIN relation.members :
                 relation.members[k].role = role /\ relation.members[k].type = type}
  IN IF hits = {} THEN Special
     ELSE relation.members[CHOOSE k \in hits : \A h \in hits : h <= k].ref

(* The profile's settings.                                                 *)
restriction_exceptions ==
  IF input.profile.use_turn_restrictions THEN input.profile.exceptions ELSE {}
ShouldIgnoreRestriction(except) == except \cap restriction_exceptions # {}

(* The restriction a relation stands for, if any.  A key longer than       *)
(* "restriction" has a suffix, the means of transport it is meant for.     *)
TryParse(relation) ==
  LET ignored ==
        \/ ~ input.profile.use_turn_restrictions
        \/ relation.keys = {}
        \/ ShouldIgnoreRestriction(relation.except)
        \/ \E key \in relation.keys : key.suffix # "" /\ key.suffix \notin restriction_exceptions
  IN IF ignored THEN {}
     ELSE {[tag |-> relation.id,
            from |-> MemberRef(relation, "from", "way"),
            via |-> MemberRef(relation, "via", "node"),
            to |-> MemberRef(relation, "to", "way"),
            is_only |-> \E key \in relation.keys : key.only]}

-----------------------------------------------------------------------------
(* Reading the file.                                                       *)

ExtractionInit ==
  /\ input \in Inputs
  /\ buffer = 1 /\ todo = input.buffers[1]
  /\ string_map = <<"">>
  /\ used_node_id_list = {} /\ all_nodes_list = {} /\ all_edges_list = {}
  /\ way_start_end_id_list = {} /\ restrictions_list = {} /\ ids = <<>>
  /\ stage = "parse" /\ it = 1 /\ jt = 1
  /\ file = [nodes |-> <<>>, edges |-> <<>>, restrictions |-> <<>>]

ProcessNode(n) ==
  /\ stage = "parse" /\ n \in todo.nodes
  /\ all_nodes_list' = all_nodes_list \cup {n}
  /\ todo' = [todo EXCEPT !.nodes = @ \ {n}]
  /\ UNCHANGED <<input, buffer, string_map, used_node_id_list, all_edges_list,
                 way_start_end_id_list, restrictions_list, ids, stage, it, jt, file>>

ProcessWay(w) ==
  /\ stage = "parse" /\ todo.nodes = {} /\ w \in todo.ways
  /\ todo' = [todo EXCEPT !.ways = @ \ {w}]
  /\ IF WayUsed(w)
     THEN LET known == Contains(string_map, w.name)
              name_id == IF known
                         THEN (CHOOSE k \in DOMAIN string_map : string_map[k] = w.name) - 1
                         ELSE Len(string_map)
          IN /\ string_map' = IF known THEN string_map ELSE Append(string_map, w.name)
             /\ used_node_id_list' = used_node_id_list \cup Range(w.nodes)
             /\ all_edges_list' = all_edges_list \cup WayEdges(w, name_id)
             /\ way_start_end_id_list' = way_start_end_id_list \cup {WayEnds(w)}
     ELSE UNCHANGED <<string_map, used_node_id_list, all_edges_list, way_start_end_id_list>>
  /\ UNCHANGED <<input, buffer, all_nodes_list, restrictions_list, ids, stage, it, jt, file>>

ProcessRestriction(relation) ==
  /\ stage = "parse" /\ todo.nodes = {} /\ todo.ways = {} /\ relation \in todo.relations
  /\ todo' = [todo EXCEPT !.relations = @ \ {relation}]
  /\ restrictions_list' = restrictions_list \cup TryParse(relation)
  /\ UNCHANGED <<input, buffer, string_map, used_node_id_list, all_nodes_list,
                 all_edges_list, way_start_end_id_list, ids, stage, it, jt, file>>

BufferDone == stage = "parse" /\ todo = [nodes |-> {}, ways |-> {}, relations |-> {}]

NextBuffer ==
  /\ BufferDone /\ buffer < Len(input.buffers)
  /\ buffer' = buffer + 1 /\ todo' = input.buffers[buffer + 1]
  /\ UNCHANGED <<input, string_map, lists, stage, it, jt, file>>

-----------------------------------------------------------------------------
(* Nodes: every node that is used and present gets the next id.            *)

Rewind == it' = 1 /\ jt' = 1
BothLeft(outer, inner) == it <= Len(outer) /\ jt <= Len(inner)

PrepareNodes ==
  /\ used_node_id_list' = InOrder(used_node_id_list, <)
  /\ all_nodes_list' = InOrder(all_nodes_list, LAMBDA m, n : m.id < n.id)

(* "The input data is empty, exiting", or PrepareNodes sorts.              *)
ParsingEnds ==
  /\ BufferDone /\ buffer = Len(input.buffers)
  /\ Rewind
  /\ IF all_edges_list = {}
     THEN stage' = "empty" /\ UNCHANGED <<used_node_id_list, all_nodes_list>>
     ELSE stage' = "id_map" /\ PrepareNodes
  /\ UNCHANGED <<input, buffer, todo, string_map, all_edges_list,
                 way_start_end_id_list, restrictions_list, ids, file>>

BuildIdMap ==
  /\ stage = "id_map" /\ BothLeft(all_nodes_list, used_node_id_list)
  /\ LET n == all_nodes_list[it].id
         ref == used_node_id_list[jt]
     IN /\ it' = IF n <= ref THEN it + 1 ELSE it
        /\ jt' = IF n >= ref THEN jt + 1 ELSE jt
        /\ ids' = IF n = ref THEN ids @@ (ref :> Cardinality(DOMAIN ids)) ELSE ids
  /\ UNCHANGED <<input, buffer, todo, string_map, used_node_id_list, all_nodes_list,
                 all_edges_list, way_start_end_id_list, restrictions_list, stage, file>>

(* WriteNodes, which joins the two lists once more, and the start of       *)
(* PrepareEdges, which sorts the edges by their OSM source.                *)
WriteNodes ==
  /\ stage = "id_map" /\ ~ BothLeft(all_nodes_list, used_node_id_list)
  /\ file' = [file EXCEPT !.nodes =
                SelectSeq(all_nodes_list, LAMBDA n : Contains(used_node_id_list, n.id))]
  /\ all_edges_list' = InOrder(all_edges_list, CmpEdgeByOSMStartID)
  /\ stage' = "set_start_coords" /\ Rewind
  /\ UNCHANGED <<input, buffer, todo, string_map, used_node_id_list, all_nodes_list,
                 way_start_end_id_list, restrictions_list, ids>>

-----------------------------------------------------------------------------
(* Edges.                                                                  *)

EdgesOnly == UNCHANGED <<input, buffer, todo, string_map, used_node_id_list,
                         all_nodes_list, way_start_end_id_list, restrictions_list,
                         ids, file>>

SetStartCoords ==
  /\ stage = "set_start_coords" /\ BothLeft(all_nodes_list, all_edges_list)
  /\ LET e == all_edges_list[jt]
         n == all_nodes_list[it].id
         started == CASE e.osm_source < n -> [e EXCEPT !.source = Special]
                      [] e.osm_source >= n /\ e.osm_source = e.osm_target ->
                           [e EXCEPT !.source = Special, !.target = Special]
                      [] OTHER -> [e EXCEPT !.source = ids[n]]
     IN IF e.osm_source > n
        THEN it' = it + 1 /\ UNCHANGED <<jt, all_edges_list>>
        ELSE /\ all_edges_list' = [all_edges_list EXCEPT ![jt] = started]
             /\ jt' = jt + 1 /\ UNCHANGED it
  /\ EdgesOnly /\ UNCHANGED stage

(* markSourcesInvalid on the edges left over, and the sort by target.      *)
StartsSet ==
  /\ stage = "set_start_coords" /\ ~ BothLeft(all_nodes_list, all_edges_list)
  /\ LET marked == [k \in DOMAIN all_edges_list |->
                      IF k < jt THEN all_edges_list[k]
                      ELSE [all_edges_list[k] EXCEPT !.source = Special,
                                                     !.osm_source = Special]]
     IN all_edges_list' = SortSeq(marked, CmpEdgeByOSMTargetID)
  /\ stage' = "compute_weights" /\ Rewind
  /\ EdgesOnly

(* Tenths of a second, rounded to the nearest and at least one: metres by  *)
(* kilometres per hour, or the way's share of a duration in seconds.       *)
RoundedRatio(num, den) == (2 * num + den) \div (2 * den)
EdgeWeight(data, metres) ==
  LET weight == CASE data.type = "WAY_DURATION" -> RoundedRatio(10 * data.value, data.parts)
                  [] data.type = "SPEED" -> RoundedRatio(36 * metres, data.value)
                  [] data.type = "INVALID" -> -1
  IN IF weight > 1 THEN weight ELSE 1

\* The directions stay when the ends are swapped.
OrientForgetful(e) ==
  IF e.source > e.target
  THEN [e EXCEPT !.source = e.target, !.target = e.source]
  ELSE e

Orient(e) ==
  IF e.source > e.target
  THEN [e EXCEPT !.source = e.target, !.target = e.source,
                 !.forward = e.backward, !.backward = e.forward]
  ELSE e

ComputeWeights ==
  /\ stage = "compute_weights" /\ BothLeft(all_nodes_list, all_edges_list)
  /\ LET e == all_edges_list[jt]
         n == all_nodes_list[it].id
         weighed == CASE e.source = Special -> e
                      [] e.source # Special /\ e.osm_target < n -> [e EXCEPT !.target = Special]
                      [] OTHER ->
                           Orient([e EXCEPT
                             !.weight = EdgeWeight(e.weight_data, Distance(e.osm_source, n)),
                             !.target = ids[n]])
     IN IF e.source # Special /\ e.osm_target > n
        THEN it' = it + 1 /\ UNCHANGED <<jt, all_edges_list>>
        ELSE /\ all_edges_list' = [all_edges_list EXCEPT ![jt] = weighed]
             /\ jt' = jt + 1 /\ UNCHANGED it
  /\ EdgesOnly /\ UNCHANGED stage

(* The orders a sort by internal ids may leave: parallel edges in any      *)
(* order.                                                                  *)
Parallel(d, e) == d.source = e.source /\ d.target = e.target
InternalOrders(list) ==
  LET Group(k) == {l \in DOMAIN list : Parallel(list[l], list[k])}
      twins == {k \in DOMAIN list : list[k].source # Special /\ Cardinality(Group(k)) > 1}
      largest == Max({1} \cup {Cardinality(Group(k)) : k \in twins})
      Before(rank, k, l) ==
        \/ list[k].source < list[l].source
        \/ list[k].source = list[l].source /\ list[k].target < list[l].target
        \/ Parallel(list[k], list[l]) /\ k \in twins /\ rank[k] < rank[l]
      ranks == {r \in [twins -> 1 .. largest] :
                  \A k \in twins : {r[l] : l \in Group(k)} = 1 .. Cardinality(Group(k))}
  IN {[k \in DOMAIN list |-> list[order[k]]] :
        order \in {SortSeq([k \in DOMAIN list |-> k], LAMBDA k, l : Before(rank, k, l)) :
                     rank \in ranks}}

(* markTargetsInvalid on the edges left over, and the sort by internal ids.*)
WeightsComputed ==
  /\ stage = "compute_weights" /\ ~ BothLeft(all_nodes_list, all_edges_list)
  /\ all_edges_list' \in
       InternalOrders([k \in DOMAIN all_edges_list |->
                         IF k < jt THEN all_edges_list[k]
                         ELSE [all_edges_list[k] EXCEPT !.target = Special]])
  /\ stage' = "multi_edges" /\ Rewind
  /\ EdgesOnly

(* What is made of edge k of a group of parallel edges of which f is kept  *)
(* for the forward direction and b for the backward direction.  f, b = 0:  *)
(* no edge has the direction.                                              *)
KeepInGroup(e, k, f, b) ==
  CASE k = f /\ k = b -> [e EXCEPT !.is_split = FALSE, !.forward = TRUE, !.backward = TRUE]
    [] k = f /\ k # b -> [e EXCEPT !.forward = TRUE, !.backward = FALSE, !.is_split = b # 0]
    [] k # f /\ k = b -> [e EXCEPT !.source = e.target, !.target = e.source,
                                   !.forward = TRUE, !.backward = FALSE, !.is_split = f # 0]
    [] OTHER -> [e EXCEPT !.source = Special, !.target = Special]

(* min_forward_weight and min_backward_weight keep their initial value, so *)
(* the last edge of a direction is the one that counts.                    *)
LastWith(list, group, direction) ==
  LET with == {k \in group : list[k][direction]}
  IN IF with = {} THEN 0 ELSE CHOOSE k \in with : \A l \in with : l <= k

EdgesLeft == jt <= Len(all_edges_list) /\ all_edges_list[jt].source # Special

(* The edges parallel to the one at hand.                                  *)
MultiEdges == {k \in jt .. Len(all_edges_list) : Parallel(all_edges_list[k], all_edges_list[jt])}

RemoveMultiEdges ==
  /\ stage = "multi_edges" /\ EdgesLeft
  /\ LET first == all_edges_list[jt]
         f == LastWith(all_edges_list, MultiEdges, "forward")
         b == LastWith(all_edges_list, MultiEdges, "backward")
     IN IF first.target = Special
        THEN jt' = jt + 1 /\ UNCHANGED all_edges_list
        ELSE /\ all_edges_list' = [k \in DOMAIN all_edges_list |->
                                     IF k \in MultiEdges THEN KeepInGroup(all_edges_list[k], k, f, b)
                                     ELSE all_edges_list[k]]
             /\ jt' = jt + Cardinality(MultiEdges)
  /\ EdgesOnly /\ UNCHANGED <<stage, it>>

(* The loop over a group has no end of its own: behind a group that ends   *)
(* the list it reads whatever is there.  Either that differs from the      *)
(* group, as RemoveMultiEdges has it, or the loop runs on outside the list.*)
ReadPastEnd ==
  /\ stage = "multi_edges" /\ EdgesLeft
  /\ all_edges_list[jt].target # Special /\ Len(all_edges_list) \in MultiEdges
  /\ stage' = "crashed"
  /\ EdgesOnly /\ UNCHANGED <<all_edges_list, it, jt>>

(* The orders a sort may leave a set in.                                   *)
Sorted(S, Less(_, _)) ==
  {list \in [1 .. Cardinality(S) -> S] :
     /\ Range(list) = S
     /\ \A i, j \in DOMAIN list : i < j => ~ Less(list[j], list[i])}

(* WriteEdges, and the sorts PrepareRestrictions begins with.              *)
WriteEdges ==
  /\ stage = "multi_edges" /\ ~ EdgesLeft
  /\ file' = [file EXCEPT !.edges =
                SelectSeq(all_edges_list, LAMBDA e : e.source # Special /\ e.target # Special)]
  /\ way_start_end_id_list' = InOrder(way_start_end_id_list, LAMBDA v, w : v.way < w.way)
  /\ restrictions_list' \in Sorted(restrictions_list, CmpRestrictionContainerByFrom)
  /\ stage' = "fix_starts" /\ Rewind
  /\ UNCHANGED <<input, buffer, todo, string_map, used_node_id_list, all_nodes_list,
                 all_edges_list, ids>>

-----------------------------------------------------------------------------
(* Restrictions: the ways become the nodes next to the via node.           *)

RestrictionsOnly == UNCHANGED <<input, buffer, todo, string_map, used_node_id_list,
                                all_nodes_list, all_edges_list, way_start_end_id_list, ids>>

\* The last segment is looked at from the wrong end.
NeighbourTurned(ends, via) ==
  CASE ends.first_source = via -> ends.first_target
    [] ends.first_source # via /\ ends.last_source = via -> ends.last_target
    [] OTHER -> Special

(* The neighbour of via on a way that starts or ends there.                *)
Neighbour(ends, via) ==
  CASE ends.first_source = via -> ends.first_target
    [] ends.first_source # via /\ ends.last_target = via -> ends.last_source
    [] OTHER -> Special

(* The restriction keeps the way's id when the way does not end at via.    *)
NextTo(ends, via, otherwise) ==
  IF Neighbour(ends, via) = Special THEN otherwise ELSE ids[Neighbour(ends, via)]

(* The lookups of the iteration at hand whose result is not compared with  *)
(* end(): a node of the way that the file does not contain is not found.   *)
LookupFails ==
  LET ends == way_start_end_id_list[it]
      r == restrictions_list[jt]
      Unknown(nodes) == ~ (nodes \ {Special} \subseteq DOMAIN ids)
  IN CASE stage = "fix_starts" ->
            ends.way = r.from /\ r.via \in DOMAIN ids /\ Unknown({Neighbour(ends, r.via)})
       [] stage = "fix_ends" ->
            /\ ends.way = r.to /\ r.from # Special /\ r.via # Special
            /\ Unknown({r.via, Neighbour(ends, r.via)})

Joining == BothLeft(way_start_end_id_list, restrictions_list)

FixStarts ==
  /\ stage = "fix_starts" /\ Joining /\ ~ LookupFails
  /\ LET ends == way_start_end_id_list[it]
         r == restrictions_list[jt]
         fixed == CASE ends.way > r.from -> [r EXCEPT !.from = Special]
                    [] ends.way <= r.from /\ r.via \notin DOMAIN ids -> [r EXCEPT !.via = Special]
                    [] OTHER -> [r EXCEPT !.from = NextTo(ends, r.via, r.from)]
     IN IF ends.way < r.from
        THEN it' = it + 1 /\ UNCHANGED <<jt, restrictions_list>>
        ELSE /\ restrictions_list' = [restrictions_list EXCEPT ![jt] = fixed]
             /\ jt' = jt + 1 /\ UNCHANGED it
  /\ RestrictionsOnly /\ UNCHANGED <<stage, file>>

StartsFixed ==
  /\ stage = "fix_starts" /\ ~ Joining
  /\ restrictions_list' \in Sorted(Range(restrictions_list), CmpRestrictionContainerByTo)
  /\ stage' = "fix_ends" /\ Rewind
  /\ RestrictionsOnly /\ UNCHANGED file

FixEnds ==
  /\ stage = "fix_ends" /\ Joining /\ ~ LookupFails
  /\ LET ends == way_start_end_id_list[it]
         r == restrictions_list[jt]
         fixed == CASE r.from = Special \/ r.via = Special -> r
                    [] r.from # Special /\ r.via # Special /\ ends.way > r.to ->
                         [r EXCEPT !.to = Special]
                    [] OTHER ->
                         [r EXCEPT !.to = NextTo(ends, r.via, r.to), !.via = ids[r.via]]
     IN IF ends.way < r.to
        THEN it' = it + 1 /\ UNCHANGED <<jt, restrictions_list>>
        ELSE /\ restrictions_list' = [restrictions_list EXCEPT ![jt] = fixed]
             /\ jt' = jt + 1 /\ UNCHANGED it
  /\ RestrictionsOnly /\ UNCHANGED <<stage, file>>

(* end() is dereferenced.                                                  *)
LookupCrashes ==
  /\ stage \in {"fix_starts", "fix_ends"} /\ Joining /\ LookupFails
  /\ stage' = "crashed"
  /\ RestrictionsOnly /\ UNCHANGED <<it, jt, restrictions_list, file>>

WriteRestrictions ==
  /\ stage = "fix_ends" /\ ~ Joining
  /\ file' = [file EXCEPT !.restrictions =
                SelectSeq(restrictions_list, LAMBDA r : Special \notin {r.from, r.via, r.to})]
  /\ stage' = "written" /\ Rewind
  /\ RestrictionsOnly /\ UNCHANGED restrictions_list

Extract ==
  \/ \E n \in todo.nodes : ProcessNode(n)
  \/ \E w \in todo.ways : ProcessWay(w)
  \/ \E r \in todo.relations : ProcessRestriction(r)
  \/ NextBuffer \/ ParsingEnds \/ BuildIdMap \/ WriteNodes
  \/ SetStartCoords \/ StartsSet \/ ComputeWeights \/ WeightsComputed
  \/ RemoveMultiEdges \/ ReadPastEnd \/ WriteEdges
  \/ FixStarts \/ StartsFixed \/ FixEnds \/ LookupCrashes \/ WriteRestrictions

-----------------------------------------------------------------------------
(* What the files should say, from the input alone.                        *)

Entities(kind) == UNION {input.buffers[k][kind] : k \in DOMAIN input.buffers}
KnownNodes == {n.id : n \in Entities("nodes")}

(* The moves the ways allow from one of their nodes to the next.           *)
Drives ==
  UNION {LET n == w.nodes
             Drive(u, v, speed, mode) ==
               [from |-> u, to |-> v, name |-> w.name, mode |-> mode,
                weight |-> EdgeWeight(WeightData(w, speed, mode), Distance(u, v))]
         IN {Drive(n[i], n[i + 1], w.forward_speed, w.forward_mode) :
               i \in {k \in 1 .. Len(n) - 1 : w.forward_mode # Inaccessible}}
              \cup {Drive(n[i + 1], n[i], w.backward_speed, w.backward_mode) :
                      i \in {k \in 1 .. Len(n) - 1 : w.backward_mode # Inaccessible}}
         : w \in {v \in Entities("ways") : WayUsed(v)}}
UsableDrives ==
  {d \in Drives : d.from # d.to /\ d.from \in KnownNodes /\ d.to \in KnownNodes}

(* The moves the .osrm file allows, by the entry that allows them.         *)
Written ==
  LET Osm(k) == file.nodes[k + 1].id
      Arc(k, u, v) ==
        LET e == file.edges[k]
        IN [entry |-> k,
            drive |-> [from |-> Osm(u), to |-> Osm(v), name |-> string_map[e.name_id + 1],
                       mode |-> e.mode, weight |-> e.weight]]
  IN {Arc(k, file.edges[k].source, file.edges[k].target) : k \in DOMAIN file.edges}
       \cup {Arc(k, file.edges[k].target, file.edges[k].source) :
               k \in {l \in DOMAIN file.edges : file.edges[l].backward}}

(* The .osrm file allows exactly the moves the ways allow between two      *)
(* nodes that are there: each once, with the weight, name and mode of one  *)
(* and the same way that allows it, whatever the order of the callbacks    *)
(* and the order a sort leaves equal edges in.  Which of several parallel  *)
(* ways that is depends on the sort (see MinimalKept, which the code       *)
(* does not keep).  The ids in an edge are the places                      *)
(* of its nodes in the file, although PrepareNodes counts and WriteNodes   *)
(* writes in two separate passes, and the joins, the orientation of edges  *)
(* and the removal of parallel edges lie between (PrepareNodes,            *)
(* PrepareEdges, WriteNodes, WriteEdges).                                  *)
EdgesFaithful == stage = "fix_starts" =>
  /\ {a.drive : a \in Written} \subseteq UsableDrives
  /\ \A d \in UsableDrives :
       Cardinality({a \in Written : a.drive.from = d.from /\ a.drive.to = d.to}) = 1

(* "find minimal edge in both directions" (extraction_containers.cpp:426): *)
(* of the ways that lead from one node to the next, the one that takes     *)
(* least is kept.                                                          *)
MinimalKept == stage = "fix_starts" =>
  \A a \in Written, d \in UsableDrives :
    a.drive.from = d.from /\ a.drive.to = d.to => a.drive.weight <= d.weight

(* A restriction as it may be written, for a relation whose ways meet at   *)
(* its via node: a way that goes round has two nodes beside it.            *)
WayOf(id) == CHOOSE w \in Entities("ways") : w.id = id
Resolvable(r) ==
  \A id \in {r.from, r.to} :
    \E w \in Entities("ways") :
      /\ w.id = id /\ WayUsed(w) /\ Range(w.nodes) \subseteq KnownNodes
      /\ r.via \in {w.nodes[1], w.nodes[Len(w.nodes)]}
Resolved(r) ==
  LET Beside(id) == LET n == WayOf(id).nodes
                    IN {n[IF k = 1 THEN 2 ELSE k - 1] : k \in {j \in {1, Len(n)} : n[j] = r.via}}
      Place(osm) == (CHOOSE k \in DOMAIN file.nodes : file.nodes[k].id = osm) - 1
  IN {[tag |-> r.tag, from |-> Place(from), via |-> Place(r.via), to |-> Place(to),
       is_only |-> r.is_only] : from \in Beside(r.from), to \in Beside(r.to)}
Parsed == UNION {TryParse(relation) : relation \in Entities("relations")}

(* A restriction whose ways meet at its via node is written once, with the *)
(* nodes beside the via node in place of the ways, although the two joins  *)
(* overwrite the ids they sort and compare by; one that names an unknown   *)
(* via node, or a way that is missing below the greatest way, is not       *)
(* written (PrepareRestrictions, WriteRestrictions).                       *)
RestrictionsFaithful == stage = "written" =>
  LET greatest == way_start_end_id_list[Len(way_start_end_id_list)].way
      WayMissing(id) == id < greatest /\ \A ends \in Range(way_start_end_id_list) : ends.way # id
  IN \A r \in Parsed :
       LET of == SelectSeq(file.restrictions, LAMBDA s : s.tag = r.tag)
       IN /\ Resolvable(r) => Len(of) = 1 /\ of[1] \in Resolved(r)
          /\ WayMissing(r.from) \/ WayMissing(r.to) \/ Special \in {r.from, r.to}
               \/ (r.via \notin KnownNodes /\ r.from <= greatest)
               => of = <<>>

=============================================================================
