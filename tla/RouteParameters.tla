-------------------------- MODULE RouteParameters --------------------------
(***************************************************************************)
(* The query string of a request: the rules of server/api_grammar.hpp and  *)
(* the setters of data_structures/route_parameters.cpp they call.          *)
(*                                                                         *)
(* A query string is a sequence of a service, "?" and whole options.  The  *)
(* rules are those of a parsing expression grammar: an alternative that    *)
(* has matched is never given up, and a setter's effect is never undone.   *)
(***************************************************************************)
EXTENDS Integers, Sequences, FiniteSets, SequencesExt

\* setService takes any name; the engine knows these.
Services == {"/viaroute", "/table"}

Places == {"loc", "src", "dst"}

\* "u-off" is u=false, "uturns-off" uturns=false.
PlaceOptions == {"b", "u", "t", "hint"}

\* The rule an option of a place matches.
Rule(option) == IF option = "u-off" THEN "u" ELSE option

\* RouteParameters().
Defaults ==
    [service |-> "", coordinates |-> 0, is_source |-> <<>>,
     is_destination |-> <<>>, uturns |-> <<>>, uturn_default |-> FALSE,
     hints |-> <<>>, timestamps |-> <<>>, bearings |-> <<>>,
     output_format |-> "", jsonp |-> FALSE, num_results |-> 1]

\* A mutation of AddPlace: a source gets no turning flag.
AddPlaceUnturned(params, place) ==
    [params EXCEPT !.coordinates = @ + 1,
                   !.is_source = Append(@, place # "dst"),
                   !.is_destination = Append(@, place # "src"),
                   !.uturns = IF place = "src" THEN @
                              ELSE Append(@, params.uturn_default)]

\* addCoordinate, addSource, addDestination.
AddPlace(params, place) ==
    [params EXCEPT !.coordinates = @ + 1,
                   !.is_source = Append(@, place # "dst"),
                   !.is_destination = Append(@, place # "src"),
                   !.uturns = Append(@, params.uturn_default)]

\* The k-th entry of a list that may be shorter than the places are many.
Entry(list, k) == IF k <= Len(list) THEN list[k] ELSE ""

\* resize, then back() = value.
WithLast(list, size, value) ==
    [i \in 1 .. size |-> IF i = size THEN value
                         ELSE Entry(list, i)]

\* addBearing, setUTurn, addTimestamp, addHint.  A bearing is known by the place
\* it was given for.  One out of its interval, or with such a range, is the
\* option "b-off", which addBearing makes no match of.
AddPlaceOption(params, option) ==
    CASE option = "b"    -> [params EXCEPT !.bearings = Append(@, params.coordinates)]
      [] option \in {"u", "u-off"} ->
           [params EXCEPT !.uturns = Append(Front(@), option = "u")]
      [] option = "t"    -> [params EXCEPT !.timestamps =
                               WithLast(@, params.coordinates, "t")]
      [] option = "hint" -> [params EXCEPT !.hints =
                               WithLast(@, params.coordinates, "hint")]

\* The options that stand for themselves.
GlobalOptions == {"uturns", "uturns-off", "gpx", "jsonp", "num", "num-off", "locs"}

\* setAllUTurns, setOutputFormat, setJSONpParameter, setNumberOfResults and
\* getCoordinatesFromGeometry.  The last one decodes a polyline, here one of
\* two points, into the coordinates and leaves the lists beside them alone.
SetGlobalOption(params, option) ==
    CASE option = "uturns"  -> [params EXCEPT
                                  !.uturn_default = TRUE,
                                  !.uturns = [i \in 1 .. params.coordinates |-> TRUE]]
      [] option = "gpx"     -> [params EXCEPT !.output_format = "gpx"]
      [] option = "jsonp"   -> [params EXCEPT !.jsonp = TRUE]
      [] option = "num"     -> [params EXCEPT !.num_results = 2]
      [] option \in {"num-off", "uturns-off"} -> params
      [] option = "locs"    -> [params EXCEPT !.coordinates = 2]

-----------------------------------------------------------------------------
(* The rules.  Each takes what is left of the query and the parameters so  *)
(* far, and gives both back with whether it matched.                       *)

State(rest, params, ok) == [rest |-> rest, params |-> params, ok |-> ok]

\* An optional rule.
Maybe(st, next) == IF next.ok THEN next ELSE [st EXCEPT !.ok = TRUE]

\* How many of the given options come next, each at most once.
RunLength(rest, options) ==
    CHOOSE n \in 0 .. Len(rest) :
      LET rules(k) == [i \in 1 .. k |-> Rule(rest[i])]
          legal(k) == Range(rules(k)) \subseteq options /\ IsInjective(rules(k))
      IN  legal(n) /\ (n < Len(rest) => ~legal(n + 1))

\* The rules timestamp, u, hint and bearing, and t_u, t_h, u_h and t_u_h over
\* them: the given options in any order, each at most once, at least one.
AnyOf(st, options) ==
    LET n == RunLength(st.rest, options)
    IN  State(SubSeq(st.rest, n + 1, Len(st.rest)),
              FoldLeft(AddPlaceOption, st.params, SubSeq(st.rest, 1, n)),
              n > 0)

t_u_h(st) == AnyOf(st, {"t", "u", "hint"})

bearing(st) == AnyOf(st, {"b"})

\* The first two alternatives.  The six after them begin with an option the
\* second one matches, so they are never tried.
location_options(st) ==
    IF bearing(st).ok THEN Maybe(bearing(st), t_u_h(bearing(st)))
    ELSE IF t_u_h(st).ok THEN Maybe(t_u_h(st), bearing(t_u_h(st)))
    ELSE [st EXCEPT !.ok = FALSE]

\* One repetition of the loop in the rule query.
query_option(st) ==
    LET option == Head(st.rest)
        placed == State(Tail(st.rest), AddPlace(st.params, option), TRUE)
    IN  CASE st.rest = <<>>           -> [st EXCEPT !.ok = FALSE]
          [] option \in Places        -> Maybe(placed, location_options(placed))
          [] option \in GlobalOptions -> State(Tail(st.rest),
                                               SetGlobalOption(st.params, option), TRUE)
          [] OTHER                    -> [st EXCEPT !.ok = FALSE]

\* api_call, as qi::parse runs it: the result and what is left unread.  The
\* loop of the rule query ends at the first option that does not match.
ParseQuery(uri) ==
    LET start == State(Tail(uri), [Defaults EXCEPT !.service = Head(uri)], TRUE)
        loop == FoldLeft(LAMBDA st, i : IF st.ok THEN query_option(st) ELSE st,
                         [start EXCEPT !.rest = Tail(@)], uri)
    IN  CASE uri = <<>> \/ Head(uri) = "?"                  -> State(uri, Defaults, FALSE)
          [] start.rest = <<>> \/ Head(start.rest) # "?"    -> start
          [] Len(loop.rest) = Len(start.rest) - 1           -> start
          [] OTHER                                          -> [loop EXCEPT !.ok = TRUE]

\* What handle_request goes on with.
Accepted(uri) == ParseQuery(uri).ok /\ ParseQuery(uri).rest = <<>>

-----------------------------------------------------------------------------
(* What the lists of an accepted query should say.                         *)

\* The place an option of the query follows, counted from 1.
Owner(uri, i) == Cardinality({j \in 1 .. i : uri[j] \in Places})

Holds(uri, option, k) == \E i \in 1 .. Len(uri) : uri[i] = option /\ Owner(uri, i) = k

\* A place may turn round if the last option that says so allows it: its own
\* or uturns=true, which overwrites what was there; uturns=false says nothing.
MayTurn(uri, k) ==
    LET last == {i \in 1 .. Len(uri) :
                   \/ uri[i] = "uturns"
                   \/ uri[i] \in {"u", "u-off"} /\ Owner(uri, i) = k}
    IN  last # {} /\ uri[CHOOSE i \in last : \A j \in last : j <= i] # "u-off"

\* The lists run beside each other, and an option is found in its list at the
\* index of the place it was written after.
BelongToPlaces(uri, params) ==
    LET places == {i \in 1 .. Len(uri) : uri[i] \in Places}
    IN  /\ Cardinality(places) = params.coordinates
        /\ \A list \in {params.is_source, params.is_destination, params.uturns} :
             Len(list) = params.coordinates
        /\ \A list \in {params.hints, params.timestamps} : Len(list) <= params.coordinates
        /\ \A i \in places :
             LET k == Owner(uri, i)
             IN  /\ params.is_source[k] = (uri[i] # "dst")
                 /\ params.is_destination[k] = (uri[i] # "src")
                 /\ params.uturns[k] = MayTurn(uri, k)
                 /\ (Entry(params.hints, k) = "hint") = Holds(uri, "hint", k)
                 /\ (Entry(params.timestamps, k) = "t") = Holds(uri, "t", k)
                 /\ Len(params.bearings) = params.coordinates => params.bearings[k] = k
        /\ Len(params.bearings) = Len(SelectSeq(uri, LAMBDA option : option = "b"))
=============================================================================
