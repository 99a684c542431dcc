----------------------------- MODULE MCLibrary -----------------------------
(***************************************************************************)
(* The components of the routing engine that share no state, each on its   *)
(* small instance: `part' says which of them a behaviour is about, and the *)
(* others stay as they start.                                              *)
(***************************************************************************)
EXTENDS MCExtraction, MCServer, MCTours, MCPlugins, MCRTree, MCMatching, MCDynamicGraph,
        MCRouteDescription, RangeTable, HashStorage, BinaryHeap

VARIABLE part

MCLengthLists == UNION {[1 .. n -> {0, 1, 3}] : n \in 1 .. 7}

\* A component that is not the part looked at has one initial state.
SomeInput == CHOOSE i \in Inputs : TRUE

Orders == SetToSeqs(Segments)

SomeOrder == CHOOSE o \in Orders : TRUE

SomeGraph == CHOOSE g \in InputGraphs : TRUE

LibraryInit ==
    /\ part \in {"extractor", "server", "tours", "plugins", "rtree", "matching",
                 "graph", "description", "ranges", "hash", "heap"}
    /\ input \in IF part = "extractor" THEN Inputs ELSE {SomeInput}
    /\ pending \in IF part = "rtree" THEN Orders ELSE {SomeOrder}
    /\ ExtractorInit /\ ServerInit /\ TourInit /\ PlugInit /\ RTInit /\ MatchInit
    /\ \E g \in IF part = "graph" THEN InputGraphs ELSE {SomeGraph} : GraphFrom(g)
    /\ DescInit /\ TableInit /\ HashInit /\ Init

dataVars == <<rtVars, graphVars, tableVars, hashVars, vars>>

LibraryNext ==
    /\ UNCHANGED part
    /\ \/ /\ part = "extractor" /\ ExtractorNext
          /\ UNCHANGED <<serverVars, tourVars, plugVars, mmVars, descVars, dataVars>>
       \/ /\ part = "server" /\ MCNext
          /\ UNCHANGED <<ExtractorVars, tourVars, plugVars, mmVars, descVars, dataVars>>
       \/ /\ part = "tours" /\ TourStep
          /\ UNCHANGED <<ExtractorVars, serverVars, plugVars, mmVars, descVars, dataVars>>
       \/ /\ part = "plugins" /\ PlugStep
          /\ UNCHANGED <<ExtractorVars, serverVars, tourVars, mmVars, descVars, dataVars>>
       \/ /\ part = "matching" /\ MatchStep
          /\ UNCHANGED <<ExtractorVars, serverVars, tourVars, plugVars, descVars, dataVars>>
       \/ /\ part = "description" /\ DescStep
          /\ UNCHANGED <<ExtractorVars, serverVars, tourVars, plugVars, mmVars, dataVars>>
       \/ /\ UNCHANGED <<ExtractorVars, serverVars, tourVars, plugVars, mmVars, descVars>>
          /\ \/ part = "rtree" /\ RTStep /\ UNCHANGED <<graphVars, tableVars, hashVars, vars>>
             \/ part = "graph" /\ GraphStep /\ UNCHANGED <<rtVars, tableVars, hashVars, vars>>
             \/ part = "ranges" /\ TableStep /\ UNCHANGED <<rtVars, graphVars, hashVars, vars>>
             \/ part = "hash" /\ HashStep /\ UNCHANGED <<rtVars, graphVars, tableVars, vars>>
             \/ part = "heap" /\ Next /\ UNCHANGED <<rtVars, graphVars, tableVars, hashVars>>

LibrarySpec ==
    LibraryInit
      /\ [][LibraryNext]_<<part, ExtractorVars, serverVars, tourVars, plugVars, mmVars,
                           descVars, dataVars>>
=============================================================================
