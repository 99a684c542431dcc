--------------------------- MODULE MCDynamicGraph ---------------------------
(* Two graphs to start from, with parallel edges, a loop and an empty node.*)
EXTENDS DynamicGraph
MCInputGraphs == {<<<<1, 2>>, <<1, 3>>, <<1, 2>>, <<2, 1>>>>, <<<<2, 1>>, <<2, 1>>, <<3, 3>>>>}
=============================================================================
