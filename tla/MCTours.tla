------------------------------ MODULE MCTours ------------------------------
(* Distance tables for round trips.                                        *)
EXTENDS Tours

Square(n, Dist(_, _)) == [i \in 0 .. n - 1 |-> [j \in 0 .. n - 1 |-> IF i = j THEN 0 ELSE Dist(i, j)]]

Transitive(tab) ==
    \A i, j, k \in DOMAIN tab : tab[i][j] < Far /\ tab[j][k] < Far => tab[i][k] < Far

\* Three locations: every table over three lengths and Far.
Three == {tab \in {Square(3, LAMBDA i, j : d[<<i, j>>]) :
                     d \in [(0 .. 2) \X (0 .. 2) \ {<<0, 0>>, <<1, 1>>, <<2, 2>>} -> {1, 2, 3, Far}]} :
            Transitive(tab)}

\* Four or five locations on a line, the last one reached or leaving one way
\* only, and all of them in one place.
OnLine(n, at, lone) ==
    Square(n, LAMBDA i, j : IF lone /\ i = n - 1 THEN Far
                            ELSE IF at[i] < at[j] THEN at[j] - at[i] ELSE 2 * (at[i] - at[j]))

\* Two places from which the way to each other is long, because one may turn
\* round only at the others.
Turning == Square(4, LAMBDA i, j : IF {i, j} = {0, 1} THEN 9 ELSE 1)

MCTables == Three \cup {Turning}
   \cup {OnLine(4, at, FALSE) : at \in [0 .. 3 -> {0, 1, 3}]}
   \cup {OnLine(5, at, TRUE) : at \in [0 .. 4 -> {0, 2, 3}]}
=============================================================================
