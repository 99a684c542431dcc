----------------------------- MODULE MCPlugins -----------------------------
(* Requests whose places lie on roads of the big and of small components.  *)
EXTENDS Plugins

\* The big component is 1; 2 and 3 are tiny.
Nears == {<<0, 0>>, <<1, 1>>, <<2, 2>>, <<2, 1>>, <<3, 1>>}

NamedPlace(roles, hint, near) ==
    [valid |-> TRUE, source |-> "s" \in roles, target |-> "t" \in roles,
     hint |-> hint, near |-> near]

Anywhere == {NamedPlace({"s", "t"}, hint, near) : hint \in {0, 2}, near \in Nears}

OfTable == {NamedPlace(roles, 0, near) : roles \in {{"s"}, {"t"}, {"s", "t"}}, near \in Nears \ {<<0, 0>>}}

Request4(service, places, bearings, flags) ==
    [service |-> service, places |-> places, bearings |-> bearings,
     checksum |-> flags[1], alternate |-> flags[2], routable |-> flags[3]]

Flags == BOOLEAN \X BOOLEAN \X BOOLEAN

Invalid == [NamedPlace({"s", "t"}, 0, <<1, 1>>) EXCEPT !.valid = FALSE]

MCRequests ==
    {Request4(service, places, 0, flags) :
       service \in {"viaroute", "trip"}, places \in Anywhere \X Anywhere, flags \in Flags}
    \cup {Request4("viaroute", <<p, q, p>>, b, <<TRUE, TRUE, FALSE>>) :
            p \in Anywhere, q \in Anywhere, b \in {0, 2, 3}}
    \cup {Request4("table", places, 0, <<FALSE, TRUE, TRUE>>) : places \in OfTable \X OfTable \X OfTable}
    \cup {Request4(service, places, b, <<FALSE, TRUE, TRUE>>) :
            service \in {"viaroute", "nearest"}, b \in 0 .. 1,
            places \in {<<>>, <<Invalid>>, <<NamedPlace({"s"}, 0, <<1, 1>>), Invalid>>,
                        <<NamedPlace({"s"}, 0, <<0, 0>>)>>}}
=============================================================================
