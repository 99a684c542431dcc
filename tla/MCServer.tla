------------------------------ MODULE MCServer ------------------------------
(* Clients of the server: queries with their options in every order, requests*)
(* with headers and bodies, and words that are no request.                 *)
EXTENDS Server

CONSTANTS c1, c2

Line(words) == words \o <<"CR", "LF">>

Header(name, value) == Line(<<name, ":", " ">> \o value)

Get(uri, headers) == Line(<<"GET", " ">> \o uri \o <<" ", "HTTP">>) \o headers \o Line(<<>>)

Post(uri, headers) == Line(<<"POST", " ">> \o uri \o <<" ", "HTTP">>) \o headers \o Line(<<>>)

RequestAnd(more, words, uri, compression) ==
    [words |-> words \o more, length |-> Len(words), uri |-> uri, compression |-> compression,
     request |-> TRUE]

Request(words, uri, compression) == RequestAnd(<<>>, words, uri, compression)

Nonsense(words) ==
    [words |-> words, length |-> 1, uri |-> <<>>, compression |-> "none", request |-> FALSE]

\* The orders of up to three options after a place, repetitions included, and
\* a few queries with several places.
Queries ==
    {<<"loc">> \o options : options \in UNION {[1 .. n -> PlaceOptions] : n \in 0 .. 3}}
      \cup {<<"src", "hint", "uturns", "dst", "loc", "u">>,
            <<"loc", "t", "dst", "src", "t", "u", "b">>,
            <<"loc", "b", "hint", "src", "u-off", "b">>, <<"loc", "u", "u-off">>,
            <<"src", "u-off", "uturns", "dst", "u-off", "uturns-off", "loc">>,
            <<"jsonp", "l%6fc", "b-off">>, <<"jsonp", "num", "src", "dst">>,
            <<"gpx", "num-off", "l%6fc">>, <<"locs">>}

Gets == {Request(Get(<<"/viaroute", "?">> \o q, <<>>), <<"/viaroute", "?">> \o q, "none") :
           q \in Queries}

Shop == <<"/table", "?", "jsonp", "loc">>

Headed ==
    {Request(Get(Shop, Header("Accept-Encoding", <<"deflate", " ", "gzip">>)), Shop, "gzip"),
     RequestAnd(<<"GET", " ">>,
                Get(Shop, Header("Accept-Encoding", <<"deflate">>) \o Header("Referer", <<"gzip">>)),
                Shop, "deflate"),
     Request(Post(<<"/table">>, Header("Content-Length", <<"2">>)
                                  \o Header("Content-Type", <<"form">>)) \o <<"src", "dst">>,
             <<"/table", "?", "src", "dst">>, "none"),
     RequestAnd(<<"loc", "POST">>,
                Post(<<"/table">>, Header("Content-Length", <<"1">>)) \o <<"dst">>,
                <<"/table", "?", "dst">>, "none"),
     Request(Post(<<"/table">>, Header("Content-Length", <<"0">>)), <<"/table">>, "none"),
     Request(Post(<<"/nothing">>, Header("Content-Length", <<"junk">>)
                                    \o Header("Accept-Encoding", <<"gzip">>)),
             <<"/nothing">>, "gzip")}

Broken ==
    {Nonsense(<<"PUT", " ">>), Nonsense(<<"GET", "CTL">>),
     Nonsense(<<"GET", " ", "/table", "CR", "LF">>),
     Nonsense(Post(<<"/table">>, Header("Content-Type", <<"text">>))),
     Nonsense(Get(Shop, <<"Referer", "CR">>)),
     Nonsense(Get(Shop, <<"Referer", ":", "CR">>)),
     Nonsense(Post(<<"/table">>, Header("Content-Length", <<"3">>)) \o <<"src", "dst">>)}

MCClients == Gets \cup Headed \cup Broken

\* The second connection is accepted after the first one, when both come from
\* clients with headers and the second asks for no compression.
MCNext ==
    /\ ServerStep
    /\ conn'[c2] # Unused => /\ conn[c1] # Unused
                             /\ {conn'[c1].client, conn'[c2].client} \subseteq Headed
                             /\ conn'[c2].client.compression = "none"
=============================================================================
