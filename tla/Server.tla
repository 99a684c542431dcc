------------------------------- MODULE Server -------------------------------
(***************************************************************************)
(* The HTTP front of osrm-routed: accepting connections, parsing requests  *)
(* as they arrive, handling them and writing one reply (the files of       *)
(* server).                                                                *)
(*                                                                         *)
(* A client sends a sequence of words.  The parser consumes characters; in *)
(* the middle of a word it only stays in its state and appends, so a word  *)
(* is consumed at once, and its states that spell out a fixed word are one *)
(* state.  How the words are split over the reads is the network's choice. *)
(***************************************************************************)
EXTENDS RouteParameters

CONSTANTS Conns,    \* the connections, in the order they are accepted
          Clients,  \* what a client may send
          MaxRead   \* the words one read delivers at most

\* A client sends the words of one request, the first `length' ones, and maybe
\* more, and means the uri and the compression given; or it sends what is no
\* request.
ASSUME ServerAssumption ==
    /\ MaxRead \in Nat \ {0}
    /\ \A client \in Clients :
         /\ DOMAIN client = {"words", "length", "uri", "compression", "request"}
         /\ client.length \in 1 .. Len(client.words)
         /\ client.request \in BOOLEAN

VARIABLES running,    \* io_service has not been stopped
          accepting,  \* an async_accept is pending
          conn        \* the state of every connection

serverVars == <<running, accepting, conn>>

-----------------------------------------------------------------------------
(* RequestParser.                                                          *)

Names == {"Accept-Encoding", "Content-Length", "Content-Type", "Referer"}

\* The words a method or a name may be made of: neither a control character
\* nor a separator in them.
Tokens == {"GET", "POST", "PUT"} \cup Names

Controls == {"CR", "LF", "CTL"}

\* What stoi makes of a value; it throws for any other word.
Number == "0" :> 0 @@ "1" :> 1 @@ "2" :> 2 @@ "3" :> 3

\* RequestParser(), with the request it fills and its last result.
FreshParser ==
    [state |-> "method_start", name |-> "", value |-> <<>>, compression |-> "none",
     is_post |-> FALSE, content_length |-> 0, uri |-> <<>>, result |-> "indeterminate"]

Go(p, state) == [p EXCEPT !.state = state]

No(p) == [p EXCEPT !.result = "no"]

\* A state that expects one word.
Expect(p, word, expected, state) == IF word = expected THEN Go(p, state) ELSE No(p)

\* What header_line_start does with the header above the line it starts.
TakeHeader(p) ==
    CASE p.name = "Accept-Encoding" ->
           [p EXCEPT !.compression = CASE Contains(p.value, "gzip")    -> "gzip"
                                       [] Contains(p.value, "deflate") -> "deflate"
                                       [] OTHER                        -> @]
      [] p.name = "Content-Length" /\ p.value # <<>> /\ Head(p.value) \in DOMAIN Number ->
           [p EXCEPT !.content_length = Number[Head(p.value)]]
      [] p.name = "Content-Type" /\ ~Contains(p.value, "form") -> No(p)
      [] OTHER -> p

\* header_line_start.
StartHeaderLine(p0, word) ==
    LET p == TakeHeader(p0)
    IN  CASE p.result = "no"  -> p
          [] word = "CR"      -> Go(p, "expecting_newline_3")
          [] word \in Tokens  -> [Go(p, "header_name") EXCEPT !.name = word, !.value = <<>>]
          [] OTHER            -> No(p)

\* The newline after the empty line.
EndHeaders(p) ==
    IF p.is_post
    THEN [Go(p, "post_request") EXCEPT
            !.uri = IF p.content_length > 0 THEN Append(@, "?") ELSE @]
    ELSE [p EXCEPT !.result = "yes"]

\* consume.  The states uri_start and header_lws are never entered.
Consume(p, word) ==
    CASE p.state = "method_start" ->
           CASE word = "POST"     -> [Go(p, "method") EXCEPT !.is_post = TRUE]
             [] word = "PUT"      -> No(p)
             [] word \in Tokens   -> Go(p, "method")
             [] OTHER             -> No(p)
      [] p.state = "method" ->
           CASE word = " "        -> Go(p, "uri")
             [] word \in Tokens   -> p
             [] OTHER             -> No(p)
      [] p.state = "uri" ->
           CASE word = " "        -> Go(p, "http_version")
             [] word \in Controls -> No(p)
             [] OTHER             -> [p EXCEPT !.uri = Append(@, word)]
      [] p.state = "http_version" -> Expect(p, word, "HTTP", "http_version_minor")
      [] p.state = "http_version_minor" -> Expect(p, word, "CR", "expecting_newline_1")
      [] p.state = "expecting_newline_1" -> Expect(p, word, "LF", "header_line_start")
      [] p.state = "header_line_start" -> StartHeaderLine(p, word)
      [] p.state = "header_name" ->
           CASE word = ":"        -> Go(p, "space_before_header_value")
             [] word \in Tokens   -> [p EXCEPT !.name = "other"]
             [] OTHER             -> No(p)
      [] p.state = "space_before_header_value" -> Expect(p, word, " ", "header_value")
      [] p.state = "header_value" ->
           CASE word = "CR"       -> Go(p, "expecting_newline_2")
             [] word \in Controls -> No(p)
             [] OTHER             -> [p EXCEPT !.value = Append(@, word)]
      [] p.state = "expecting_newline_2" -> Expect(p, word, "LF", "header_line_start")
      [] p.state = "expecting_newline_3" -> IF word = "LF" THEN EndHeaders(p) ELSE No(p)
      [] p.state = "post_request" ->
           [p EXCEPT !.uri = Append(@, word), !.content_length = @ - 1]

\* A mutation of Complete: one byte more than the body is waited for.
CompleteBeyond(p) == p.state = "post_request" /\ p.content_length < 0

\* A request with a body is complete at the end of a read.
Complete(p) == p.state = "post_request" /\ p.content_length <= 0

\* parse: the words after the one that decides are dropped.
Parse(p0, words) ==
    LET step(p, word) == IF p.result = "indeterminate" THEN Consume(p, word) ELSE p
        p1 == FoldLeft(step, p0, words)
    IN  IF p1.result = "indeterminate" /\ Complete(p1)
        THEN [p1 EXCEPT !.result = "yes"] ELSE p1

-----------------------------------------------------------------------------
(* RequestHandler and reply.  The value of a Content-Length is the content *)
(* it was computed from.                                                   *)

Reply(status, length, type, content) ==
    [status |-> status, length |-> length, type |-> type, encoding |-> "none",
     content |-> content]

\* stock_reply.
StockReply(status) == Reply(status, <<status>>, "html", <<status>>)

\* URIDecode: an escaped spelling of a word is the word.
URIDecode(uri) == [i \in DOMAIN uri |-> IF uri[i] = "l%6fc" THEN "loc" ELSE uri[i]]

\* RunQuery as handle_request sees it: a service the engine does not know is
\* a bad request, a plugin may refuse, and it may throw.
EngineAnswers(params) == IF params.service \in Services THEN {"200", "400", "throw"} ELSE {"400"}

\* handle_request, with the engine's answer.
HandleRequest(uri, answer) ==
    LET params == ParseQuery(URIDecode(uri)).params
        prefix == IF params.jsonp THEN <<"callback(">> ELSE <<>>
        suffix == IF params.jsonp THEN <<")">> ELSE <<>>
        refused == [StockReply("400") EXCEPT !.content = <<"message">>]
    IN  CASE ~Accepted(URIDecode(uri)) -> refused
          [] answer = "400"           -> refused
          [] answer = "throw"         -> StockReply("500")
          [] answer = "200"           ->
               IF params.output_format = "gpx"
               THEN Reply("200", prefix, "gpx", prefix \o <<"route">> \o suffix)
               ELSE Reply("200", prefix, IF params.jsonp THEN "javascript" ELSE "json",
                          prefix \o <<"result">> \o suffix)

\* A mutation of Encode: the size is set only when nothing is compressed.
EncodeUnsized(reply, compression) ==
    IF compression = "none" THEN [reply EXCEPT !.length = reply.content]
    ELSE [reply EXCEPT !.encoding = compression, !.content = <<compression, reply.content>>]

\* The end of handle_read for a request: compress_buffers, set_size.
Encode(reply, compression) ==
    IF compression = "none" THEN [reply EXCEPT !.length = reply.content]
    ELSE [reply EXCEPT !.encoding = compression,
                       !.content = <<compression, reply.content>>,
                       !.length = <<compression, reply.content>>]

-----------------------------------------------------------------------------
(* Server and Connection.                                                  *)

Unused == [stage |-> "unused"]

\* Server(): listening, with the first connection waiting to be accepted.
ServerInit ==
    /\ running = TRUE
    /\ accepting = TRUE
    /\ conn = [c \in Conns |-> Unused]

\* HandleAccept.  An error ends the accepting.
HandleAccept(c, client) ==
    /\ running /\ accepting
    /\ conn[c] = Unused
    /\ conn' = [conn EXCEPT ![c] =
                  [stage |-> "reading", client |-> client, sent |-> 0,
                   parser |-> FreshParser, reply |-> Reply("200", <<>>, "none", <<>>)]]
    /\ UNCHANGED <<running, accepting>>

AcceptFails ==
    /\ running /\ accepting
    /\ accepting' = FALSE
    /\ UNCHANGED <<running, conn>>

\* A read brings n words.
Arrives(c, n) ==
    /\ running
    /\ conn[c].stage = "reading"
    /\ n <= Len(conn[c].client.words) - conn[c].sent

ParsedWith(c, n) ==
    Parse(conn[c].parser, SubSeq(conn[c].client.words, conn[c].sent + 1, conn[c].sent + n))

\* handle_read with n words.
HandleRead(c, n) ==
    /\ Arrives(c, n)
    /\ LET p == ParsedWith(c, n)
           next == [conn[c] EXCEPT !.sent = @ + n, !.parser = p]
       IN  \/ /\ p.result = "indeterminate"
              /\ conn' = [conn EXCEPT ![c] = next]
           \/ /\ p.result = "no"
              /\ conn' = [conn EXCEPT ![c] =
                            [next EXCEPT !.stage = "writing", !.reply = StockReply("400")]]
           \/ /\ p.result = "yes"
              /\ \E answer \in EngineAnswers(ParseQuery(URIDecode(p.uri)).params) :
                   conn' = [conn EXCEPT ![c] =
                             [next EXCEPT !.stage = "writing",
                                          !.reply = Encode(HandleRequest(p.uri, answer),
                                                           p.compression)]]
    /\ UNCHANGED <<running, accepting>>

\* remote_endpoint throws when the client of a parsed request has gone.  Nothing
\* catches it in the thread that runs the io_service, so the process ends.
EndpointThrows(c, n) ==
    /\ Arrives(c, n)
    /\ ParsedWith(c, n).result = "yes"
    /\ conn' = [conn EXCEPT ![c].stage = "gone"]
    /\ running' = FALSE
    /\ UNCHANGED accepting

\* handle_read with an error: the connection is let go.
ReadFails(c) ==
    /\ running
    /\ conn[c].stage = "reading"
    /\ conn' = [conn EXCEPT ![c].stage = "gone"]
    /\ UNCHANGED <<running, accepting>>

\* handle_write: shut down, or after an error let go.
HandleWrite(c) ==
    /\ running
    /\ conn[c].stage = "writing"
    /\ \E stage \in {"closed", "gone"} : conn' = [conn EXCEPT ![c].stage = stage]
    /\ UNCHANGED <<running, accepting>>

\* Stop: nothing that waits for the io_service runs any more.
Stop ==
    /\ running
    /\ running' = FALSE
    /\ UNCHANGED <<accepting, conn>>

ServerStep ==
    \/ AcceptFails
    \/ Stop
    \/ \E c \in Conns :
         \/ /\ accepting /\ conn[c] = Unused
            /\ \E client \in Clients : HandleAccept(c, client)
         \/ \E n \in 1 .. MaxRead : HandleRead(c, n) \/ EndpointThrows(c, n)
         \/ ReadFails(c)
         \/ HandleWrite(c)

ServerSpec == ServerInit /\ [][ServerStep]_serverVars

-----------------------------------------------------------------------------
Replied(c) == conn[c].stage \in {"writing", "closed"}

\* What is read behind the request together with its end: dropped behind a
\* GET, taken for more of the body behind a POST.
Surplus(client, sent) ==
    IF Head(client.words) = "POST" THEN SubSeq(client.words, client.length + 1, sent) ELSE <<>>

\* Whatever way a request is cut into reads, what is handed to the request
\* handler is what the client sent: its uri, with the body of a POST as the
\* query, and the compression it asked for, with nothing of what it sent
\* afterwards, except that a POST takes in all of the read that brings its end.
\* With the whole request there the connection does not wait for more, and
\* what is not a request is never answered with a result (RequestParser,
\* Connection::handle_read).
RequestAsSent ==
    \A c \in Conns :
      LET client == conn[c].client
          parser == conn[c].parser
      IN  /\ Replied(c) /\ client.request =>
               /\ parser.result = "yes"
               /\ parser.uri = client.uri \o Surplus(client, conn[c].sent)
               /\ parser.compression = client.compression
          /\ Replied(c) /\ ~client.request =>
               parser.result = "no" /\ conn[c].reply.status = "400"
          /\ conn[c].stage = "reading" /\ client.request =>
               conn[c].sent < client.length

\* A reply says of itself what is true: its Content-Length is that of the
\* content as sent, the content is encoded exactly as the header says, a
\* callback that is opened is closed, and only an accepted query gets a 200
\* (handle_request, stock_reply, set_size).
ReplyHonest ==
    \A c \in Conns : Replied(c) =>
      LET reply == conn[c].reply
          plain == IF reply.encoding = "none" THEN reply.content ELSE reply.content[2]
      IN  /\ reply.length = reply.content
          /\ reply.encoding = IF conn[c].parser.result = "yes"
                              THEN conn[c].parser.compression ELSE "none"
          /\ (Head(plain) = "callback(") = (Last(plain) = ")")
          /\ reply.status = "200" => Accepted(URIDecode(conn[c].parser.uri))

\* In an accepted query the lists that go with the places are as long as they
\* should be, and every hint, time stamp and U-turn flag is at the index of the
\* place it was written after, although failed alternatives undo nothing.
\* Bearings are only appended, so with fewer of them than places they move up;
\* the plugins look at them only when there are as many, and then each is at
\* the index of its place (APIGrammar, RouteParameters).  A polyline (locs)
\* fills the coordinates alone, and is left out.
OptionsBelong ==
    \A c \in Conns : Replied(c) =>
      LET uri == URIDecode(conn[c].parser.uri)
      IN  conn[c].parser.result = "yes" /\ Accepted(uri) /\ ~Contains(uri, "locs")
            => BelongToPlaces(uri, ParseQuery(uri).params)

=============================================================================
