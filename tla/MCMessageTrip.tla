--------------------------- MODULE MCMessageTrip ---------------------------
(***************************************************************************)
(* Small instances of MessageTrip: URLs, lists of headers, queries and     *)
(* scripts of the builder, each varied with the rest of the exchange       *)
(* fixed.                                                                  *)
(***************************************************************************)
EXTENDS MessageTrip

Exchange(someCall, someHandler, someScript) ==
    [call |-> someCall, handler |-> someHandler, script |-> someScript]

\* "h" and "[::1]".
Hosts == { <<104>>, <<91, 58, 58, 49, 93>> }

\* None, 8, 8 with a sign and zeros, 65535, and two that are no ports: 65536
\* and nothing behind the colon.
Ports ==
    { [sign |-> <<>>, port |-> NaN], [sign |-> <<58, 56>>, port |-> 8],
      [sign |-> <<58, 43, 48, 48, 48, 48, 48, 56>>, port |-> 8],
      [sign |-> <<58, 54, 53, 53, 51, 53>>, port |-> 65535],
      [sign |-> <<58, 54, 53, 53, 51, 54>>, port |-> NaN],
      [sign |-> <<58>>, port |-> NaN] }

\* A host followed by what is no port is a name that no resolver knows.
Url(scheme, host, port, path) ==
    [scheme |-> scheme, rest |-> host \o port.sign \o path, path |-> path,
     host |-> IF port.port = NaN THEN host \o port.sign ELSE host,
     port |-> IF port.port # NaN THEN port.port
              ELSE IF scheme = "https" THEN 443 ELSE 80]

\* Nothing, "/", "/h", "/a:b", "/?a", "?a" and "/ a".
Paths ==
    { <<>>, <<47>>, <<47, 104>>, <<47, 97, 58, 98>>, <<47, 63, 97>>, <<63, 97>>,
      <<47, 32, 97>> }

Plain(path) == Url("http", <<104>>, [sign |-> <<>>, port |-> NaN], path)
Get(path) == Convenience("GET", Plain(path), <<>>, <<>>)

UrlExchanges ==
    { Exchange(Convenience("GET", Url(scheme, host, port, path), <<>>, <<>>), "simple", <<>>) :
        scheme \in Schemes, host \in Hosts, port \in Ports, path \in Paths }

SomeHeaders ==
    { Header("host", "x"), Header("connection", "keep-alive"),
      Header("x-a", "1"), Header("x-a", "2") }

\* Every method; the caller's own length with a body of as many bytes, of more
\* and of none.
HeaderExchanges ==
    { Exchange(Convenience(method, Plain(<<47>>), list, bytes), "fails", <<>>) :
        method \in HttpMethods, list \in BoundedSeq(SomeHeaders, 2),
        bytes \in {<<>>, <<97>>} }
      \cup
    { Exchange(Convenience(method, Plain(<<47>>), list, bytes), "simple", <<>>) :
        method \in {"GET", "POST"}, bytes \in {<<>>, <<97>>, <<97, 98>>},
        list \in BoundedSeq({Header("content-length", "1"), Header("content-length", "x"),
                              Header("x-a", "1")}, 2) }

\* Over "&", "=", "a", "%", "4"; then blanks, a second question mark, letters
\* of both cases, two bytes that are one character, half of it, and indexes.
Queries ==
    BoundedSeq({Amp, Eq, 97, Pct, 52}, 5) \cup
    { <<Plus, Eq, Plus, 97>>, <<97, Quest, 98>>, <<Pct, 52, 70>>, <<Pct, 54, 102>>,
      <<Pct, 67, 51, Pct, 97, 57>>, <<Pct, 67, 51>>, <<Pct, 97, 57, Eq, 97, 97>>,
      <<97, 97, 97, Pct>>, <<97, 97, Pct, 71>>,
      <<102, Open, 49, Close, Eq, 97, Amp, 102, Open, 48, Close, Eq, 98, Amp,
        102, Open, 48, 48, Close, Eq, 99>>,
      <<102, Open, Plus, 48, Close, Amp, 102, Open, Close>>,
      <<102, Open, Amp, 102, Open, 48, Close, 97>> }

QueryExchanges ==
    { Exchange(Get(<<Slash, Quest>> \o q), "builder", <<text(<<97>>)>>) : q \in Queries }

SomeQueryNames == { <<102>> }

\* The length that the handler sets is that of the whole body, of a part, which
\* may end within a character, or of more than the body.
Calls ==
    { status(Known(404)), status(Other(299)), status(Other(200)),
      header("x-a", "1"), header("x-a", "2"),
      Adds(<<Header("x-b", "1"), Header("x-a", "3")>>), header("content-length", "1"),
      content_type("text/plain"), json(<<123>>), problem_json(<<123>>),
      text(<<97, 97, 195, 169>>), binary(<<195>>), empty_body }

ScriptExchanges ==
    { Exchange(Get(<<47>>), "builder", calls) : calls \in BoundedSeq(Calls, 3) }

SomeExchanges ==
    UrlExchanges \cup HeaderExchanges \cup QueryExchanges \cup ScriptExchanges
=============================================================================
