---------------------------- MODULE MessageTrip ----------------------------
(***************************************************************************)
(* The contents of one exchange, from the caller's URL, headers and body   *)
(* to the handler and from the handler's response back: parse_endpoint,    *)
(* build_req, parse_from, the query accessors and percent_decode, the      *)
(* builder, build_bytes and parse_resp, one after the other.  That the     *)
(* bytes get to the other side, and what becomes of them when a buffer is  *)
(* too small for them, is in HttpExchange and in the modules it composes;  *)
(* how much of a body is read goes by the Content-Length in its head,      *)
(* which either side may set itself, true or not.                          *)
(*                                                                         *)
(* The handler is an application that goes through the query, decoding     *)
(* every name and every value, and then builds its response; or            *)
(* SimpleHandler; or one that returns an error.                            *)
(***************************************************************************)
EXTENDS HttpMessage, FiniteSetsExt

CONSTANTS
    Exchanges,   \* what may be exchanged: [call, handler, script], the call a
                 \* [method, url, headers, body], the script calls of the builder
    DecodeLen,   \* length of the buffer the handler decodes into
    Names,       \* the header names somebody may look up
    QueryNames   \* the indexed names of a query somebody may look up

-----------------------------------------------------------------------------
(* What may be exchanged.                                                   *)

\* A path in the sense of HTTP: empty, or from a slash, without blanks.
WellFormedPath(url) ==
    \/ url.path = <<>>
    \/ Head(url.path) = Slash /\ Space \notin ToSet(url.path)

\* A URL of a host, a port and a path: the port is written, or it is the
\* scheme's and nothing behind the last colon of the host reads as one.
Spelt(url) ==
    LET authority == SubSeq(url.rest, 1, Len(url.rest) - Len(url.path))
        digits == After(authority, Len(url.host) + 1)
    IN  /\ url.rest = authority \o url.path /\ Slash \notin ToSet(authority)
        /\ \/ /\ authority = url.host /\ url.port = DefaultPort(url.scheme)
              /\ \A i \in DOMAIN authority :
                    authority[i] = Colon /\ Colon \notin ToSet(After(authority, i)) =>
                        ParseNumber(After(authority, i), MaxU16) = NaN
           \/ /\ authority = url.host \o <<Colon>> \o digits /\ Colon \notin ToSet(digits)
              /\ url.port = ParseNumber(digits, MaxU16) /\ url.port # NaN

IsUrl(url) ==
    /\ url.scheme \in Schemes /\ url.rest \in Text /\ url.path \in Text
    /\ WellFormedPath(url) => url.host \in Text /\ Spelt(url)

GivenFields == [key : STRING, value : STRING]

IsCall(c) ==
    /\ c.method \in HttpMethods /\ IsUrl(c.url)
    /\ c.headers \in Seq(GivenFields)
    /\ c.body \in Seq(Text) /\ Len(c.body) <= 1

\* What a call of the builder adds and sets.  A Transfer-Encoding is left out:
\* the library writes no chunks, and what a client makes of a body that it takes
\* for some is in ChunkDecoder.
IsBuilderCall(op) ==
    /\ op.headers \in Seq(GivenFields)
    /\ \A i \in DOMAIN op.headers : op.headers[i].key # "transfer-encoding"
    /\ op.status \in Seq([known : BOOLEAN, code : 0 .. MaxU16]) /\ Len(op.status) <= 1
    /\ op.body \in Seq([kind : {"Empty", "Text", "Binary"}, bytes : Text])
    /\ Len(op.body) <= 1

ASSUME ExchangesAssumption ==
    /\ DecodeLen \in Nat /\ \A name \in QueryNames : name \in Text
    /\ \A x \in Exchanges :
          /\ IsCall(x.call)
          /\ x.handler \in {"builder", "simple", "fails"}
          /\ Len(x.script) \in Nat /\ DOMAIN x.script = 1 .. Len(x.script)
          /\ \A i \in DOMAIN x.script : IsBuilderCall(x.script[i])

VARIABLES
    call, handler, script,  \* what the two sides do
    at,          \* where the exchange is
    endpoint,    \* the HttpEndpoint
    wire,        \* the message under way: a request, then a response
    request,     \* the HttpRequest
    remaining,   \* QueryPairs.remaining
    pairs,       \* the pairs it has yielded
    texts,       \* names and values to decode, the first being decoded
    out,         \* the buffer up to `written'
    decoded,     \* the results of percent_decode
    made,        \* how many calls of the script have been made
    builder,     \* the HttpResponseBuilder
    response,    \* what the handler returned, nothing being an error
    answer       \* what the caller gets: a response, or an error

asked == <<call, endpoint>>
served == <<handler, script, made, builder, response>>
query == <<remaining, pairs, texts, out, decoded>>
vars == <<asked, at, wire, request, query, served, answer>>

Nothing == [error |-> "pending"]
Fails(error) == answer' = [error |-> error] /\ at' = "done"

\* The connection ends without an answer.
Dropped == \E error \in {"NoResponse", "TcpError"} : Fails(error)

Init ==
    /\ \E x \in Exchanges : call = x.call /\ handler = x.handler /\ script = x.script
    /\ at = "endpoint" /\ endpoint = Nothing /\ wire = Nothing
    /\ request = Nothing /\ remaining = <<>> /\ pairs = <<>>
    /\ texts = <<>> /\ out = <<>> /\ decoded = <<>>
    /\ made = 0 /\ builder = NewBuilder /\ response = <<>>
    /\ answer = Nothing

-----------------------------------------------------------------------------
ParseEndpoint ==
    /\ at = "endpoint"
    /\ IF call.url.scheme = "other"
         THEN Fails("InvalidUrl") /\ UNCHANGED endpoint
         ELSE at' = "ask" /\ endpoint' = parse_endpoint(call.url) /\ UNCHANGED answer
    /\ UNCHANGED <<call, wire, request, query, served>>

Ask ==
    /\ at = "ask" /\ at' = "parse"
    /\ wire' = build_req(call, endpoint)
    /\ UNCHANGED <<asked, request, query, served, answer>>

\* read_request, TryFrom and parse_from.
ParseRequest ==
    /\ at = "parse"
    /\ \/ /\ TooManyHeaders(wire) \/ LengthUnmet(wire)
          /\ Dropped /\ UNCHANGED <<request, remaining>>
       \/ /\ ~TooManyHeaders(wire)
          /\ at' = IF handler = "builder" THEN "query" ELSE "handle"
          /\ \E n \in BodyLengths(wire) : request' = parse_from(Cut(wire, n))
          /\ remaining' = query_string(FirstWord(wire.path))
          /\ UNCHANGED answer
    /\ UNCHANGED <<asked, wire, pairs, texts, out, decoded, served>>

Pair(segment) ==
    [name |-> SplitOnce(segment, Eq)[1], value |-> SplitOnce(segment, Eq)[2]]

\* Mutant of NextPair: the iteration ends at the first empty segment.
NextPairToGap ==
    LET cut == SplitOnce(remaining, Amp)
    IN  /\ at = "query"
        /\ remaining' = cut[2]
        /\ IF cut[1] = <<>>
             THEN at' = "handle" /\ UNCHANGED <<pairs, texts>>
             ELSE /\ at' = "decode"
                  /\ pairs' = Append(pairs, Pair(cut[1]))
                  /\ texts' = <<Pair(cut[1]).name, Pair(cut[1]).value>>
        /\ UNCHANGED <<asked, wire, request, out, decoded, served, answer>>

\* A turn of the loop in QueryPairs::next.
NextPair ==
    LET cut == SplitOnce(remaining, Amp)
    IN  /\ at = "query"
        /\ remaining' = cut[2]
        /\ IF cut[1] = <<>>
             THEN /\ at' = IF cut[2] = <<>> THEN "handle" ELSE "query"
                  /\ UNCHANGED <<pairs, texts>>
             ELSE /\ at' = "decode"
                  /\ pairs' = Append(pairs, Pair(cut[1]))
                  /\ texts' = <<Pair(cut[1]).name, Pair(cut[1]).value>>
        /\ UNCHANGED <<asked, wire, request, out, decoded, served, answer>>

\* A call of percent_decode returns.
Decoded(error, bytes) ==
    /\ decoded' = Append(decoded, [error |-> error, bytes |-> bytes])
    /\ texts' = Tail(texts) /\ out' = <<>>
    /\ at' = IF Len(texts) = 1 THEN "query" ELSE "decode"

\* Mutant of Put: a byte is written behind the buffer.
PutBehind(byte, rest) ==
    IF Len(out) > DecodeLen THEN Decoded("BufferOverflow", <<>>)
    ELSE /\ out' = Append(out, byte) /\ texts' = <<rest>> \o Tail(texts)
         /\ UNCHANGED <<at, decoded>>

Put(byte, rest) ==
    IF Len(out) = DecodeLen THEN Decoded("BufferOverflow", <<>>)
    ELSE /\ out' = Append(out, byte) /\ texts' = <<rest>> \o Tail(texts)
         /\ UNCHANGED <<at, decoded>>

\* A turn of the loop in percent_decode, or what follows the loop.
DecodeByte ==
    LET input == Head(texts)
    IN  /\ at = "decode"
        /\ IF input = <<>>
             THEN IF Utf8(out) THEN Decoded("none", out) ELSE Decoded("InvalidResponse", <<>>)
           ELSE IF Head(input) = Plus THEN Put(Space, Tail(input))
           ELSE IF Head(input) # Pct THEN Put(Head(input), Tail(input))
           ELSE IF Len(input) >= 3 /\ HexDigit(input[2]) /\ HexDigit(input[3])
             THEN Put(16 * hex_value(input[2]) + hex_value(input[3]), After(input, 3))
           ELSE Decoded("InvalidResponse", <<>>)
        /\ UNCHANGED <<asked, wire, request, remaining, pairs, served, answer>>

-----------------------------------------------------------------------------
(* The handler.                                                             *)

\* The next call of the builder: one that finds the list of headers full is an
\* error, and the handler's `?' returns it.
CallBuilder ==
    /\ at = "handle" /\ handler = "builder" /\ made < Len(script)
    /\ LET op == script[made + 1]
       IN  IF Len(builder.headers) + Len(op.headers) > MaxHeaders
             THEN at' = "serialise" /\ UNCHANGED <<made, builder>>
             ELSE made' = made + 1 /\ builder' = Applied(builder, op) /\ UNCHANGED at
    /\ UNCHANGED <<asked, wire, request, query, handler, script, response, answer>>

Returns(r) ==
    /\ at = "handle" /\ at' = "serialise"
    /\ response' = r
    /\ UNCHANGED <<asked, wire, request, query, handler, script, made, builder, answer>>

BuildResponse ==
    handler = "builder" /\ made = Len(script) /\ Returns(<<Built(builder)>>)

HandleSimply == handler = "simple" /\ Returns(<<SimpleHandler(request)>>)

HandlerFails == handler = "fails" /\ Returns(<<>>)

\* handle_http_connection_with_sizes, from the handler's result on.
Serialise ==
    LET reply == build_bytes(IF response = <<>> THEN text_error ELSE response[1])
    IN  /\ at = "serialise"
        /\ IF Size(reply) > ReplyLen
             THEN Dropped /\ UNCHANGED wire
             ELSE at' = "answer" /\ wire' = reply /\ UNCHANGED answer
        /\ UNCHANGED <<asked, request, query, served>>

-----------------------------------------------------------------------------
\* read_response, of which a length that is not taken for a number leaves all
\* up to the close, and parse_resp.
ParseResp ==
    /\ at = "answer"
    /\ \/ Bare(wire) /\ at' = "panicked" /\ UNCHANGED answer
       \/ LengthUnmet(wire) /\ Fails("InvalidResponse")
       \/ /\ ~Bare(wire) /\ at' = "done"
          /\ \E n \in BodyLengths(wire) :
                /\ LengthUnmet(wire) => n = Len(wire.body)
                /\ answer' = parse_resp(Cut(wire, n))
    /\ UNCHANGED <<asked, wire, request, query, served>>

Next ==
    \/ ParseEndpoint \/ Ask \/ ParseRequest
    \/ NextPair \/ DecodeByte
    \/ CallBuilder \/ BuildResponse \/ HandleSimply \/ HandlerFails
    \/ Serialise \/ ParseResp

Spec == Init /\ [][Next]_vars
-----------------------------------------------------------------------------
(* Properties.                                                              *)

\* Every variable keeps to its type, and no buffer or list of a fixed size is
\* overrun.
TypeOK ==
    /\ at \in {"endpoint", "ask", "parse", "query", "decode", "handle",
               "serialise", "answer", "done", "panicked"}
    /\ made \in 0 .. Len(script)
    /\ Len(out) <= DecodeLen /\ ToSet(out) \subseteq 0 .. 255
    /\ at = "decode" <=> texts # <<>>
    /\ Len(texts) + Len(decoded) = 2 * Len(pairs)
    /\ request # Nothing => Len(request.headers) <= MaxHeaders
    /\ Len(builder.headers) <= MaxHeaders
    /\ Len(response) <= 1

-----------------------------------------------------------------------------
(* What the caller wrote, to compare with what the handler reads.           *)

FirstValue(list, key) ==
    LET at1 == {i \in DOMAIN list : list[i].key = key}
    IN  IF at1 = {} THEN <<>> ELSE <<list[Min(at1)].value>>

LastValue(list, key) ==
    LET at1 == {i \in DOMAIN list : list[i].key = key}
    IN  IF at1 = {} THEN <<>> ELSE <<list[Max(at1)].value>>

Distinct(list) == {list[i].key : i \in DOMAIN list}
OwnLength(list) == "content-length" \in Distinct(list)

\* The value of a header of the request: the client's own Host comes first,
\* its Content-Length only when the caller has none, its Connection last.
Sent(key) ==
    IF key = "host" THEN <<ToString(call.url.host)>>
    ELSE IF FirstValue(call.headers, key) # <<>> THEN FirstValue(call.headers, key)
    ELSE IF key = "connection" THEN <<"close">>
    ELSE IF key = "content-length" /\ call.body # <<>> THEN <<ToString(Len(call.body[1]))>>
    ELSE <<>>

\* As much of the whole as is stated, or more.
CutAs(bytes, whole, stated) ==
    /\ bytes \in {SubSeq(whole, 1, n) : n \in 0 .. Len(whole)}
    /\ \A k \in 0 .. Len(whole) : stated = <<ToString(k)>> => k <= Len(bytes)

StatesMore(whole, stated) ==
    stated # <<>> /\ \A k \in 0 .. Len(whole) : stated # <<ToString(k)>>

BodyGiven == UnwrapOr(call.body, <<>>)

HeadersSent ==
    2 + Len(call.headers)
      + (IF call.body # <<>> /\ ~OwnLength(call.headers) THEN 1 ELSE 0)

\* What the caller put together the handler gets apart: the host for the
\* resolver, the port, the method, the target, the value of each header and the
\* body, no less of it than the length in the head, which is the caller's own
\* or true (parse_endpoint, build_req, read_request, parse_from, header).  The
\* only requests that the server refuses have more headers than it can hold,
\* the two that the client adds and the length counted with the caller's, or
\* the caller's own length is not that of a part of the body.
RequestArrives ==
    /\ endpoint # Nothing /\ WellFormedPath(call.url) =>
          endpoint.host = call.url.host /\ endpoint.port = call.url.port
    /\ request # Nothing =>
          /\ HeadersSent <= MaxHeaders
          /\ request.method = call.method
          /\ CutAs(request.body, BodyGiven, Sent("content-length"))
          /\ WellFormedPath(call.url) =>
                /\ request.path = IF call.url.path = <<>> THEN <<Slash>> ELSE call.url.path
                /\ \A key \in Names : HeaderValue(request.headers, key) = Sent(key)
    /\ at = "done" /\ request = Nothing =>
          \/ call.url.scheme = "other" \/ HeadersSent > MaxHeaders
          \/ StatesMore(BodyGiven, Sent("content-length"))

-----------------------------------------------------------------------------
(* The query, read from its positions.                                      *)

Query == query_string(request.path)

\* Where the segments between ampersands begin, the empty ones left out.
Starts ==
    {i \in DOMAIN Query : Query[i] # Amp /\ (i = 1 \/ Query[i - 1] = Amp)}

\* The i-th bytes to the next ampersand are the pair.
Spells(pair, i) ==
    LET ends == {j \in DOMAIN Query : j >= i /\ Amp \notin ToSet(SubSeq(Query, i, j))}
        segment == SubSeq(Query, i, Max(ends))
    IN  /\ Eq \notin ToSet(pair.name)
        /\ \/ segment = pair.name /\ pair.value = <<>>
           \/ segment = pair.name \o <<Eq>> \o pair.value

\* A text as form encoding reads it: every "%" up to n is that of an escape,
\* digits of either case behind it.
Digits(d) == IF d < 10 THEN {48 + d} ELSE {87 + d, 55 + d}
Hex == UNION {Digits(d) : d \in 0 .. 15}
DigitValue(byte) == CHOOSE d \in 0 .. 15 : byte \in Digits(d)

WellEscaped(coded, n) ==
    \A i \in 1 .. n : coded[i] = Pct =>
        i + 2 <= n /\ coded[i + 1] \in Hex /\ coded[i + 2] \in Hex

\* Where a byte of its meaning begins: anywhere but on an escape's digits.
Heads(coded, n) ==
    {i \in 1 .. n : (i > 1 => coded[i - 1] # Pct) /\ (i > 2 => coded[i - 2] # Pct)}

ByteAt(coded, i) ==
    IF coded[i] = Pct THEN 16 * DigitValue(coded[i + 1]) + DigitValue(coded[i + 2])
    ELSE IF coded[i] = Plus THEN Space
    ELSE coded[i]

\* The meaning of a well escaped text, a byte for each head in order.
Meaning(coded) ==
    LET heads == Heads(coded, Len(coded))
    IN  [k \in 1 .. Cardinality(heads) |->
            ByteAt(coded, CHOOSE i \in heads : Cardinality(Heads(coded, i)) = k)]

\* The name "name[0]", however the zero is spelled.
NamesFirst(queryName, name) ==
    \E sign \in {<<>>, <<Plus>>}, n \in DOMAIN queryName :
        queryName = name \o <<Open>> \o sign \o [i \in 1 .. n |-> 48] \o <<Close>>

DecodedWell(coded, result) ==
    \/ /\ result.error = "none" /\ WellEscaped(coded, Len(coded))
       /\ result.bytes = Meaning(coded)
       /\ Utf8(result.bytes) /\ Len(result.bytes) <= DecodeLen
    \/ /\ result.error = "BufferOverflow"
       /\ \E n \in 1 .. Len(coded) :
             WellEscaped(coded, n) /\ Cardinality(Heads(coded, n)) > DecodeLen
    \/ /\ result.error = "InvalidResponse"
       /\ ~(WellEscaped(coded, Len(coded)) /\ Utf8(Meaning(coded)))

\* The handler sees every pair of the query, the empty segments left out, in
\* order, and every name and value decoded as form encoding has it, or an error
\* that says why there is none (QueryPairs::next, percent_decode); the lookups
\* find the first and the last of a name, and the first of an index
\* (query_first, query_last, query_indexed).
QueryArrives ==
    at = "serialise" /\ handler = "builder" =>
        /\ Len(pairs) = Cardinality(Starts)
        /\ \A i \in Starts :
              Spells(pairs[Cardinality({j \in Starts : j <= i})], i)
        /\ \A k \in DOMAIN pairs :
              /\ DecodedWell(pairs[k].name, decoded[2 * k - 1])
              /\ DecodedWell(pairs[k].value, decoded[2 * k])
              /\ LET same == {j \in DOMAIN pairs : pairs[j].name = pairs[k].name}
                 IN  /\ query_first(pairs, pairs[k].name) = <<pairs[Min(same)]>>
                     /\ query_last(pairs, pairs[k].name) = <<pairs[Max(same)]>>
        /\ \A name \in QueryNames :
              LET first == {j \in DOMAIN pairs : NamesFirst(pairs[j].name, name)}
              IN  query_indexed(pairs, name, 0) =
                      IF first = {} THEN <<>> ELSE <<pairs[Min(first)]>>

-----------------------------------------------------------------------------
(* What the handler said, to compare with what the caller gets.             *)

\* The headers that the first n calls add.
AddedBy(n) ==
    LET added[i \in 0 .. n] ==
            IF i = 0 THEN <<>> ELSE added[i - 1] \o script[i].headers
    IN  added[n]
Added == AddedBy(Len(script))

\* The status and the body that the last of the first n calls to set one sets.
StatusBy(n) ==
    LET sets == {i \in 1 .. n : script[i].status # <<>>}
    IN  IF sets = {} THEN Known(200) ELSE script[Max(sets)].status[1]
BodyBy(n) ==
    LET sets == {i \in 1 .. n : script[i].body # <<>>}
    IN  IF sets = {} THEN Empty ELSE script[Max(sets)].body[1]

Said ==
    LET bytes == BodyBy(Len(script)).bytes
    IN  [code |-> StatusBy(Len(script)).code, bytes |-> bytes,
         names |-> Cardinality(Distinct(Added)),
         lengthAdded |-> bytes # <<>> /\ ~OwnLength(Added)]

SizeSaid ==
    2 + Said.names + (IF Said.lengthAdded THEN 1 ELSE 0) + Len(Said.bytes)

IsReply == at = "done" /\ "status" \in DOMAIN answer

\* The length in the head.
LengthSaid ==
    IF OwnLength(Added) THEN LastValue(Added, "content-length")
    ELSE IF Said.lengthAdded THEN <<ToString(Len(Said.bytes))>>
    ELSE <<>>

\* The type set last decides, and the bytes.
IsText(bytes) ==
    /\ bytes # <<>> /\ Utf8(bytes)
    /\ LastValue(Added, "content-type") \in {<<>>} \cup {<<type>> : type \in TextTypes}

\* The last value set of a header, or the length that build_bytes adds and
\* parse_resp leaves out when the list is full.
ValueSaid(key) ==
    IF key \in Distinct(Added) THEN LastValue(Added, key)
    ELSE IF key = "content-length" /\ Said.lengthAdded /\ Said.names < MaxHeaders
      THEN <<ToString(Len(Said.bytes))>>
    ELSE <<>>

\* The caller gets what the handler built: the number of the status and its
\* class, of each header the value set last, and the body, no less of it than
\* the length in the head, the handler's own or the true one, and as text when
\* that much of it is text.  A builder that is given more headers than it
\* holds, duplicates counted, makes a 500 of it, as an error of the handler
\* does; a response that does not fit is not sent, and one whose own length is
\* not that of a part of the body may be an error; one without headers and body
\* makes parse_resp panic (HttpResponseBuilder, build_bytes, read_response,
\* parse_resp).
AnswerArrives ==
    /\ handler = "fails" /\ IsReply => is_server_error(answer.status)
    /\ handler = "builder" /\ Len(Added) > MaxHeaders /\ IsReply =>
          is_server_error(answer.status) /\ answer.body.kind = "Text"
    /\ handler = "builder" /\ request # Nothing /\ Len(Added) <= MaxHeaders =>
          /\ IsReply => SizeSaid <= ReplyLen
          /\ at = "done" /\ SizeSaid <= ReplyLen =>
                IsReply \/ StatesMore(Said.bytes, LengthSaid)
          /\ at = "panicked" => Said.names = 0 /\ Said.bytes = <<>>
          /\ IsReply =>
                /\ answer.status.code = Said.code
                /\ is_success(answer.status) <=> Said.code \div 100 = 2
                /\ is_client_error(answer.status) <=> Said.code \div 100 = 4
                /\ is_server_error(answer.status) <=> Said.code \div 100 = 5
                /\ CutAs(answer.body.bytes, Said.bytes, LengthSaid)
                /\ answer.body.kind = "Text" <=> IsText(answer.body.bytes)
                /\ \A key \in Names : HeaderValue(answer.headers, key) = ValueSaid(key)
=============================================================================
