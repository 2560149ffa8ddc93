---------------------------- MODULE HttpMessage ----------------------------
(***************************************************************************)
(* Requests and responses as lists of headers and a body: what build_req   *)
(* and build_bytes write, what parse_from and parse_resp make of it, and   *)
(* what HttpResponseBuilder does to a response.                            *)
(*                                                                         *)
(* A header is [key, value]: its name, up to the case of its letters, and  *)
(* its value, neither with blanks around it nor with a colon in the name,  *)
(* so that trim and find(':') give them back.  A body is a sequence of     *)
(* bytes; an Option is a sequence of one element or of none.               *)
(***************************************************************************)
EXTENDS UrlText, TLC

CONSTANTS
    MaxHeaders,  \* MAX_HEADERS
    ReplyLen     \* MAX_RESPONSE_SIZE, in units of Size

ASSUME MessageAssumption == MaxHeaders \in Nat \ {0} /\ ReplyLen \in Nat

\* Option::unwrap_or.
UnwrapOr(option, default) == IF option = <<>> THEN default ELSE option[1]

Header(key, value) == [key |-> key, value |-> value]
ContentType(value) == Header("content-type", value)

\* Values are strings: ToString writes a number or a text as one.
ContentLength(n) == Header("content-length", ToString(n))

\* header and get_header: the first one of the name, in whatever case.
HeaderValue(headers, key) ==
    LET found == FirstSuch(headers, LAMBDA h : h.key = key)
    IN  IF found = <<>> THEN <<>> ELSE <<found[1].value>>

Has(headers, key) == HeaderValue(headers, key) # <<>>

-----------------------------------------------------------------------------
(* Methods and status codes.                                                *)

\* The names of the variants are what as_str writes and try_from reads.
BodyMethods == {"POST", "PUT", "PATCH"}
HttpMethods ==
    BodyMethods \cup {"GET", "DELETE", "CONNECT", "OPTIONS", "TRACE", "HEAD"}

KnownCodes == {100, 101} \cup 200 .. 206 \cup (300 .. 307 \ {306})
                \cup 400 .. 417 \cup 500 .. 505

\* A StatusCode: a variant of the enumeration, or Other of any number.
Known(code) == [known |-> TRUE, code |-> code]
Other(code) == [known |-> FALSE, code |-> code]

\* From<u16>, and TryFrom<&str> of what as_u16 and the decimals write.
StatusFrom(code) == IF code \in KnownCodes THEN Known(code) ELSE Other(code)

is_success(status) == status.code \in 200 .. 299
is_client_error(status) == status.code \in 400 .. 499
is_server_error(status) == status.code \in 500 .. 599

-----------------------------------------------------------------------------
(* The request.                                                             *)

\* get, head, options, trace, connect and delete have no body, post, put and
\* patch always have one; request takes what it is given.
Convenience(method, url, headers, bytes) ==
    [method |-> method, url |-> url, headers |-> headers,
     body |-> IF method \in BodyMethods THEN <<bytes>> ELSE <<>>]

\* The head and the body that request_with_retry_delay writes after it.
build_req(call, endpoint) ==
    [method |-> call.method, path |-> endpoint.path,
     headers |->
        <<Header("host", ToString(endpoint.host))>> \o call.headers
        \o (IF call.body # <<>> /\ ~Has(call.headers, "content-length")
              THEN <<ContentLength(Len(call.body[1]))>> ELSE <<>>)
        \o <<Header("connection", "close")>>,
     body |-> UnwrapOr(call.body, <<>>)]

\* The request line is cut at blanks: a target ends at the first, and what
\* follows is taken for the version, which nobody looks at.
FirstWord(path) == SplitOnce(path, Space)[1]

TooManyHeaders(wire) == Len(wire.headers) > MaxHeaders

\* read_request and read_response go by the first Content-Length, whoever has
\* written it.
States(wire, k) == HeaderValue(wire.headers, "content-length") = <<ToString(k)>>

\* How much of the body may have been read when the other side takes the
\* message for complete: as much as is stated, and whatever came along.
BodyLengths(wire) ==
    {n \in 0 .. Len(wire.body) : \A k \in 0 .. Len(wire.body) : States(wire, k) => k <= n}

\* What is stated is the decimals of no length up to that of the body: it is
\* larger, and the message never complete, or it is not taken for a number.
LengthUnmet(wire) ==
    /\ Has(wire.headers, "content-length")
    /\ \A k \in 0 .. Len(wire.body) : ~States(wire, k)

Cut(wire, n) == [wire EXCEPT !.body = SubSeq(wire.body, 1, n)]

parse_from(wire) ==
    [method |-> wire.method, path |-> FirstWord(wire.path),
     headers |-> wire.headers, body |-> wire.body]

-----------------------------------------------------------------------------
(* The response.                                                            *)

Body(kind, bytes) == [kind |-> kind, bytes |-> bytes]
Empty == Body("Empty", <<>>)

\* Mutant of LastOfEachName: the first of a name is kept.
FirstOfEachName(headers) ==
    LET kept[i \in 0 .. Len(headers)] ==
            IF i = 0 THEN <<>>
            ELSE LET acc == kept[i - 1]
                     h == headers[i]
                 IN  IF Has(acc, h.key) THEN acc ELSE Append(acc, h)
    IN  kept[Len(headers)]

\* What the loop over the reversed list keeps, turned around.
LastOfEachName(headers) ==
    LET kept[i \in 0 .. Len(headers)] ==
            IF i = 0 THEN <<>>
            ELSE LET acc == kept[i - 1]
                     h == headers[Len(headers) + 1 - i]
                 IN  IF Has(acc, h.key) THEN acc ELSE <<h>> \o acc
    IN  kept[Len(headers)]

\* The builder's calls: [headers, status, body], what each adds and sets.
Adds(list) == [headers |-> list, status |-> <<>>, body |-> <<>>]
Sets(body) == [headers |-> <<>>, status |-> <<>>, body |-> <<body>>]
header(key, value) == Adds(<<Header(key, value)>>)
content_type(value) == Adds(<<ContentType(value)>>)
text(bytes) == Sets(Body("Text", bytes))
binary(bytes) == Sets(Body("Binary", bytes))
empty_body == Sets(Empty)
status(s) == [headers |-> <<>>, status |-> <<s>>, body |-> <<>>]
json(bytes) == [text(bytes) EXCEPT !.headers = <<ContentType("application/json")>>]
problem_json(bytes) ==
    [text(bytes) EXCEPT !.headers = <<ContentType("application/problem+json")>>]

NewBuilder == [status |-> Known(200), headers |-> <<>>, body |-> <<>>]

Applied(builder, op) ==
    [status |-> UnwrapOr(op.status, builder.status),
     headers |-> builder.headers \o op.headers,
     body |-> IF op.body = <<>> THEN builder.body ELSE op.body]

Built(builder) ==
    [status |-> builder.status, headers |-> LastOfEachName(builder.headers),
     body |-> UnwrapOr(builder.body, Empty)]

\* SimpleHandler, which builds its responses without the builder and goes by
\* the whole target.
Page(code, type, bytes) ==
    [status |-> Known(code), headers |-> <<ContentType(type)>>,
     body |-> Body("Text", bytes)]
Health == <<Slash, 104>>
SimpleHandler(request) ==
    IF request.path = <<Slash>> THEN Page(200, "text/html", <<60, 104, 49, 62>>)
    ELSE IF request.path = Health THEN Page(200, "application/json", <<123, 125>>)
    ELSE Page(404, "text/plain", <<52, 48, 52>>)

text_error == Page(500, "text/plain", <<53, 48, 48>>)

\* The lines of the head, and the body.
Size(reply) == 2 + Len(reply.headers) + Len(reply.body)

\* The headers of the head, with the length of a body unless it is given.
write_head_bytes(response) ==
    response.headers
    \o (IF response.body.bytes # <<>> /\ ~Has(response.headers, "content-length")
          THEN <<ContentLength(Len(response.body.bytes))>> ELSE <<>>)

\* What does not fit is BufferOverflow.
build_bytes(response) ==
    [code |-> response.status.code, headers |-> write_head_bytes(response),
     body |-> response.body.bytes]

TextTypes ==
    {"text/plain", "text/html", "text/event-stream", "application/json",
     "application/xml", "application/x-www-form-urlencoded"}

\* parse_body, with is_text and text_or_bin.
parse_body(headers, bytes) ==
    LET type == HeaderValue(headers, "content-type")
    IN  IF bytes = <<>> THEN Empty
        ELSE IF (type = <<>> \/ type[1] \in TextTypes) /\ Utf8(bytes)
          THEN Body("Text", bytes)
        ELSE Body("Binary", bytes)

\* The slice of the header lines then starts behind its end: a panic.
Bare(reply) == reply.headers = <<>>

\* parse_resp reads up to MaxHeaders headers and leaves the rest.
parse_resp(reply) ==
    LET headers == SubSeq(reply.headers, 1, IF Len(reply.headers) < MaxHeaders
                                              THEN Len(reply.headers) ELSE MaxHeaders)
    IN  [status |-> StatusFrom(reply.code), headers |-> headers,
         body |-> parse_body(headers, reply.body)]
=============================================================================
