# nanofish: a TLA+ verification project

nanofish is an HTTP/1.1 client and server for embedded systems without an
allocator: every buffer has a fixed size, every wait is an `await`, and a
connection carries one exchange. This project models its protocol logic in
TLA+, checks it with TLC on small instances, and proves its main results with
TLAPS for every value of the constants. Source paths are relative to the
repository's root; the crate is in `src/`.

## 1. The system

| Part | Source | State | Operations | Talks to |
|---|---|---|---|---|
| codec | `src/codec.rs`, `src/protocol.rs` | none; it edits the caller's buffer in `dechunk` | `build_req`, `complete`, `declares_length`, `dechunk`, `parse_resp` | called by the client exchange |
| client exchange | `src/client/io.rs` | request buffer, response buffer, `total_read`, `retries`, the await it is at | `HttpClient::request`, `request_with_retry_delay`, `read_response` | a byte stream (`embedded_io_async`), the caller's `retry_delay` |
| Embassy client | `src/client/embassy.rs` | one socket and one TLS session for a call | `request`, `get`, `post`, ..., `resolve_host`, `make_http_request`, `make_https_request` | resolver, socket and timers of `embassy_net`/`embassy_time`, the client exchange |
| TLS client | `src/client/tls.rs` | the session of a call | `HttpTlsClient::request`, `request_with_retry_delay` | `embedded_tls`, the caller's stream, the client exchange |
| server connection | `src/server/io.rs` | request buffer, `total_read`, the response, the await it is at | `handle_http_connection`, `read_request`, `text_error` | a byte stream, the application's handler |
| Embassy server | `src/server/embassy.rs` | the one socket, two timers | `serve`, `TimeoutHandler::handle_request` | socket of `embassy_net`, the server connection |
| smoltcp adapter | `src/smoltcp.rs` | none of its own; wakers it leaves with the socket | `read`, `write`, `flush` | the smoltcp socket, the executor, the interface poll |
| URL parsing | `src/client/io.rs` | none | `parse_endpoint` | called by the clients |
| requests, responses | `src/request.rs`, `src/response.rs`, `src/status_code.rs`, `src/method.rs`, `src/header.rs` | lists of at most 16 headers; the rest of a query, the caller's buffer being decoded into, a builder under construction | `parse_from`, `query_pairs` and the lookups, `percent_decode`, `HttpResponseBuilder`, `build_bytes` | called by the server connection and by the application's handler |
| handlers | `src/handler.rs` | the application's | `handle_request`, `SimpleHandler` | called by the server connection |
| options, errors | `src/options.rs`, `src/error.rs` | values | | |
| logging, crate root | `src/fmt.rs`, `src/lib.rs` | none | | not modelled |

What is hard here, and what makes each part correct:

* **Where a message ends.** Nobody tells the reader; it decides after each read,
  from the bytes so far, which the transport cuts as it likes. Correct: the
  peer's bytes decide what the caller gets and the cuts do not (but for how many
  bytes that follow a message with a `Content-Length` are behind its body), a
  success is never a truncated body, and nobody awaits a read when the message is
  complete (the peer is itself waiting).
* **Fixed buffers.** A message that fills a buffer exactly, or exceeds it by a
  byte, or declares a length next to `usize::MAX`. Correct: each has the error
  the docs name, and nothing of a message refused before sending has gone out.
* **Decoding in place.** `dechunk` moves data over size lines in the buffer it
  is still reading. Correct: it destroys nothing it has to read.
* **Retries and time.** One retry budget for a response; a socket timer and a
  handler timer that do not know of each other. Correct: the budget is spent
  exactly, a handler that is given up is answered for once, a silent peer does
  not keep the server from listening.
* **Wake-ups.** A future that returns `Pending` must have left the right waker,
  whatever the interface poll does in between.
* **Early returns and closes.** A client call has a dozen exits between the
  creation of its socket and its close. Correct: an error tells whether the
  request may have been sent, the close hides no result, and a connection on
  which something was sent is ended before it is dropped.
* **Both ends at once.** Client and server write with `write_all` into bounded
  buffers, and the server drops its socket right after `close`. Correct:
  neither waits for the other for ever, and whether the call succeeds is
  decided by its sizes, as long as nothing fails.
* **The contents.** What a caller puts together (URL, headers, body) the handler
  takes apart, and the other way round, by code that cuts texts by hand and keeps
  them in lists of a fixed size, and by lengths that the caller or the handler may
  have written. Correct: each part arrives as it was given, the body no shorter
  than its stated length, or there is an error.

`PROJECT.json` lists these hazards one by one, at their lines.

## 2. The modules

    HttpWire  (messages as offsets; what the codec answers about a prefix)
      +-- ChunkDecoder         dechunk's loop; computes what HttpWire says of it
      +-- ServerConnection     implements ServiceContract
      |     +-- EmbassyServer      INSTANCE ServerConnection + loop, timers
      |     +-- HttpExchange       ... and ResponseReader, over two pipes;
      |     |                      implements CallContract
      +-- ResponseReader       implements ResponseContract
            +-- EmbassyClient      INSTANCE ResponseReader + resolver, socket, TLS
    SmolTcpStream  (stands alone: the stream the two sides may run over)
    UrlText  <---- HttpMessage <---- MessageTrip   (texts, messages, the trip of one exchange)
    XorShift32     (the seeds of the TLS handshake)

**HttpWire** is the abstraction everything rests on. The code never asks what a
byte is except to find positions, so a message is the record of its offsets:
the end of the header block, the framing, the layout of its chunks, the places
where the five bytes `0 CRLF CRLF` end (`marks`), its full length, how much of
it the peer sends, and whether the peer closes then. A body is the set of
stream offsets in it, so truncation, duplication and foreign bytes all show.
`Complete`, `DeclaresLength`, `DechunkFails` and `Delivered` translate
`complete`, `declares_length` and the result of `dechunk`. Two header fields at
once (`Transfer-Encoding` and `Content-Length`) are a chunked message, as in
`complete`; `bare` marks a header block that is a start line and nothing else.

**ResponseReader**: `phase` is the await that `request_with_retry_delay` is at,
`total` is `total_read`, `retries` is `retries`, `delays` a history of the
delays taken. `AfterLoop` is the sequence of checks after the read loop,
`Decode` is `dechunk` followed by `parse_resp`. Each action is one await with
everything up to the next. The request is two lengths and two flags, enough for
`build_req` to fit or not.

**ResponseContract** is the abstraction of it. `asked` is how much of the request
has gone out: nothing, a part, or all (`Asked` maps `written` to it). A refusal
is possible only at "nothing", a verdict only at "all", an abort by the transport
at any time. `Verdicts` is a function of the wire, the buffer's length and the
retry budget: one verdict, except that a message with a `Content-Length` may come
back with some of the bytes that follow it, as many as the reads happened to bring.

**ChunkDecoder**: `buffer` maps a position to the stream offset whose byte it
holds, so that `copy_within` is visible; one action per exit of the loop's
body. It starts from every prefix that `complete` may have accepted.

**ServerConnection** and **ServiceContract** are the same pair for the server.
`BodyEnd` is the saturating sum, `Serialise` is `build_bytes`. A chunked request
is handled with its headers: `Awaited` (HttpWire) is what the server has to read
of a request, and the contract is stated with it.

**EmbassyServer** adds `task` (the await of `serve`), the socket, and the two
timers as counts of ticks. The steps of the connection are those of
ServerConnection, instantiated. `HandlerTimesOut` is `with_timeout` dropping the
handler's future; that a dropped future runs no further is Rust's doing, and no
property.

**EmbassyClient** has the way to the exchange (`parse_endpoint`,
`resolve_host`, connect, `tls.open`), the exchange of ResponseReader
instantiated over a socket whose errors are final, and the way out (close,
close delay). `socket` goes from "open", or "dead" after a reset or a timeout, to
"closing" by `socket.close()` and to "gone" when it is dropped: over http at the
return of the call, after the delay; over https with the result of `tls.close()`,
before it (`src/client/embassy.rs:284-291`). Over https the reads and writes are
those of a TLS session, which may fail on a live socket too (`TlsFails`).
`kind = "stream"` is `HttpTlsClient`, whose stream is the caller's and may fail
and recover. All of `get`, `post`, ... are calls of
`request`.

**HttpExchange** runs ResponseReader and ServerConnection against each other:
what the client reads is the reply as far as the server has written it
(`Replied`), what the server reads is the request as far as the client has
(`Asked`), and each direction holds `PipeCap` bytes. `write_all` is a step per
write that the pipe takes. Both sides leave when their future has returned, the
client with a FIN or a reset, the server with a FIN or without one, for `serve`
drops the socket right after `close`. `weather` chooses between a connection on
which anything may fail and one on which only the other side's leaving ends
anything; `Refused` and `Starved` are what the network makes of that.
**CallContract** is the abstraction: the handler runs at most once, on the whole
request, and an answer is the reply of that run.

**UrlText** has `parse_endpoint`, the query accessors and `percent_decode`'s
digits over sequences of bytes, with what they use of `core::str` (external:
`Find`, `SplitOnce`, `ParseNumber`, `Utf8` over sequences of one or two bytes).
**HttpMessage** has requests and responses as lists of headers and a body:
`build_req`, `parse_from`, the builder's calls, `build`, `build_bytes`,
`parse_resp`, `parse_body`, the status codes. Names are compared as the code does,
whatever their case, so a name is a member of a set; sizes are counted in lines
and bytes. The loops that are no steps of their own (`build`, `query_all`, the digits
of a number) are recursive functions over their turns. **MessageTrip** is the state machine over both: an exchange goes
through `ParseEndpoint`, `Ask`, `ParseRequest`, the pairs of the query one by one
(`NextPair`), each of their names and values byte by byte through
`percent_decode` (`DecodeByte`), the calls of the builder one by one, `Serialise`
and `ParseResp`. Transport is left to HttpExchange, framing is not: both sides cut the body by the
`Content-Length` of the head, which may be the caller's or the handler's own.
`States` says what it states, `BodyLengths` how much of the body may then be taken
for the whole (that much, and what came along), and `LengthUnmet` that no part of
the body has that length: it is larger and never met, or no number.
`ExchangesAssumption` says what
may be exchanged: any URL, method, headers, body and calls of the builder of their
types, a `Transfer-Encoding` set by a handler excepted: the library writes no
chunks, so that such a header is always untrue, and what the client makes of a body
that it takes for chunks is ChunkDecoder's. A URL comes with the host, port and path that it is to mean (`Spelt`: the
port is written, or it is the scheme's and nothing behind the last colon of the
host reads as one); one whose path has a blank or does not begin with a slash need
not mean anything, and nothing is claimed of its parts. What an encoded text means
is stated without the loop of `percent_decode`: a byte for each position that is not
a digit of an escape (`Heads`, `Meaning`).

**XorShift32** is `tls_seed` and `next_u32` over words as sets of bit places.
`MCEmbassyClient` has TLC compare it with known draws.

**SmolTcpStream** has the three futures split by what a poll finds (`PollRead*`,
`PollWrite*`, `PollFlush*`), the two waker slots, `woken` for the executor, and
the socket as far as the adapter looks at it.

`MC*` modules give the small instances; `*_proof` modules hold the theorems.

### External parts

Modelled from how `src/` uses them, and marked external in the map: the smoltcp
socket (waking takes the waker out of its slot; FIN and reset wake both
directions; an abort leaves what had arrived readable), `TcpSocket` of
`embassy_net` (hands over what had arrived before a reset, and then fails every
read; its timeout aborts after a period without traffic, as the comments at
`src/server/embassy.rs:24-26` and `119-120` have it; what `close` leaves to be sent
is sent while the socket exists), the TLS session (its handshake and its close may
fail, and any read, write or flush, on a bad record or an alert).

## 3. The runs

| Run | Checks | Instance |
|---|---|---|
| `client_exchange` | `TypeOK`, `WholeBody`, `NoReadPastComplete`, `RetryAccounting`, `Contract`, `Returns` | header block of 6 bytes, buffer of 17, two retries; about 450 wires: lengths 0, 2, exactly full and one more, answers to HEAD, close-delimited up to one byte more than the buffer, 1-3 chunks with and without the final marker, a spoilt size line, every cut short and up to two bytes that follow; four requests, two sent and two refused |
| `client_fitting` | `FittingAnswered` (violated) | whole responses, as `client_exchange`: answers to HEAD, close-delimited ones that fill the buffer, a status line without a header, trailers |
| `client_marker` | `NeverTruncates` (violated) | header or data that contain `0 CRLF CRLF`, buffer of 24 |
| `dechunk` | `TypeOK`, `UnreadIntact`, `DecodesBody`, `FailsWithCause`, `Terminates` | every list of up to two chunks of 1-3 bytes and a last one, well formed or spoilt, every prefix; sizes up to `usize::MAX = 31` |
| `server_connection` | `TypeOK`, `WholeRequestHandled`, `NoReadPastRequest`, `Contract`, `Returns` | buffer of 12, bodies that fit, just fit, do not fit, and a length of `usize::MAX = 31`, up to two bytes behind the request, a chunked request cut anywhere; replies that fit, just fit and do not |
| `dechunk_overflow` | `NeverPanics` (violated) | as `dechunk` |
| `embassy_server` | `TypeOK`, `HandlerMayUseItsTime`, `ConnectionContract`, `KeepsListening` | buffer of 3, read timeout of 3 ticks, handler timeout of 2, connections without end |
| `embassy_timeouts` | `HandlerMayUseItsTime` (violated) | read timeout 1, handler timeout 2: the proportion of the defaults |
| `smoltcp_stream` | `TypeOK`, `NoLostWakeup`, `EndIsTheEnd`, `WritesSomething`, `FlushedIsAcked`, `ReturnsWhenItCan` | buffers of 2, slices of 0-2, three bytes each way (`PeerBytes`, `AppBytes`) |
| `embassy_client` | `TypeOK`, `SafeToRepeat`, `OrderlyEnd`, `CallReturns` | header block of 2 bytes, buffer of 4, two retries; hosts with IPv4, IPv6, both or none; http, https and a given stream |
| `http_exchange` | `TypeOK`, `CalmDelivers`, `Contract`, `BothReturn` | header blocks of 2 bytes, buffers of 5 (client) and 4 (server), pipes of 2, two retries; seven requests: without a body, with an empty one, fitting, too long for the server, refused by its parser, too long for the client; replies that are empty, fit both buffers, only the server's, or neither |
| `message_trip` | `TypeOK`, `RequestArrives`, `QueryArrives`, `AnswerArrives` | lists of 3 headers, 8 lines and bytes of a response, a decoding buffer of 2; 252 URLs (hosts, IPv6, ports at the edge of `u16`, paths and queries), every method with up to two headers of the caller's, requests whose own `Content-Length` is "1" or no number on bodies of 0-2 bytes, all queries of up to five of the bytes `&` `=` `a` `%` `4` and a dozen longer ones, every script of up to three of 13 builder calls, a `Content-Length` of "1" on bodies of 0, 1 and 4 bytes among them |

The bounds are enough because the code compares positions: what matters is the
order of `head`, `full`, `sent`, the ends of chunks and the buffer's length, and
the instances have each order, equality included. Two retries have a first, a
last and a delay between (budgets of 0 and 1 and the empty buffer, where the
loop of `read_response` is not entered or left at once, are in no run: the theorems
`ExchangeKeepsPromise` and `RetriesAccounted` are for those too); three bytes through a buffer of two make it full,
wrap and empty. Only `PeerBytes` and `AppBytes` bound something the code does
not; every other quantity is bounded by the buffers. Deadlock is checked in
every run of which the last state is not the end of everything: there a finished
exchange stutters in an action of its own (`Returned`, `Served`). Two runs are
without it: in `http_exchange` there is no step when both sides have left, and
that they get there is `BothReturn`, under the fairness below; in `message_trip`
none when the caller has its answer.

In `http_exchange` a pipe of 2 is narrower than every message with a body, so
that every `write_all` has to wait for its reader, and each buffer is exceeded by
one message and just filled by another. In `message_trip` each of the four
families of exchanges varies one part with the others fixed, which is sound
because the code of one part never looks at another, the two lists of headers
excepted, which are varied with the body they interact with. The body of four bytes
ends in a character of two, so that a length of 1 makes a shorter text of it and
other cuts make none.

`client_exchange` leaves out marks before the end and bare header blocks, which are
in `client_marker` and `client_fitting`.

### What the violated runs show

1. `client_marker` (`src/codec.rs:140`): `complete` looks for the terminator in
   all bytes received. A last header `Age: 0`, or chunk data that end in
   `0 CRLF`, end the response when they arrive, and the truncated body is
   returned as a success. Whether that happens depends on the cuts.
2. `client_fitting`: the docs of `request` (`src/client/io.rs:119-121`) name the errors
   of a request that went out: the stream, no response, one that is incomplete or
   larger than the buffer, one that cannot be parsed. A whole, well-formed response
   that fits is refused all the same:
   * `src/client/io.rs:321`: a full buffer is an overflow, the peer's close being
     asked for only by a read that is not made. A close-delimited response as long as
     the buffer is refused. This is the trace that TLC reports.
   * `src/client/io.rs:313`: the answer to HEAD is waited for, and then refused, for the
     body its `Content-Length` speaks of (`Wires <- HeadWires`).
   * `src/codec.rs:45`: a response of a status line and the empty line, which
     `build_bytes` itself makes of an empty body without headers, makes `parse_resp`
     slice from behind the end, and panic (`Wires <- BareWires`).
   A chunked response with trailers never shows the terminator and ends as incomplete.
3. `dechunk_overflow` (`src/codec.rs:203`): the end of a chunk is an unchecked sum.
   A size next to `usize::MAX` panics in a debug build, and in a release build when
   the wrapped end lies within what was read. The docs promise an error, and
   `FailsWithCause` (run `dechunk`) says that this is the one way to panic.
4. `embassy_timeouts` (`src/server/embassy.rs:121`): the socket's timer runs on
   while the handler runs. With the defaults (30 s and 60 s) the connection is
   aborted in the middle of a handler's time when the peer waits in silence, and
   the 408 of the handler's own limit has no connection left to go out on.

### Behaviour worth knowing

The properties of the passing runs state what the code does. Some of it a user may
not expect, and in the places quoted here a doc has it otherwise:

* A chunked request is complete with its headers (`src/server/io.rs:168`, as its
  doc says): the handler gets the chunks that came along, undecoded. Bytes behind
  a request that came in the same read are a part of the body the handler gets
  (`src/server/io.rs:164`), where the doc of `read_request` (line 126) speaks of one
  complete request.
* A handler's error is answered with a 500 and `Ok(())`; the docs
  (`src/server/io.rs:73-74`, `90-91`) count it among the errors returned.
* The retries of the http path are in vain: a read of its socket fails when it is
  dead and has handed over everything, so that each `retry_delay` is slept on a
  socket that can only fail again. The doc of `read_response`
  (`src/client/io.rs:253`) speaks of transient errors. (Over https a bad record or an
  alert is an error of a live socket.)
* Over https the socket is dropped, without `socket.close()`, before the delay
  "after closing a socket" (`src/options.rs:43`, `src/client/embassy.rs:284-291`):
  whether what `tls.close()` wrote and the FIN get out is left to the stack.
* Nothing cuts a body at its `Content-Length`: a caller of the client gets the bytes
  that follow the response too, as many as came in the last read. A length of the
  caller's or the handler's own that is too small may therefore cost a part of the
  body, or none, and one that is too large costs the exchange.
* What stands behind the last colon of the authority is a port only when it is a
  number up to 65535: `http://h:/` and `http://h:65536/` ask the resolver for a
  host with the colon in it, while `:+8` is port 8. `http://h?x=1` has the query
  in the host (`src/client/io.rs:41-54`). The `Host` header has no port.
* A blank in the path ends the target; the rest is taken for the version, which
  is not looked at (`src/request.rs:214-226`).
* A request with more headers than 16 is refused by the server, the client's own
  two or three counted, and the client sends any number; a response with more
  loses the rest (`src/codec.rs:52`), the automatic `Content-Length` first.
* The builder counts 16 headers before it drops duplicates (`src/response.rs:338`).
  `problem_json` comes back as `Binary`, its type not being among those of
  `is_text`. `StatusCode::Other(200)` comes back as `Ok`.
* A response without a body has no `Content-Length`; when the server's FIN is
  lost with its socket, the client ends in an error although it has everything
  (`CalmDelivers`).

## 4. Fairness

Liveness holds under weak fairness of what the code's scheduling provides, and
of nothing the peer must do:

* ResponseReader and ServerConnection: an await is answered, with bytes, the end
  or an error. On a live socket that is the socket's timeout, which the client
  sets before its first await (`src/client/embassy.rs:236` and `311`) and the
  server after an accept. A retry that fails is still an answer.
  ServerConnection also assumes that the handler returns: the generic
  function has no limit of its own, so that its `Returns` says nothing about a
  silent peer or a hanging handler; those are `KeepsListening` of EmbassyServer.
* HttpExchange: one weak fairness per side, its steps and its leaving together.
  Each side goes on while it can; where nothing can come (`Refused`, `Starved`)
  its read or write fails, which is the socket's timeout. It also assumes that
  the handler returns. Nothing is assumed about which of the two is faster, nor
  about which of its possible steps a side takes.
* EmbassyServer assumes neither peer nor handler. Fair are the timers (`Tick`,
  `IdleAbort`, `HandlerTimesOut`), the report of an error on an aborted socket
  (`Broken`), and the steps of `serve` itself (`Pause`, `Close`). `Accept` is not
  fair: nobody has to call.
* EmbassyClient: every await of the call is answered; resolver, connect and
  handshake end by their own timeouts or the socket's, and a socket that is
  silent dies (`Dies`), which only `set_timeout` justifies: its mutant without
  the timer violates `CallReturns`.
* SmolTcpStream: the executor polls a woken task. The network is not fair.

A peer whose packets keep coming but which never takes the response would
restart the inactivity timer for ever; the model counts traffic only where the
code reads or writes.

## 5. The proofs

| Module | Theorems | Argument |
|---|---|---|
| `ResponseReader_proof` | `TypeCorrect`, `NeverReadsPastComplete`, `RetriesAccounted`, `NoSilentTruncation`, `ExchangeKeepsPromise` (refinement), `VerdictIsOne` | `IInv` adds `InOrder` (the await tells what has been done) and `StoppedWell`: an answer was decoded from the prefix the reader stopped at, and that prefix is complete or the whole of a stream without a length. `WholeBody` follows from it by a lemma about messages: with clean marks a complete prefix has every chunk. In the refinement each step maps to a step or a stutter, a write to how much of the request has gone out, the read steps by lemmas that compare `AfterLoop` with `Verdicts`; `VerdictIsOne` is that `Verdicts` has one member at most unless bytes follow a message with a `Content-Length`; it assumes `Unambiguous` wires: no mark before the end, no body-length bytes after a bodiless answer, a header line. `MCResponseReader` has TLC check that assumption on the instance |
| `ServerConnection_proof` | `TypeCorrect`, `HandlerGetsWholeRequest`, `NeverReadsPastRequest`, `ConnectionKeepsContract` (refinement) | `HandledWhenComplete`: the handler was called on a prefix for which `RequestComplete` held; the saturating sum is harmless because `BufLen < MaxUsize`, so that a request is complete exactly when `Awaited` bytes of it are there (`CompleteMeansThere`) |
| `ChunkDecoder_proof` | `TypeCorrect`, `MovesInPlace`, `DechunkDecodes`, `DechunkFailsWithCause` | `Progress`: what is written is the data of the chunks behind the loop, in order, at or before the place where it reads |
| `EmbassyServer_proof` | `TypeCorrect`, `HandlerHasItsTime`, `ConnectionsKeepContract` (refinement) | `TimersInStep`: while a handler runs on an open socket, the socket has been quiet for no longer than the handler has run. Assumes `HandlerTimeout < ReadTimeout`, which the defaults do not satisfy (run `embassy_timeouts`). The refinement holds for all timeouts: `Tracked` says that a connection still reading has not read a complete request, and that one still running has no result; a new connection is the step `Accept` of the property, which lets the contract start again |
| `SmolTcpStream_proof` | `TypeCorrect`, `WakeupsKept`, `EndIsTrue`, `FlushIsTrue`, `WritesMove` | bytes are conserved in both directions; a parked future has its waker in the slot that its event takes |
| `EmbassyClient_proof` | `TypeCorrect`, `EarlyErrorsAreSafe`, `EndsOrderly`, `NeverAbsorbed` | `InOrder` ties the await of the call to that of the exchange and to the socket: nothing is written before the exchange, its close delay finds an http socket "closing" and an https one "gone". `NeverAbsorbed` is about XorShift32: no word but zero agrees with its own shift, for a one of it would need another one `n` places on, and so beyond the end of the word; so none of the three mixing steps makes a zero |
| `HttpExchange_proof` | `TypeCorrect`, `AnswersAreTheHandlers`, `CalmCallsSucceed`, `ExchangeKeepsContract` (refinement) | `ClientInOrder` and `ServerInOrder` tie what is in the pipes to the await of each side; `AnswerIsTheHandlers` is the part that crosses: the server stops reading at the whole request and the client at the whole reply, so that a success of the one is the reply of the other. `CalmCallsSucceed` adds `CalmInv`: a client that still reads has room and not all of the reply (`ReadsOn`), a server that returned first has written all of its reply or has a reason for none (`ServerDoneFirst`), and what an answer depends on no longer changes once it is given (`Settled`), not even when the server's FIN is lost |
| `MessageTrip_proof` | `TypeCorrect`, `RequestArrivesAlways`, `QueryArrivesAlways`, `AnswerArrivesAlways` | three invariants. `RequestInv`: the wire is what `build_req` wrote for the call, the request is that with its body cut as its length allows, and none was refused that has room for its headers and a length that can be met. `QueryInv`: the pairs are the segments up to what remains (`Walked`), each result of `percent_decode` is that of its text, and the buffer holds the meaning of the text in hand up to the byte being read (`Partly`), with no escape cut by that byte. `AnswerInv`: the builder holds what the calls made so far add and set, and what is under way is `build_bytes` of what the handler returned; what the caller gets is that, cut as its length allows. What the loops compute is stated by lemmas over positions (below) |

The constants are arbitrary naturals and sets, under the named assumptions of
the modules (`NumbersAssumption`, `WiresAssumption`, ...), which TLC evaluates
in every run. The invariants that the runs check are not inductive: they say nothing of the way there, which the conjuncts named
above add.

The properties of MessageTrip say what arrives by positions and sets (`FirstValue`,
`Starts`, `Spells`, `Heads`, `Meaning`, `NamesFirst`), without the loops of the
code; the proofs connect the two. A loop of the code that is not a step of its own is a
recursive function over its turns, and what it computes is proved by `Climb`,
the least counterexample over the set of turns at which a statement holds: the
library's theorems of induction take operators as parameters, which the provers
cannot instantiate. That such a function exists, and so unfolds as its definition
reads, is proved too (`Iterated`, `Recursion`). The lemmas on `Find`, `RFind`,
`SplitOnce`, `HeaderValue` (`HeaderOfJoined`: the first one of a joined list),
`LastOfEachName` (`KeptMeans`: one header for each name, with the value set last) and
`Meaning` (`DecodingSteps`: one turn of `percent_decode` appends one byte of it) are
those to cite for code that uses them. The one assumption is `ExchangesAssumption`.

Only model-checked: liveness and everything under fairness (`Returns`,
`Terminates`, `KeepsListening`, `CallReturns`, `BothReturn`, `ReturnsWhenItCan`),
which is out of the prover's reach. Every invariant and every action property that
a passing run checks is also a theorem.

## 6. Not modelled

* The spelling of lines: decimals, blanks around a value, the case of a name, the
  version, reason phrases. Whether a start line and its headers parse is the flag
  `parses` of a message.
* `build_head_bytes`, for applications that stream a body themselves: nothing in
  the repository calls it.
* A `Transfer-Encoding` that a handler adds to its own response (`IsBuilderCall`).
* Certificates and signatures (`src/client/tls.rs:215-271`), which `embedded_tls`
  and the caller's verifier check; `next_u64` and `fill_bytes`
  (`src/client/embassy.rs:642-656`), which string the words of `next_u32` together.
* What peers see while no socket listens, and an upper bound on a connection with
  a peer that trickles packets: the code has none.
* Logging, re-exports, examples.

## 7. The plan

Done, in this order of importance: client exchange and its contract; server
connection and its contract; `dechunk`; Embassy server; smoltcp adapter; Embassy
and TLS client; the composition of client and server and its contract; the
contents of messages, URLs and queries; the random numbers. Proved, in the same
order: every invariant, every action property and every refinement the runs
check.

Left, should the code grow there: streaming responses with `build_head_bytes`
once something in the crate writes them, and more than one connection at a time
once `serve` has more than one socket.
