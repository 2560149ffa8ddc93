---------------------------- MODULE HttpExchange ----------------------------
(***************************************************************************)
(* One call of HttpClient (client/io.rs) answered by                       *)
(* handle_http_connection (server/io.rs) over one connection: the steps of *)
(* ResponseReader and of ServerConnection, each reading what the other     *)
(* writes.  The connection is a pipe in each direction that holds at most  *)
(* PipeCap bytes, so that write_all goes forward only while the other side *)
(* reads; each side leaves the connection when its future has returned.    *)
(*                                                                         *)
(* In a storm any write, flush or read may fail.  In calm weather one      *)
(* fails only where nothing else can come: the other side has left.        *)
(***************************************************************************)
EXTENDS HttpWire

CONSTANTS
    Requests,    \* what the caller may ask: IsRequest of ResponseReader, and
                 \* parses: whether HttpRequest::try_from takes it
    ReplyHead,   \* length of the header block of a reply
    Replies,     \* lengths of the serialised responses of the handler
    ErrorReply,  \* length of the text_error response
    RQ, LenLimit, ClientBuf, MaxRetries,   \* of the client
    ServerBuf, ReplyLen, MaxUsize,         \* of the server
    PipeCap      \* bytes in flight in one direction, the buffers included

VARIABLES
    weather,     \* "calm" or "storm", for good
    request, cphase, up, ctotal, retries, delays, answer,  \* the client
    csock,       \* its end: "open", "closed" (a FIN) or "dead" (a reset)
    sphase, stotal, seen, handled, reply, down, verdict,   \* the server
    ssock        \* its end: "open", "closed" (a FIN) or "gone" without one

client == <<request, cphase, up, ctotal, retries, delays, answer>>
server == <<sphase, stotal, seen, handled, reply, down, verdict>>
vars == <<weather, client, csock, server, ssock>>

\* What the server reads: the request as far as it is in the pipe, its length
\* declared by build_req.
Asked ==
    [head |-> request.head,
     framing |-> IF request.hasBody THEN "length" ELSE "none",
     clen |-> request.body, chunks |-> <<>>, marks |-> {},
     full |-> request.head + request.body, sent |-> up,
     closes |-> csock = "closed", parses |-> request.parses, bare |-> FALSE]

\* What the client reads, of a reply with at least one header: write_head_bytes
\* declares the length of a body, but not that there is none.
Replied ==
    [head |-> ReplyHead,
     framing |-> IF reply > ReplyHead THEN "length" ELSE "none",
     clen |-> IF reply > ReplyHead THEN reply - ReplyHead ELSE 0,
     chunks |-> <<>>, marks |-> {},
     full |-> IF reply > ReplyHead THEN reply ELSE ReplyHead, sent |-> down,
     closes |-> ssock = "closed", parses |-> TRUE, bare |-> FALSE]

Client ==
    INSTANCE ResponseReader WITH
        Wires <- {}, BufLen <- ClientBuf, wire <- Replied, phase <- cphase,
        written <- up, total <- ctotal, result <- answer

Server ==
    INSTANCE ServerConnection WITH
        Wires <- {}, BufLen <- ServerBuf, wire <- Asked, phase <- sphase,
        total <- stotal, written <- down, result <- verdict

ASSUME ExchangeAssumption ==
    /\ \A r \in Requests :
          Client!IsRequest(r) /\ ~r.declares /\ r.parses \in BOOLEAN
    /\ ReplyHead \in Nat \ {0}
    /\ \A size \in Replies \cup {ErrorReply} : size \in Nat /\ size >= ReplyHead
    /\ {RQ, LenLimit, ReplyLen, MaxUsize} \subseteq Nat
    /\ {ClientBuf, ServerBuf, MaxRetries, PipeCap} \subseteq Nat \ {0}

\* The lengths that the server computes with do not reach usize::MAX.
ASSUME SizesAssumption ==
    \A r \in Requests : r.head + r.body <= MaxUsize

Init ==
    /\ weather \in {"calm", "storm"}
    /\ request \in Requests
    /\ cphase = "build" /\ up = 0 /\ ctotal = 0 /\ csock = "open"
    /\ retries = MaxRetries /\ delays = 0 /\ answer = Client!Pending
    /\ sphase = "read" /\ stotal = 0 /\ seen = {} /\ handled = 0
    /\ reply = 0 /\ down = 0 /\ verdict = "pending" /\ ssock = "open"

-----------------------------------------------------------------------------
(* The client.                                                              *)

\* Where write_all of the head, or of the body, ends.
Goal == IF cphase = "head" THEN request.head ELSE Client!Size(request)

\* Mutant of ClientWrites: the pipe takes what it likes.
ClientWritesAhead ==
    /\ cphase \in {"head", "body"} /\ csock = "open"
    /\ \E n \in (up + 1) .. (Goal + 1) : up' = n
    /\ UNCHANGED <<request, cphase, ctotal, retries, delays, answer>>

\* A write of write_all: as much as there is room for.
ClientWrites ==
    /\ cphase \in {"head", "body"} /\ csock = "open"
    /\ \E n \in (up + 1) .. Goal : n - stotal <= PipeCap /\ up' = n
    /\ UNCHANGED <<request, cphase, ctotal, retries, delays, answer>>

\* write_all has written all.
ClientWrote == up = Goal /\ (Client!WriteHead \/ Client!WriteBody)

\* The server has left without reading all of the request: a reset.
Refused == ssock # "open" /\ stotal < Client!Size(request)

ClientWriteFails ==
    /\ weather = "storm" \/ Refused
    /\ (Client!WriteFails /\ up' = up) \/ Client!FlushFails

\* Nothing more comes, and no FIN has said so: the reset, or the timeout.
Starved == ctotal = down /\ (ssock = "gone" \/ Refused)

ClientReadFails == (weather = "storm" \/ Starved) /\ Client!ReadFails

ClientMoves ==
    \/ Client!BuildReq \/ ClientWrites \/ ClientWrote \/ ClientWriteFails
    \/ Client!Flush \/ Client!ReadSome \/ Client!ReadEof \/ ClientReadFails
    \/ Client!RetryDelay

ClientStep == UNCHANGED <<weather, csock, server, ssock>> /\ ClientMoves

\* The caller closes its socket, or drops it.
ClientLeaves ==
    /\ cphase = "done" /\ csock = "open"
    /\ csock' \in {"closed", "dead"}
    /\ UNCHANGED <<weather, client, server, ssock>>

-----------------------------------------------------------------------------
(* The server.                                                              *)

\* Mutant of ServerReads: the handler is called when the headers are there.
ServerReadsHead ==
    /\ sphase = "read"
    /\ \E n \in (stotal + 1) .. ServerBuf :
          /\ n <= up /\ stotal' = n
          /\ IF n >= request.head
               THEN Server!Parse(n)
               ELSE UNCHANGED <<sphase, seen, handled, verdict>>
    /\ UNCHANGED <<reply, down>>

\* Mutant of ServerReads: the request is read to the end of the stream.
ServerReadsToFin ==
    /\ sphase = "read" /\ csock # "open"
    /\ Server!ReadSome \/ Server!ReadEof

ServerReads == Server!ReadSome \/ Server!ReadEof

\* The client has left.
ServerReadFails == (weather = "storm" \/ csock = "dead") /\ Server!ReadFails

ServerWrites ==
    /\ sphase = "write"
    /\ \E n \in (down + 1) .. reply : n - ctotal <= PipeCap /\ down' = n
    /\ UNCHANGED <<sphase, stotal, seen, handled, reply, verdict>>

ServerWrote == down = reply /\ Server!Write

ServerWriteFails ==
    /\ weather = "storm" \/ csock # "open"
    /\ (Server!WriteFails /\ down' = down) \/ Server!FlushFails

ServerMoves ==
    \/ ServerReads \/ ServerReadFails \/ Server!HandlerReturns
    \/ ServerWrites \/ ServerWrote \/ ServerWriteFails \/ Server!Flush

ServerStep == UNCHANGED <<weather, client, csock, ssock>> /\ ServerMoves

\* Mutant of ServerLeaves: the socket is dropped with the response in it.
ServerLeavesEarly ==
    /\ sphase \in {"flush", "done"} /\ ssock = "open"
    /\ ssock' \in {"closed", "gone"}
    /\ down' = ctotal
    /\ UNCHANGED <<weather, client, csock>>
    /\ UNCHANGED <<sphase, stotal, seen, handled, reply, verdict>>

\* serve closes the socket and drops it at once: the FIN may not get out.  The
\* response has been acknowledged, flush waited for that.
ServerLeaves ==
    /\ sphase = "done" /\ ssock = "open"
    /\ ssock' \in {"closed", "gone"}
    /\ UNCHANGED <<weather, client, csock, server>>

\* When both have left there is no step.
Next == ClientStep \/ ClientLeaves \/ ServerStep \/ ServerLeaves

\* Each side goes on while it can; what can neither be read nor written is
\* ended by the timeout of its socket.
Fairness ==
    WF_vars(ClientStep \/ ClientLeaves) /\ WF_vars(ServerStep \/ ServerLeaves)

Spec == Init /\ [][Next]_vars /\ Fairness
-----------------------------------------------------------------------------
(* Properties.                                                              *)

\* Every variable keeps to its type; each pipe holds no more than it can, and
\* no more is read of it than was written.
TypeOK ==
    /\ weather \in {"calm", "storm"}
    /\ request \in Requests
    /\ cphase \in Client!Phases /\ sphase \in Server!Phases
    /\ up \in 0 .. Client!Size(request) /\ stotal \in 0 .. up
    /\ down \in 0 .. reply /\ ctotal \in 0 .. down
    /\ up - stotal <= PipeCap /\ down - ctotal <= PipeCap
    /\ stotal <= ServerBuf /\ ctotal <= ClientBuf
    /\ retries \in 0 .. MaxRetries /\ delays \in 0 .. MaxRetries
    /\ handled \in 0 .. 1 /\ reply \in 0 .. ReplyLen
    /\ seen \subseteq Bytes(0, ServerBuf)
    /\ answer.kind \in Client!Failures \cup {"pending", "Ok"}
    /\ answer.body \subseteq Bytes(0, ClientBuf)
    /\ verdict \in Server!Errors \cup {"pending", "Ok"}
    /\ csock \in {"open", "closed", "dead"}
    /\ ssock \in {"open", "closed", "gone"}

\* An answer of the client (request_with_retry_delay) is the whole reply of
\* the one run of the handler, and that run had the whole request.
AnswerIsTheHandlers ==
    answer.kind = "Ok" =>
        /\ handled = 1 /\ reply > 0
        /\ seen = Bytes(request.head, Client!Size(request))
        /\ answer.body = Bytes(ReplyHead, reply)

\* What a call deserves of a connection that does not fail.
Expected ==
    IF ~Client!Builds(request) THEN {"BufferOverflow"}
    ELSE IF Client!Size(request) > ServerBuf \/ ~request.parses \/ reply = 0
      THEN {"NoResponse", "TcpError"}
    ELSE IF reply > ClientBuf \/ (reply = ClientBuf /\ reply = ReplyHead)
      THEN {"BufferOverflow"}
    ELSE IF reply > ReplyHead \/ ssock = "closed" THEN {"Ok"}
    ELSE {"TcpError"}

\* On a connection that does not fail a call ends as its sizes decide, however
\* the bytes were cut and whoever was faster: a request the server takes is
\* answered by the reply, unless it fits neither buffer, or is an empty one
\* whose end only a FIN could have shown (write_head_bytes, serve).
CalmDelivers ==
    weather = "calm" /\ cphase = "done" => answer.kind \in Expected

\* Both futures return, the pipes being as narrow as they like: no write waits
\* for a reader that is itself waiting (write_all of both sides, read_request,
\* read_response).
BothReturn == <>(cphase = "done" /\ sphase = "done")

\* Client, server and connection together implement the contract of a call.
Call == INSTANCE CallContract
Contract == Call!Spec

-----------------------------------------------------------------------------
(* The strengthening that makes the invariants above inductive.             *)

\* Where the client is tells what it has written and which reads failed.
ClientInOrder ==
    /\ cphase = "build" => up = 0
    /\ cphase = "head" => up <= request.head
    /\ cphase = "body" => up >= request.head
    /\ cphase \in {"flush", "read", "delay"} => up = Client!Size(request)
    /\ cphase # "done" => answer = Client!Pending
    /\ cphase \in {"build", "head", "body", "flush"} =>
          retries = MaxRetries /\ delays = 0
    /\ cphase = "read" => retries > 0 /\ delays = MaxRetries - retries
    /\ cphase = "delay" => retries > 0 /\ delays = MaxRetries - retries - 1

\* Nothing is replied before the handler has run, and it runs on what the
\* client has written to the end.
ServerInOrder ==
    /\ sphase = "read" => handled = 0
    /\ sphase \in {"handle", "write", "flush"} => handled = 1
    /\ sphase \in {"read", "handle"} => reply = 0
    /\ sphase \in {"write", "flush"} => reply > 0
    /\ reply > 0 => reply >= ReplyHead /\ handled = 1
    /\ handled = 0 => seen = {}
    /\ handled = 1 =>
          /\ request.parses
          /\ stotal = Client!Size(request)
          /\ seen = Bytes(request.head, Client!Size(request))

IInv == TypeOK /\ ClientInOrder /\ ServerInOrder /\ AnswerIsTheHandlers

\* A side leaves when its future has returned, the client starts to read with
\* nothing read, and what is flushed has been written.
LeavesWhenDone ==
    /\ csock # "open" => cphase = "done"
    /\ ssock # "open" => sphase = "done"
    /\ cphase \in {"build", "head", "body", "flush"} => ctotal = 0
    /\ cphase \notin {"build", "done"} => Client!Builds(request)
    /\ sphase = "flush" => down = reply

\* Why the client still reads: there is room, and the reply is not all there.
ReadsOn ==
    cphase \in {"read", "delay"} =>
        ctotal < ClientBuf /\ (reply > ReplyHead => ctotal < reply)

\* A server that returned before the client did has written its reply to the
\* end, and had a reason if it has not called the handler.
ServerDoneFirst ==
    cphase # "done" /\ sphase = "done" =>
        /\ down = reply
        /\ handled = 0 => Client!Size(request) > ServerBuf \/ ~request.parses

\* What the answer of the client depends on does not change any more.
Settled ==
    cphase = "done" =>
        /\ answer.kind \in Expected
        /\ Client!Builds(request) =>
              /\ reply > 0 \/ sphase = "done"
              /\ reply = ReplyHead /\ reply < ClientBuf => ssock # "open"

CalmInv ==
    /\ LeavesWhenDone
    /\ weather = "calm" => ReadsOn /\ ServerDoneFirst /\ Settled
=============================================================================
