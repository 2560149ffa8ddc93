-------------------------- MODULE ServerConnection --------------------------
(***************************************************************************)
(* handle_http_connection_with_sizes (server/io.rs): one connection of the *)
(* server.  It reads a request into BufLen bytes, parses it, awaits the    *)
(* handler, serialises the response into ReplyLen bytes, writes it and     *)
(* flushes.  The transport cuts the request into reads of any size and may *)
(* fail any read, write or flush; the handler answers what it likes.       *)
(***************************************************************************)
EXTENDS HttpWire

CONSTANTS
    Wires,      \* what the peer may send: requests of HttpWire
    Replies,    \* lengths of the serialised responses of the handler
    ErrorReply, \* length of the text_error response
    BufLen,     \* REQ_SIZE
    ReplyLen,   \* MAX_RESPONSE_SIZE
    MaxUsize    \* usize::MAX

ASSUME SizesAssumption ==
    /\ BufLen \in Nat \ {0} /\ ReplyLen \in Nat /\ MaxUsize \in Nat
    /\ BufLen < MaxUsize
    /\ ErrorReply \in Nat \ {0} /\ Replies \subseteq Nat \ {0}

\* content_length parses a usize: a larger number is no length.
ASSUME WiresAssumption ==
    \A w \in Wires : IsRequestMessage(w) /\ w.clen <= MaxUsize

VARIABLES
    wire,      \* what the peer sends
    phase,     \* the await the connection is at
    total,     \* total_read
    seen,      \* history: the body the handler was given
    handled,   \* history: how often the handler was called
    reply,     \* length of the serialised response, 0 before there is one
    written,   \* how much of it the transport has taken
    result     \* "pending", "Ok" or the error

vars == <<wire, phase, total, seen, handled, reply, written, result>>

Phases == {"read", "handle", "write", "flush", "done"}
Errors == {"TcpError", "Incomplete", "BufferOverflow", "Malformed"}

Return(r) == phase' = "done" /\ result' = r

\* Mutant of BodyEnd: the sum wraps.
WrappingBodyEnd(w) == (w.head + w.clen) % (MaxUsize + 1)

\* body_start.saturating_add(content_length)
BodyEnd(w) ==
    IF w.head + w.clen > MaxUsize THEN MaxUsize ELSE w.head + w.clen

\* request_complete after a read that brings the total to n: only the headers
\* of a request without Content-Length are waited for.
RequestComplete(w, n) ==
    /\ HeadersEnded(w, n)
    /\ w.framing = "length" => n >= BodyEnd(w)

Init ==
    /\ wire \in Wires
    /\ phase = "read"
    /\ total = 0
    /\ seen = {} /\ handled = 0
    /\ reply = 0 /\ written = 0
    /\ result = "pending"

\* HttpRequest::try_from(&buf[..n])?, then the handler is called.
Parse(n) ==
    IF wire.parses
      THEN /\ phase' = "handle"
           /\ seen' = Bytes(wire.head, n)
           /\ handled' = handled + 1
           /\ UNCHANGED result
      ELSE Return("Malformed") /\ UNCHANGED <<seen, handled>>

\* Mutant of ReadSome: a full buffer passes for a complete request.
ReadSomeFull ==
    /\ phase = "read"
    /\ \E n \in (total + 1) .. BufLen :
          /\ n <= wire.sent
          /\ total' = n
          /\ IF RequestComplete(wire, n) \/ n = BufLen
               THEN Parse(n)
               ELSE UNCHANGED <<phase, seen, handled, result>>
    /\ UNCHANGED <<wire, reply, written>>

\* Mutant of ReadSome: a request is complete when no more can be read.
ReadSomeToTheEnd ==
    /\ phase = "read"
    /\ \E n \in (total + 1) .. BufLen :
          /\ n <= wire.sent
          /\ total' = n
          /\ IF RequestComplete(wire, n) /\ n = wire.sent
               THEN Parse(n)
               ELSE IF n < BufLen
                 THEN UNCHANGED <<phase, seen, handled, result>>
                 ELSE Return("BufferOverflow") /\ UNCHANGED <<seen, handled>>
    /\ UNCHANGED <<wire, reply, written>>

\* Ok(n) with n > 0, then the checks of the loop and, once it is left, of what
\* follows it.
ReadSome ==
    /\ phase = "read"
    /\ \E n \in (total + 1) .. BufLen :
          /\ n <= wire.sent
          /\ total' = n
          /\ IF RequestComplete(wire, n)
               THEN Parse(n)
               ELSE IF n < BufLen
                 THEN UNCHANGED <<phase, seen, handled, result>>
                 ELSE Return("BufferOverflow") /\ UNCHANGED <<seen, handled>>
    /\ UNCHANGED <<wire, reply, written>>

\* Ok(0): the peer closed.
ReadEof ==
    /\ phase = "read"
    /\ wire.closes /\ total = wire.sent
    /\ Return("Incomplete")
    /\ UNCHANGED <<wire, total, seen, handled, reply, written>>

\* Mutant of ReadFails: a failed read is tried again, for ever.
ReadFailsAgain == phase = "read" /\ UNCHANGED vars

\* Err(_): no read is tried again.
ReadFails ==
    /\ phase = "read"
    /\ Return("TcpError")
    /\ UNCHANGED <<wire, total, seen, handled, reply, written>>

\* Mutant of Serialise: the response is taken to fit.
SerialiseAny(size) ==
    /\ phase = "handle"
    /\ reply' = size /\ phase' = "write"
    /\ UNCHANGED <<wire, total, seen, handled, written, result>>

\* build_bytes of a response of that size.
Serialise(size) ==
    /\ phase = "handle"
    /\ IF size <= ReplyLen
         THEN reply' = size /\ phase' = "write" /\ UNCHANGED result
         ELSE Return("BufferOverflow") /\ UNCHANGED reply
    /\ UNCHANGED <<wire, total, seen, handled, written>>

\* The handler answers, with a response or with an error, for which the server
\* writes a text_error.
HandlerReturns == \E size \in Replies \cup {ErrorReply} : Serialise(size)

Write ==
    /\ phase = "write"
    /\ written' = reply /\ phase' = "flush"
    /\ UNCHANGED <<wire, total, seen, handled, reply, result>>

\* A write fails after a part of the response has gone out.
WriteFails ==
    /\ phase = "write"
    /\ \E n \in 0 .. (reply - 1) : written' = n
    /\ Return("TcpError")
    /\ UNCHANGED <<wire, total, seen, handled, reply>>

Flush ==
    /\ phase = "flush"
    /\ Return("Ok")
    /\ UNCHANGED <<wire, total, seen, handled, reply, written>>

FlushFails ==
    /\ phase = "flush"
    /\ Return("TcpError")
    /\ UNCHANGED <<wire, total, seen, handled, reply, written>>

\* The connection has been served.
Served == phase = "done" /\ UNCHANGED vars

Transport ==
    \/ ReadSome \/ ReadEof \/ ReadFails
    \/ Write \/ WriteFails \/ Flush \/ FlushFails

Next == Transport \/ HandlerReturns \/ Served

\* The transport answers every read, write and flush, if only with an error, and
\* the handler returns.
Fairness == WF_vars(Transport) /\ WF_vars(HandlerReturns)

Spec == Init /\ [][Next]_vars /\ Fairness
-----------------------------------------------------------------------------
(* Properties.                                                              *)

\* Every variable keeps to its type; what was read was sent and fits.
TypeOK ==
    /\ wire \in Wires
    /\ phase \in Phases
    /\ total \in 0 .. BufLen /\ total <= wire.sent
    /\ seen \subseteq Bytes(0, BufLen)
    /\ handled \in 0 .. 1
    /\ reply \in 0 .. ReplyLen
    /\ written \in 0 .. reply
    /\ result \in Errors \cup {"pending", "Ok"}

\* The handler (handle_http_connection_with_sizes) never gets a request with a
\* part of its declared body missing, however the transport cut it, and gets
\* exactly the body when nothing follows the request.
WholeRequestHandled ==
    handled > 0 /\ wire.framing # "chunked" =>
        /\ Body(wire) \subseteq seen
        /\ wire.sent <= wire.full => seen = Body(wire)

\* read_request never awaits another read when it has the whole request: the
\* peer waits for the answer and would send nothing more.
NoReadPastRequest == phase = "read" => total < Awaited(wire)

\* The connection is over in the end, as long as every await is answered: a peer
\* that sends nothing and a handler that hangs keep handle_http_connection for
\* ever, which has no time limit of its own.  Those of serve are in EmbassyServer,
\* whose KeepsListening asks for neither.
Returns == <>(phase = "done")

\* The connection implements its contract.
Service ==
    INSTANCE ServiceContract WITH
        stage <- IF phase = "read" THEN "reading"
                 ELSE IF phase = "handle" THEN "handling"
                 ELSE IF phase \in {"write", "flush"} THEN "replying"
                 ELSE IF result = "Ok" THEN "served" ELSE "failed",
        error <- IF result \in Errors THEN result ELSE "none"
Contract == Service!Spec

-----------------------------------------------------------------------------
(* The strengthening that makes the invariants above inductive.             *)

\* Where the connection is tells what it has done.
InOrder ==
    /\ phase = "read" => ~RequestComplete(wire, total)
    /\ phase = "read" => handled = 0
    /\ phase \in {"read", "handle"} => reply = 0 /\ written = 0
    /\ phase # "done" => result = "pending"
    /\ phase = "done" => result # "pending"
    /\ phase = "flush" => written = reply

\* The handler was called on the bytes read_request stopped at.
HandledWhenComplete ==
    handled > 0 => RequestComplete(wire, total) /\ seen = Bytes(wire.head, total)

IInv == TypeOK /\ InOrder /\ HandledWhenComplete
=============================================================================
