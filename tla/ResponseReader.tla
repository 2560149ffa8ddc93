--------------------------- MODULE ResponseReader ---------------------------
(***************************************************************************)
(* HttpClient::request_with_retry_delay (client/io.rs): one exchange over  *)
(* a stream that is already connected.                                     *)
(*                                                                         *)
(* The client builds the request head in a buffer of RQ bytes, writes it   *)
(* and the body, flushes, then reads into a buffer of BufLen bytes until   *)
(* the response is complete, the peer closes, the buffer is full, or       *)
(* MaxRetries reads have failed; what it read is dechunked in place and    *)
(* parsed.                                                                 *)
(*                                                                         *)
(* The other actor is the transport: it cuts the response into reads of    *)
(* any size, fails any write, flush or read, and reports the end of the    *)
(* stream once the peer closes.                                            *)
(***************************************************************************)
EXTENDS HttpWire

CONSTANTS
    Requests,    \* the requests the caller may make, see IsRequest
    Wires,       \* what the peer may answer: messages of HttpWire
    RQ,          \* capacity of the request buffer
    LenLimit,    \* the least body length that String::<8> cannot spell: 10^8
    BufLen,      \* length of the caller's response buffer
    MaxRetries   \* HttpClientOptions::max_retries

\* head: bytes of the request head; body: its length; hasBody: body.is_some();
\* declares: the caller gave a Content-Length header.
IsRequest(r) ==
    /\ r.head \in Nat \ {0} /\ r.body \in Nat
    /\ r.hasBody \in BOOLEAN /\ r.declares \in BOOLEAN
    /\ ~r.hasBody => r.body = 0

ASSUME NumbersAssumption ==
    /\ RQ \in Nat /\ LenLimit \in Nat
    /\ BufLen \in Nat /\ MaxRetries \in Nat

ASSUME RequestsAssumption == \A r \in Requests : IsRequest(r)

ASSUME WiresAssumption == \A w \in Wires : IsResponse(w)

VARIABLES
    request,   \* the request of this exchange
    wire,      \* what the peer answers
    phase,     \* the await the exchange is at
    written,   \* bytes of the request the transport has taken
    total,     \* total_read
    retries,   \* retries
    delays,    \* history: how often retry_delay was awaited
    result     \* what the caller gets: Pending until it returns

vars == <<request, wire, phase, written, total, retries, delays, result>>

Phases == {"build", "head", "body", "flush", "read", "delay", "done"}

Failures ==
    {"BufferOverflow", "TcpError", "NoResponse", "Incomplete", "Malformed", "Panic"}

Pending == [kind |-> "pending", body |-> {}]
Fails(kind) == [kind |-> kind, body |-> {}]
Answers(body) == [kind |-> "Ok", body |-> body]

Return(r) == phase' = "done" /\ result' = r

\* History: the reads that failed so far.
Spent == MaxRetries - retries

-----------------------------------------------------------------------------
(* What the reader makes of the first n bytes.                              *)

\* dechunk(buffer, n)? then parse_resp(buffer)?, which panics on the slice of
\* the header lines when there are none: it starts behind its end.
Decode(w, n) ==
    IF DechunkFails(w, n) \/ ~HeadersEnded(w, n) \/ ~w.parses
      THEN Fails("Malformed")
    ELSE IF w.bare THEN Fails("Panic")
    ELSE Answers(Delivered(w, n))

\* Mutant of AfterLoop: a declared length may be missing bytes.
AfterLoopTruncating(w, n, eof) ==
    IF n = 0 THEN Fails("NoResponse") ELSE Decode(w, n)

\* The checks of read_response after its loop, and what follows them.
AfterLoop(w, n, eof) ==
    IF n = 0 THEN Fails("NoResponse")
    ELSE IF Complete(w, n) THEN Decode(w, n)
    ELSE IF ~eof THEN Fails("BufferOverflow")
    ELSE IF DeclaresLength(w, n) THEN Fails("Incomplete")
    ELSE Decode(w, n)

\* The condition of the read loop.
MoreToRead(n, r) == n < BufLen /\ r > 0

-----------------------------------------------------------------------------
(* The request.                                                             *)

\* build_req fits in its buffer, the decimal length in its eight bytes.
Builds(r) ==
    /\ r.head <= RQ
    /\ r.hasBody /\ ~r.declares => r.body < LenLimit

Size(r) == r.head + r.body

Init ==
    /\ request \in Requests
    /\ wire \in Wires
    /\ phase = "build"
    /\ written = 0
    /\ total = 0
    /\ retries = MaxRetries
    /\ delays = 0
    /\ result = Pending

\* Mutant of BuildReq: what is built of the head goes out at once.
BuildReqWriting ==
    /\ phase = "build"
    /\ IF Builds(request)
         THEN phase' = "head" /\ UNCHANGED <<written, result>>
         ELSE written' = 1 /\ Return(Fails("BufferOverflow"))
    /\ UNCHANGED <<request, wire, total, retries, delays>>

\* codec::build_req(...)?: on an error nothing has touched the stream.
BuildReq ==
    /\ phase = "build"
    /\ IF Builds(request)
         THEN phase' = "head" /\ UNCHANGED result
         ELSE Return(Fails("BufferOverflow"))
    /\ UNCHANGED <<request, wire, written, total, retries, delays>>

\* stream.write_all of the head, then of the body if there is one.
WriteHead ==
    /\ phase = "head"
    /\ written' = request.head
    /\ phase' = IF request.hasBody THEN "body" ELSE "flush"
    /\ UNCHANGED <<request, wire, total, retries, delays, result>>

WriteBody ==
    /\ phase = "body"
    /\ written' = Size(request)
    /\ phase' = "flush"
    /\ UNCHANGED <<request, wire, total, retries, delays, result>>

\* A write fails after the transport has taken a part of its bytes.
WriteFails ==
    /\ \/ /\ phase = "head"
          /\ \E n \in written .. (request.head - 1) : written' = n
       \/ /\ phase = "body"
          /\ \E n \in written .. (Size(request) - 1) : written' = n
    /\ Return(Fails("TcpError"))
    /\ UNCHANGED <<request, wire, total, retries, delays>>

\* stream.flush(), then the condition of the read loop.
Flush ==
    /\ phase = "flush"
    /\ IF MoreToRead(0, MaxRetries)
         THEN phase' = "read" /\ UNCHANGED result
         ELSE Return(AfterLoop(wire, 0, FALSE))
    /\ UNCHANGED <<request, wire, written, total, retries, delays>>

FlushFails ==
    /\ phase = "flush"
    /\ Return(Fails("TcpError"))
    /\ UNCHANGED <<request, wire, written, total, retries, delays>>

-----------------------------------------------------------------------------
(* The read loop.                                                           *)

\* Mutant of ReadSome: complete() is left to the checks after the loop.
ReadSomeUntilEnd ==
    /\ phase = "read"
    /\ \E n \in (total + 1) .. BufLen :
          /\ n <= wire.sent
          /\ total' = n
          /\ IF MoreToRead(n, retries)
               THEN UNCHANGED <<phase, result>>
               ELSE Return(AfterLoop(wire, n, FALSE))
    /\ UNCHANGED <<request, wire, written, retries, delays>>

\* Ok(n): the transport hands over what it likes of what has been sent.
ReadSome ==
    /\ phase = "read"
    /\ \E n \in (total + 1) .. BufLen :
          /\ n <= wire.sent
          /\ total' = n
          /\ IF Complete(wire, n)
               THEN Return(Decode(wire, n))
               ELSE IF MoreToRead(n, retries)
                 THEN UNCHANGED <<phase, result>>
                 ELSE Return(AfterLoop(wire, n, FALSE))
    /\ UNCHANGED <<request, wire, written, retries, delays>>

\* Ok(0): the peer has closed.
ReadEof ==
    /\ phase = "read"
    /\ wire.closes /\ total = wire.sent
    /\ Return(AfterLoop(wire, total, TRUE))
    /\ UNCHANGED <<request, wire, written, total, retries, delays>>

\* Mutants of ReadFails: the budget is looked at before it is spent; a failed
\* read costs nothing.
ReadFailsLate ==
    /\ phase = "read"
    /\ retries' = retries - 1
    /\ IF retries = 0
         THEN Return(Fails("TcpError"))
         ELSE phase' = "delay" /\ UNCHANGED result
    /\ UNCHANGED <<request, wire, written, total, delays>>

ReadFailsFree == phase = "read" /\ UNCHANGED vars

\* Err(_): the budget is one for the whole response.
ReadFails ==
    /\ phase = "read"
    /\ retries' = retries - 1
    /\ IF retries' = 0
         THEN Return(Fails("TcpError"))
         ELSE phase' = "delay" /\ UNCHANGED result
    /\ UNCHANGED <<request, wire, written, total, delays>>

\* retry_delay().await, then the condition of the loop, which still holds.
RetryDelay ==
    /\ phase = "delay"
    /\ delays' = delays + 1
    /\ phase' = "read"
    /\ UNCHANGED <<request, wire, written, total, retries, result>>

\* The exchange is over: the caller has its result.
Returned == phase = "done" /\ UNCHANGED vars

Exchange == BuildReq \/ WriteHead \/ WriteBody \/ Flush \/ RetryDelay
Transport == WriteFails \/ FlushFails \/ ReadSome \/ ReadEof \/ ReadFails

Next == Exchange \/ Transport \/ Returned

\* Every await of the exchange is answered: the transport takes or refuses a
\* write and a flush, and a read that gets nothing is ended by a timeout of
\* the socket, which is an error.
Fairness == WF_vars(Exchange \/ Transport)

Spec == Init /\ [][Next]_vars /\ Fairness
-----------------------------------------------------------------------------
(* Properties.                                                              *)

\* Every variable keeps to its type; what was read was sent and fits.
TypeOK ==
    /\ request \in Requests /\ wire \in Wires
    /\ phase \in Phases
    /\ written \in 0 .. Size(request)
    /\ total \in 0 .. BufLen /\ total <= wire.sent
    /\ retries \in 0 .. MaxRetries
    /\ delays \in 0 .. MaxRetries
    /\ result.kind \in Failures \cup {"pending", "Ok"}
    /\ result.body \subseteq Bytes(0, BufLen)

\* No exchange returns a truncated body as a success (read_response: complete,
\* declares_length; dechunk), however the transport cut the response, as long
\* as "0\r\n\r\n" ends nowhere but at the end of the message; and when nothing
\* follows the message the body is exactly the one sent.
WholeBody ==
    result.kind = "Ok" /\ CleanMarks(wire) =>
        /\ Body(wire) \subseteq result.body
        /\ wire.sent <= wire.full => result.body = Body(wire)

\* The same without the provision about the marker, as the changelog and the
\* docs of read_response have it: a success is never a truncated body.
NeverTruncates == result.kind = "Ok" => Body(wire) \subseteq result.body

\* The reader never awaits another read when what it has is a complete
\* response (the test of complete() after every read): a peer that keeps the
\* connection open would make it wait for nothing.
NoReadPastComplete ==
    phase \in {"read", "delay"} => ~Complete(wire, total)

\* The retry budget (retries in read_response) is one for the whole response:
\* an exchange gives up at the failed read number MaxRetries, having slept
\* once less, and an exchange that answers has failed fewer reads.
RetryAccounting ==
    /\ delays = Spent \/ delays = Spent - 1
    /\ phase = "delay" => delays = Spent - 1
    /\ phase = "read" => delays = Spent /\ Spent < MaxRetries
    /\ result.kind \in {"Ok", "Malformed", "Incomplete"} => delays = Spent /\ Spent < MaxRetries
    /\ delays # Spent /\ phase = "done" =>
          result.kind = "TcpError" /\ Spent = MaxRetries /\ MaxRetries > 0

\* The errors that the docs of request name for a request that has gone out:
\* "stream IO fails, no response is received, the response is incomplete or
\* larger than the response buffer, or the response cannot be parsed".  So a
\* response that was sent whole, with nothing behind it, that is well formed and
\* no larger than the buffer, is answered unless the stream fails.
FittingAnswered ==
    written = Size(request) /\ wire.sent = wire.full /\ wire.full <= BufLen
        /\ wire.parses /\ ~DechunkFails(wire, wire.full)
    => result.kind \in {"pending", "Ok", "TcpError"}

\* The exchange returns, however the reads fail or cut the response, as long as
\* each of its awaits is answered (Fairness): the budget of failures ends.
Returns == <>(phase = "done")

\* The exchange implements its contract: nothing of a refused request has gone
\* out (build_req before the first write_all), and the checks of read_response,
\* dechunk and parse_resp come to a verdict that the peer's bytes decide.
Asked ==
    IF written = 0 THEN "nothing"
    ELSE IF written < Size(request) THEN "part" ELSE "all"
Promise == INSTANCE ResponseContract WITH asked <- Asked
Contract == Promise!Spec

-----------------------------------------------------------------------------
(* The strengthening that makes the invariants above inductive.             *)

\* Where the exchange is tells what it has done.
InOrder ==
    /\ phase \in {"build", "head"} => written = 0
    /\ phase = "body" => request.hasBody /\ written = request.head
    /\ phase \in {"flush", "read", "delay"} => written = Size(request)
    /\ phase \in {"build", "head", "body", "flush"} =>
          total = 0 /\ retries = MaxRetries /\ delays = 0
    /\ phase \in {"read", "delay"} => MoreToRead(total, retries)
    /\ phase # "done" => result = Pending

\* An answer is what the reader decodes of the bytes it stopped at, and it
\* stopped at a complete response or at the close that delimits one.
StoppedWell ==
    result.kind = "Ok" =>
        /\ result = Decode(wire, total)
        /\ \/ Complete(wire, total)
           \/ wire.framing = "none" /\ total = wire.sent

IInv == TypeOK /\ InOrder /\ NoReadPastComplete /\ RetryAccounting /\ StoppedWell
=============================================================================
