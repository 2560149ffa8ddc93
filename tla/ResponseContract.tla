-------------------------- MODULE ResponseContract --------------------------
(***************************************************************************)
(* What an exchange promises its caller (the docs of read_response and of  *)
(* request_with_retry_delay, client/io.rs): it returns once; no byte of a  *)
(* request that was refused has gone out, and an answer is only to a       *)
(* request that has gone out whole; what comes back is decided by the      *)
(* bytes of the peer.  How the transport cut them decides one thing: how   *)
(* many of the bytes that follow a message with a Content-Length are       *)
(* behind its body.  The transport may abort an exchange at any time.      *)
(***************************************************************************)
EXTENDS HttpWire

CONSTANTS Wires, BufLen, MaxRetries

VARIABLES
    wire,     \* what the peer answers
    asked,    \* how much of the request has gone out, see Progress
    result    \* what the caller got

vars == <<wire, asked, result>>

Progress == {"nothing", "part", "all"}

Pending == [kind |-> "pending", body |-> {}]
Fails(kind) == [kind |-> kind, body |-> {}]

\* The body an answer carries: that of the message and, since nothing cuts a
\* body at its Content-Length, what came in the same read after it.
Carried(w, n) == IF w.framing = "length" THEN Bytes(w.head, n) ELSE Body(w)

Readable(w) == w.parses /\ ~DechunkFails(w, w.full)

\* The peer sent a message whose end shows, and it fits.
Fits(w) == Delimited(w) /\ w.full <= w.sent /\ w.full <= BufLen

Verdicts(w) ==
    IF BufLen = 0 \/ MaxRetries = 0 THEN { Fails("NoResponse") }
    ELSE IF Fits(w) THEN
        IF Readable(w)
          THEN { [kind |-> "Ok", body |-> Carried(w, n)] :
                    n \in { k \in w.full .. BufLen : k <= w.sent } }
          ELSE { Fails("Malformed") }
    ELSE IF w.sent >= BufLen THEN { Fails("BufferOverflow") }
    ELSE IF ~w.closes THEN {}
    ELSE IF w.sent = 0 THEN { Fails("NoResponse") }
    ELSE IF w.sent < w.head \/ (w.framing = "none" /\ ~w.parses)
      THEN { Fails("Malformed") }
    ELSE IF w.framing = "none"
      THEN { [kind |-> "Ok", body |-> Body(w)] }
    ELSE { Fails("Incomplete") }

Init == wire \in Wires /\ asked = "nothing" /\ result = Pending

Refuse ==
    /\ result = Pending /\ asked = "nothing"
    /\ result' = Fails("BufferOverflow")
    /\ UNCHANGED <<wire, asked>>

Ask ==
    /\ result = Pending /\ asked # "all"
    /\ asked' \in {"part", "all"}
    /\ UNCHANGED <<wire, result>>

\* A write that fails may have taken a part of its bytes.
Abort ==
    /\ result = Pending
    /\ result' = Fails("TcpError")
    /\ asked' = asked \/ (asked = "nothing" /\ asked' = "part")
    /\ UNCHANGED wire

Settle ==
    /\ result = Pending /\ asked = "all"
    /\ result' \in Verdicts(wire)
    /\ UNCHANGED <<wire, asked>>

Next == Refuse \/ Ask \/ Abort \/ Settle

Spec == Init /\ [][Next]_vars
=============================================================================
