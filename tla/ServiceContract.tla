-------------------------- MODULE ServiceContract ---------------------------
(***************************************************************************)
(* What serving one connection promises (handle_http_connection and        *)
(* read_request, server/io.rs): the handler runs at most once, on a whole  *)
(* request that fits the buffer, or with the headers of a chunked one; the *)
(* peer is answered only after it, with a whole response or a broken       *)
(* connection; and each error has its cause.                               *)
(***************************************************************************)
EXTENDS HttpWire

CONSTANTS Wires, BufLen

VARIABLES
    wire,    \* what the peer sends
    stage,   \* "reading", "handling", "replying", "served" or "failed"
    error    \* the error of a failed connection, "none" otherwise

vars == <<wire, stage, error>>

Init == wire \in Wires /\ stage = "reading" /\ error = "none"

Handle ==
    /\ stage = "reading"
    /\ wire.parses
    /\ wire.sent >= Awaited(wire) /\ BufLen >= Awaited(wire)
    /\ stage' = "handling"
    /\ UNCHANGED <<wire, error>>

Reply ==
    /\ stage = "handling" /\ stage' = "replying"
    /\ UNCHANGED <<wire, error>>

Serve ==
    /\ stage = "replying" /\ stage' = "served"
    /\ UNCHANGED <<wire, error>>

\* The causes: the transport; a close in the middle of a request; a request
\* that does not fit; one that cannot be parsed; a response that does not fit.
Causes ==
    [reading  |-> {"TcpError"}
                  \cup { e \in {"Incomplete"} : wire.closes /\ wire.sent < Awaited(wire) }
                  \cup { e \in {"BufferOverflow"} : Awaited(wire) > BufLen }
                  \cup { e \in {"Malformed"} : ~wire.parses },
     handling |-> {"BufferOverflow"},
     replying |-> {"TcpError"}]

Fail ==
    /\ stage \in {"reading", "handling", "replying"}
    /\ error' \in Causes[stage]
    /\ stage' = "failed"
    /\ UNCHANGED wire

Next == Handle \/ Reply \/ Serve \/ Fail

Spec == Init /\ [][Next]_vars
=============================================================================
