---------------------------- MODULE CallContract ----------------------------
(***************************************************************************)
(* What one call over one connection promises the caller and the handler   *)
(* together: the handler runs at most once, on the whole request, and an   *)
(* answer is the reply of that run.  Everything else is an error, which    *)
(* says nothing about whether the handler has run.                         *)
(***************************************************************************)
EXTENDS HttpWire

CONSTANTS
    Requests,    \* what may be asked, see ResponseReader
    ReplyHead    \* length of the header block of every reply

VARIABLES
    request,   \* what is asked
    handled,   \* how often the handler was called
    seen,      \* the body it was given
    reply,     \* length of its reply, 0 before there is one
    answer     \* what the caller gets

vars == <<request, handled, seen, reply, answer>>

Pending == [kind |-> "pending", body |-> {}]

Init ==
    /\ request \in Requests
    /\ handled = 0 /\ seen = {} /\ reply = 0
    /\ answer = Pending

Handle ==
    /\ handled = 0 /\ request.parses
    /\ handled' = 1
    /\ seen' = Bytes(request.head, request.head + request.body)
    /\ UNCHANGED <<request, reply, answer>>

Reply ==
    /\ handled = 1 /\ reply = 0
    /\ reply' \in Nat \ {0}
    /\ UNCHANGED <<request, handled, seen, answer>>

Answer ==
    /\ answer = Pending /\ reply > 0
    /\ answer' = [kind |-> "Ok", body |-> Bytes(ReplyHead, reply)]
    /\ UNCHANGED <<request, handled, seen, reply>>

Fail ==
    /\ answer = Pending
    /\ answer' \in [kind : {"BufferOverflow", "TcpError", "NoResponse", "Incomplete",
                            "Malformed"},
                    body : {{}}]
    /\ UNCHANGED <<request, handled, seen, reply>>

Next == Handle \/ Reply \/ Answer \/ Fail

Spec == Init /\ [][Next]_vars
=============================================================================
