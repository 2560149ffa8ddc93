---------------------------- MODULE EmbassyServer ----------------------------
(***************************************************************************)
(* EmbassyHttpServer::serve and TimeoutHandler (server/embassy.rs): the    *)
(* loop that accepts one connection after the other and serves each as     *)
(* ServerConnection says, under two timers: the socket's, which aborts a   *)
(* connection that is quiet for ReadTimeout, and the one around the        *)
(* handler, which gives it up after HandlerTimeout.                        *)
(*                                                                         *)
(* The other actors are the peers, the handler of the application, and the *)
(* network stack, which runs the socket's timer.  Time passes in ticks.    *)
(***************************************************************************)
EXTENDS HttpWire

CONSTANTS
    Wires, Replies, ErrorReply, BufLen, ReplyLen, MaxUsize, \* of ServerConnection
    TimeoutReply,     \* length of the 408 response
    ReadTimeout,      \* ServerTimeouts::read_timeout, in ticks
    HandlerTimeout    \* ServerTimeouts::handler_timeout, in ticks

ASSUME TimeoutsAssumption ==
    /\ ReadTimeout \in Nat \ {0} /\ HandlerTimeout \in Nat \ {0}
    /\ TimeoutReply \in Nat \ {0}

ASSUME SizesAssumption ==
    /\ BufLen \in Nat /\ ReplyLen \in Nat
    /\ MaxUsize \in Nat /\ BufLen < MaxUsize
    /\ ErrorReply \in Nat /\ Replies \subseteq Nat

ASSUME WiresAssumption ==
    \A w \in Wires : IsRequestMessage(w) /\ w.clen <= MaxUsize

VARIABLES
    task,      \* the await of serve: "accept", "pause" or "serve"
    socket,    \* "open", "reset" by the peer, or aborted as "idle"
    quiet,     \* ticks without traffic on the socket
    busy,      \* ticks the handler has been running
    wire, phase, total, seen, handled, reply, written, result \* the connection

connection == <<wire, phase, total, seen, handled, reply, written, result>>
vars == <<task, socket, quiet, busy, connection>>

Conn == INSTANCE ServerConnection

\* No connection has been accepted yet.
Init ==
    /\ task = "accept" /\ socket = "reset"
    /\ quiet = 0 /\ busy = 0
    /\ wire \in Wires /\ phase = "done" /\ result = "Ok"
    /\ total = 0 /\ seen = {} /\ handled = 0 /\ reply = 0 /\ written = 0

-----------------------------------------------------------------------------
(* The accept loop.                                                         *)

\* socket.accept(port) succeeds: the connection starts with buffers of its own,
\* and set_timeout with the read timeout.
Accept ==
    /\ task = "accept"
    /\ task' = "serve" /\ socket' = "open" /\ quiet' = 0 /\ busy' = 0
    /\ wire' \in Wires /\ phase' = "read" /\ result' = "pending"
    /\ total' = 0 /\ seen' = {} /\ handled' = 0 /\ reply' = 0 /\ written' = 0

\* It fails; the next one waits for 100 ms.
AcceptFails ==
    /\ task = "accept" /\ task' = "pause"
    /\ UNCHANGED <<socket, quiet, busy, connection>>

Pause ==
    /\ task = "pause" /\ task' = "accept"
    /\ UNCHANGED <<socket, quiet, busy, connection>>

\* Whatever came of the connection: socket.close(), and the loop goes on.
Close ==
    /\ task = "serve" /\ phase = "done"
    /\ task' = "accept"
    /\ UNCHANGED <<socket, quiet, busy, connection>>

-----------------------------------------------------------------------------
(* The connection.                                                          *)

\* Mutant of Read: traffic does not restart the socket's timer.
ReadQuietly ==
    /\ task = "serve" /\ socket # "idle"
    /\ Conn!ReadSome \/ (socket = "open" /\ Conn!ReadEof)
    /\ UNCHANGED <<task, socket, quiet, busy>>

\* read_request gets bytes, or the end of the stream, and may go on to the
\* handler, for which with_timeout starts.  A reset leaves what had arrived.
Read ==
    /\ task = "serve" /\ socket # "idle"
    /\ Conn!ReadSome \/ (socket = "open" /\ Conn!ReadEof)
    /\ quiet' = 0
    /\ UNCHANGED <<task, socket, busy>>

\* Mutant of Broken: an error passes for the end of the stream.
BrokenEnds ==
    /\ task = "serve" /\ socket # "open"
    /\ \/ phase = "read" /\ Conn!Return("Incomplete")
          /\ UNCHANGED <<wire, total, seen, handled, reply, written>>
       \/ Conn!WriteFails \/ Conn!Flush \/ Conn!FlushFails
    /\ UNCHANGED <<task, socket, quiet, busy>>

\* An await on an aborted socket is an error, but a flush need not be.
Broken ==
    /\ task = "serve" /\ socket # "open"
    /\ Conn!ReadFails \/ Conn!WriteFails \/ Conn!Flush \/ Conn!FlushFails
    /\ UNCHANGED <<task, socket, quiet, busy>>

\* The peer takes the response.
Respond ==
    /\ task = "serve" /\ socket = "open"
    /\ Conn!Write \/ Conn!Flush
    /\ quiet' = 0
    /\ UNCHANGED <<task, socket, busy>>

\* with_timeout: the handler comes to an end in time ...
HandlerAnswers ==
    /\ task = "serve"
    /\ Conn!HandlerReturns
    /\ UNCHANGED <<task, socket, quiet, busy>>

\* Mutant of HandlerTimesOut: no with_timeout around the handler.
HandlerTimesOutNever == FALSE /\ UNCHANGED vars

\* ... or is dropped where it stands, and the answer is a 408.
HandlerTimesOut ==
    /\ task = "serve" /\ busy >= HandlerTimeout
    /\ Conn!Serialise(TimeoutReply)
    /\ UNCHANGED <<task, socket, quiet, busy>>

-----------------------------------------------------------------------------
(* The network stack and time.                                              *)

PeerResets ==
    /\ task = "serve" /\ socket = "open" /\ phase # "done"
    /\ socket' = "reset"
    /\ UNCHANGED <<task, quiet, busy, connection>>

IdleAbort ==
    /\ task = "serve" /\ socket = "open" /\ phase # "done"
    /\ quiet >= ReadTimeout
    /\ socket' = "idle"
    /\ UNCHANGED <<task, quiet, busy, connection>>

\* No timer is overdue for a whole tick.
Tick ==
    /\ task = "serve" /\ phase # "done"
    /\ socket = "open" => quiet < ReadTimeout
    /\ phase = "handle" => busy < HandlerTimeout
    /\ busy' = IF phase = "handle" THEN busy + 1 ELSE busy
    /\ quiet' = IF socket = "open" THEN quiet + 1 ELSE quiet
    /\ UNCHANGED <<task, socket, connection>>

Loop == Accept \/ AcceptFails \/ Pause \/ Close
Serve == Read \/ Broken \/ Respond \/ HandlerAnswers \/ HandlerTimesOut
Stack == PeerResets \/ IdleAbort \/ Tick
Next == Loop \/ Serve \/ Stack

\* Timers fire and errors are reported; neither the peer nor the handler has
\* to do anything.
Fairness ==
    /\ WF_vars(Pause) /\ WF_vars(Close) /\ WF_vars(Broken)
    /\ WF_vars(HandlerTimesOut) /\ WF_vars(IdleAbort) /\ WF_vars(Tick)

Spec == Init /\ [][Next]_vars /\ Fairness
-----------------------------------------------------------------------------
(* Properties.                                                              *)

\* Every variable keeps to its type; a handler never runs past its limit.
TypeOK ==
    /\ task \in {"accept", "pause", "serve"}
    /\ socket \in {"open", "reset", "idle"}
    /\ quiet \in 0 .. ReadTimeout /\ busy \in 0 .. HandlerTimeout
    /\ Conn!TypeOK

\* Whatever the transport, the timers and the handler do, each connection goes
\* through the steps of ServiceContract, from an accept to the next.
ConnectionContract == [][Accept \/ Conn!Service!Next]_(Conn!Service!vars)

\* A peer that says nothing, or a handler that never returns, does not keep
\* serve() from listening again ("half-open peers cannot hold buffers forever").
KeepsListening == []<>(task = "accept")

\* The socket's timer does not abort the connection of a handler that keeps to
\* its own limit (handler_timeout: "Maximum time a request handler may run per
\* request"; when it is over the peer gets a 408).
HandlerMayUseItsTime == phase = "handle" => socket # "idle"

-----------------------------------------------------------------------------
(* The strengthening that makes HandlerMayUseItsTime inductive.             *)

\* The socket has been quiet for no longer than the handler runs.
TimersInStep ==
    /\ quiet \in Nat /\ busy \in 0 .. HandlerTimeout
    /\ phase = "read" => busy = 0
    /\ phase = "handle" /\ socket = "open" => quiet <= busy

IInv == HandlerMayUseItsTime /\ TimersInStep

\* The types, with what the connection has not done yet at its first awaits.
ConnectionTyped ==
    /\ Conn!TypeOK
    /\ phase = "read" => handled = 0
    /\ phase \in {"read", "handle"} => reply = 0 /\ written = 0

Typed == TypeOK /\ ConnectionTyped

\* Where the connection is tells what is still to be read, and whether it has a
\* result.
Tracked ==
    /\ phase = "read" => ~Conn!RequestComplete(wire, total)
    /\ phase # "done" => result = "pending"
=============================================================================
