---------------------------- MODULE EmbassyClient ----------------------------
(***************************************************************************)
(* One call of EmbassyHttpClient::request or of the methods named after    *)
(* the HTTP methods (client/embassy.rs), over http or https, and one of    *)
(* HttpTlsClient::request (client/tls.rs), over a stream of the caller's:  *)
(* the endpoint is parsed, the host resolved, the socket connected and the *)
(* TLS session opened; then comes the exchange of ResponseReader, and the  *)
(* connection is closed.                                                   *)
(*                                                                         *)
(* The socket of embassy-net, its resolver and the TLS session are         *)
(* external.  A socket that has been reset or that socket_timeout aborted  *)
(* hands over what had arrived, and then fails every read.  A TLS session  *)
(* on it may also fail by itself (a bad record, an alert), and the stream  *)
(* of HttpTlsClient as it likes; both may read on after an error.          *)
(***************************************************************************)
EXTENDS HttpWire

CONSTANTS
    Requests, Wires, RQ, LenLimit, BufLen, MaxRetries \* of ResponseReader

ASSUME NumbersAssumption == BufLen \in Nat /\ MaxRetries \in Nat
ASSUME WiresAssumption == \A w \in Wires : IsResponse(w)

VARIABLES
    kind,     \* "bad" endpoint, "http", "https", or "stream" for HttpTlsClient
    host,     \* the families of the addresses the host has
    step,     \* what the call awaits
    socket,   \* "none", "open", "dead", "closing" after close(), "gone" if dropped
    cut,      \* how much of the answer arrives
    fin,      \* whether a dead socket had received the peer's FIN
    answer,   \* what the caller gets
    request, wire, phase, written, total, retries, delays, result \* the exchange

exchange == <<request, wire, phase, written, total, retries, delays, result>>
network == <<cut, fin>>
vars == <<kind, host, step, socket, network, answer, exchange>>

Client == INSTANCE ResponseReader

ASSUME RequestsAssumption == \A r \in Requests : Client!IsRequest(r)

Kinds == {"bad", "http", "https", "stream"}
Steps == {"call", "A", "AAAA", "connect", "open", "exchange", "close", "pause", "returned"}

\* The errors of a call that got no further than connecting.
EarlyErrors == {"BadEndpoint", "DnsError", "IpAddressEmpty", "ConnectionError", "TlsError"}

Init ==
    /\ kind \in Kinds /\ host \in SUBSET {"v4", "v6"}
    /\ step = "call" /\ socket = "none"
    /\ Client!Init
    /\ cut = wire.sent /\ fin = FALSE
    /\ answer = Client!Pending

\* The call returns and drops its socket.
Give(a) == step' = "returned" /\ answer' = a /\ socket' = "gone"

\* An early return by `?'.
Fail(error) ==
    /\ Give(Client!Fails(error))
    /\ UNCHANGED <<kind, host, network, exchange>>

-----------------------------------------------------------------------------
(* Before the exchange.                                                     *)

\* parse_endpoint(endpoint)?, then one of the two paths; HttpTlsClient is given
\* its stream.
Dispatch ==
    /\ step = "call"
    /\ \/ kind = "bad" /\ Fail("BadEndpoint")
       \/ /\ kind # "bad"
          /\ step' = IF kind = "stream" THEN "open" ELSE "A"
          /\ UNCHANGED <<kind, host, socket, network, answer, exchange>>

\* resolve_host: the query may fail, or find no address of its family.
QueryA ==
    /\ step = "A"
    /\ step' = "AAAA" \/ ("v4" \in host /\ step' = "connect")
    /\ UNCHANGED <<kind, host, socket, network, answer, exchange>>

QueryAaaa ==
    /\ step = "AAAA"
    /\ \/ Fail("DnsError")
       \/ "v6" \notin host /\ Fail("IpAddressEmpty")
       \/ /\ "v6" \in host /\ step' = "connect"
          /\ UNCHANGED <<kind, host, socket, network, answer, exchange>>

Connect ==
    /\ step = "connect"
    /\ \/ Fail("ConnectionError")
       \/ /\ socket' = "open"
          /\ step' = IF kind = "https" THEN "open" ELSE "exchange"
          /\ UNCHANGED <<kind, host, network, answer, exchange>>

\* tls.open(...).await?
Open ==
    /\ step = "open"
    /\ \/ Fail("TlsError")
       \/ /\ socket' = "open" /\ step' = "exchange"
          /\ UNCHANGED <<kind, host, network, answer, exchange>>

-----------------------------------------------------------------------------
(* The exchange over the socket.                                            *)

Writes == Client!WriteHead \/ Client!WriteBody

\* Over a live socket nothing fails; a flush may find nothing left to send on
\* a dead one too.
Live == Writes \/ Client!Flush \/ Client!ReadEof
Dead ==
    \/ Client!WriteFails \/ Client!Flush \/ Client!FlushFails
    \/ total = cut /\ (IF fin THEN Client!ReadEof ELSE Client!ReadFails)

\* A TLS session fails by itself too, on a bad record or an alert.
TlsFails == kind = "https" /\ (Client!ReadFails \/ Client!WriteFails \/ Client!FlushFails)

\* The TcpSocket of the call, alone or under the TLS session.
SocketIo ==
    /\ kind # "stream"
    /\ \/ Client!ReadSome /\ total' <= cut
       \/ socket = "open" /\ Live
       \/ socket = "dead" /\ Dead
       \/ TlsFails

\* The stream of HttpTlsClient's caller.
StreamIo == kind = "stream" /\ (Writes \/ Client!Flush \/ Client!Transport)

\* request_with_retry_delay: build_req, the retry delay, and the stream.
Exchange ==
    /\ step = "exchange"
    /\ Client!BuildReq \/ Client!RetryDelay \/ SocketIo \/ StreamIo
    /\ UNCHANGED <<kind, host, step, socket, network, answer>>

\* Mutant of Dies: without set_timeout a peer that keeps silent is waited for.
DiesOfReset ==
    /\ step = "exchange" /\ socket = "open" /\ kind # "stream" /\ phase # "done"
    /\ IF wire.closes
         THEN /\ socket' = "dead" /\ cut' \in total .. wire.sent
              /\ fin' \in {FALSE, cut' = wire.sent}
              /\ UNCHANGED <<kind, host, step, answer, exchange>>
         ELSE UNCHANGED vars

\* The peer resets the connection, or is silent for socket_timeout.
Dies ==
    /\ step = "exchange" /\ socket = "open" /\ kind # "stream" /\ phase # "done"
    /\ socket' = "dead"
    /\ cut' \in total .. wire.sent
    /\ fin' \in {FALSE, wire.closes /\ cut' = wire.sent}
    /\ UNCHANGED <<kind, host, step, answer, exchange>>

-----------------------------------------------------------------------------
(* After the exchange.                                                      *)

\* Mutant of Leave: an error of the exchange is returned by `?'.
LeaveEarly ==
    /\ step = "exchange" /\ phase = "done"
    /\ IF result.kind = "Ok"
         THEN /\ step' = IF kind = "http" THEN "pause" ELSE "close"
              /\ socket' = IF kind = "http" THEN "closing" ELSE socket
              /\ UNCHANGED answer
         ELSE Give(result)
    /\ UNCHANGED <<kind, host, network, exchange>>

\* The result is kept: socket.close() and the close delay, or tls.close() to be
\* awaited.
Leave ==
    /\ step = "exchange" /\ phase = "done"
    /\ \/ kind = "http" /\ socket' = "closing" /\ step' = "pause"
       \/ kind # "http" /\ UNCHANGED socket /\ step' = "close"
    /\ UNCHANGED <<kind, host, network, answer, exchange>>

\* Mutant of CloseTls: its error is returned.
CloseTlsChecked ==
    /\ step = "close"
    /\ Fail("TlsError")

\* tls.close(), whose error is ignored.  It consumes the session, and the socket
\* that it gives back is dropped with its result, unclosed, before the delay.
CloseTls ==
    /\ step = "close"
    /\ IF kind = "stream"
         THEN Give(result)
         ELSE step' = "pause" /\ socket' = "gone" /\ UNCHANGED answer
    /\ UNCHANGED <<kind, host, network, exchange>>

\* The close delay, in which the stack sends the FIN of a socket that was closed.
Pause ==
    /\ step = "pause"
    /\ Give(result)
    /\ UNCHANGED <<kind, host, network, exchange>>

\* The call has returned.
Returned == step = "returned" /\ UNCHANGED vars

Setup == Dispatch \/ QueryA \/ QueryAaaa \/ Connect \/ Open
Teardown == Leave \/ CloseTls \/ Pause
Next == Setup \/ Exchange \/ Dies \/ Teardown \/ Returned

\* Every await is answered: resolver, connect and handshake have timeouts of
\* their own or that of the socket, and a socket that is silent dies.
Spec == Init /\ [][Next]_vars /\ WF_vars(Setup \/ Exchange \/ Dies \/ Teardown)
-----------------------------------------------------------------------------
(* Properties.                                                              *)

\* Every variable keeps to its type.
TypeOK ==
    /\ kind \in Kinds /\ host \subseteq {"v4", "v6"} /\ step \in Steps
    /\ socket \in {"none", "open", "dead", "closing", "gone"}
    /\ cut \in total .. wire.sent /\ fin \in BOOLEAN
    /\ answer.kind \in EarlyErrors \cup Client!Failures \cup {"pending", "Ok"}
    /\ Client!TypeOK

\* A call that fails with an error of the resolver, of connect or of the TLS
\* session (resolve_host, connect, tls.open) has sent nothing of its request:
\* the caller may repeat it, whatever the method.  An error of the close does
\* not pass for one of the handshake, nor hides what the exchange came to.
SafeToRepeat ==
    /\ answer.kind \in EarlyErrors => written = 0
    /\ step = "returned" /\ phase = "done" => answer = result

\* Once bytes of a request have gone out no error drops the connection as it is:
\* over http the socket is closed and given its delay before it is dropped, and a
\* TLS session is ended by tls.close(), whatever the exchange came to.
OrderlyEnd ==
    [][ socket' = "gone" /\ socket # "gone" /\ written > 0 =>
          IF kind = "http" THEN socket = "closing" /\ step = "pause"
                           ELSE step = "close" ]_vars

\* The call returns.
CallReturns == <>(step = "returned")

-----------------------------------------------------------------------------
(* The strengthening that makes the invariants above inductive.             *)

InOrder ==
    /\ step \notin {"exchange", "close", "pause", "returned"} => phase = "build"
    /\ step \in {"close", "pause"} => phase = "done"
    /\ step = "returned" => phase \in {"build", "done"}
    /\ phase = "build" => written = 0 /\ delays = 0
    /\ step # "returned" => answer = Client!Pending
    /\ phase # "done" => result = Client!Pending
    /\ result.kind \notin EarlyErrors
    /\ socket = "gone" => step \in {"pause", "returned"}
    /\ step = "close" => kind # "http"
    /\ step = "pause" =>
          kind # "stream" /\ socket = IF kind = "http" THEN "closing" ELSE "gone"

\* A socket hands over no more than arrives on it.
WithinCut == kind # "stream" => total <= cut

Counts == wire \in Wires /\ total \in Nat /\ cut \in Nat

IInv == Counts /\ InOrder /\ WithinCut /\ SafeToRepeat

\* The types, with what the exchange has done at each of its awaits; only the
\* socket of a call of the Embassy client dies.
ExchangeTyped == Client!TypeOK /\ Client!InOrder /\ Client!RetryAccounting
Typed == TypeOK /\ ExchangeTyped /\ (kind = "stream" => cut = wire.sent)
=============================================================================
