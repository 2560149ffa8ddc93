------------------------- MODULE EmbassyClient_proof -------------------------
(***************************************************************************)
(* EmbassyClient, for every set of requests and answers and every budget:  *)
(* an early error has sent nothing, and no error drops the connection.     *)
(***************************************************************************)
EXTENDS EmbassyClient, XorShift32, TLAPS

\* What an exchange comes to is none of the early errors.
LEMMA ExchangeErrors ==
    /\ \A e \in Client!Failures : Client!Fails(e).kind = e /\ e \notin EarlyErrors /\ e # "Ok"
    /\ \A w, n : Client!Decode(w, n).kind \in {"Ok", "Malformed", "Panic"}
    /\ \A w, n, eof : Client!AfterLoop(w, n, eof).kind \notin EarlyErrors
    /\ \A w : Client!AfterLoop(w, 0, FALSE).kind # "Ok"
  BY DEF Client!Failures, Client!Fails, Client!Answers, Client!Decode, Client!AfterLoop,
         EarlyErrors

\* What the steps of an exchange other than its reads do.
LEMMA RequestSteps ==
    ASSUME Client!BuildReq \/ Client!WriteHead \/ Client!WriteBody \/ Client!WriteFails
           \/ Client!Flush \/ Client!FlushFails
    PROVE  /\ phase \in {"build", "head", "body", "flush"}
           /\ phase' \in {"head", "body", "flush", "read", "done"}
           /\ phase' = "done" \/ result' = result
           /\ result' = result \/ (result'.kind # "Ok" /\ result'.kind \notin EarlyErrors)
           /\ UNCHANGED <<wire, total, delays>>
  BY ExchangeErrors
  DEF Client!BuildReq, Client!WriteHead, Client!WriteBody, Client!WriteFails,
      Client!Flush, Client!FlushFails, Client!Return, Client!Failures

\* What its reads do.
LEMMA ReadSomeStep ==
    ASSUME Counts, Client!ReadSome
    PROVE  /\ phase = "read" /\ phase' \in {"read", "done"}
           /\ phase' = "done" \/ result' = result
           /\ result' = result \/ result'.kind \notin EarlyErrors
           /\ total' \in Nat /\ total < total'
           /\ UNCHANGED <<wire, delays>>
  <1>1. PICK n \in (total + 1) .. BufLen :
           /\ total' = n
           /\ \/ UNCHANGED <<phase, result>>
              \/ phase' = "done" /\ result' = Client!Decode(wire, n)
              \/ phase' = "done" /\ result' = Client!AfterLoop(wire, n, FALSE)
    BY DEF Client!ReadSome, Client!Return
  <1>2. total' \in Nat /\ total < total'
    BY <1>1, NumbersAssumption DEF Counts
  <1>3. "Malformed" \notin EarlyErrors /\ "Panic" \notin EarlyErrors /\ "Ok" \notin EarlyErrors
    BY DEF EarlyErrors
  <1>4. phase = "read" /\ UNCHANGED <<wire, delays>>
    BY DEF Client!ReadSome
  <1>5. result' = result \/ result'.kind \notin EarlyErrors
    <2>1. Client!Decode(wire, n).kind \notin EarlyErrors
      BY <1>3, ExchangeErrors
    <2>2. Client!AfterLoop(wire, n, FALSE).kind \notin EarlyErrors
      BY ExchangeErrors
    <2>3. QED
      BY <1>1, <2>1, <2>2
  <1>6. QED
    BY <1>1, <1>2, <1>4, <1>5

LEMMA ReadSteps ==
    /\ Client!ReadEof =>
         /\ phase = "read" /\ phase' = "done" /\ UNCHANGED <<wire, total, delays>>
         /\ result'.kind \notin EarlyErrors
    /\ Client!ReadFails =>
         /\ phase = "read" /\ phase' \in {"delay", "done"}
         /\ phase' = "done" \/ result' = result
         /\ result' = result \/ (result'.kind # "Ok" /\ result'.kind \notin EarlyErrors)
         /\ UNCHANGED <<wire, total, delays>>
    /\ Client!RetryDelay =>
         phase = "delay" /\ phase' = "read" /\ UNCHANGED <<wire, total, result>>
  BY ExchangeErrors
  DEF Client!ReadEof, Client!ReadFails, Client!RetryDelay, Client!Return, Client!Failures

\* A call starts in the inductive invariant.
LEMMA InitIInv == Init => IInv
  <1> SUFFICES ASSUME Init PROVE IInv
    OBVIOUS
  <1>1. wire \in Wires /\ total = 0 /\ cut = wire.sent
    BY DEF Init, Client!Init
  <1>2. wire.sent \in Nat
    BY <1>1, WiresAssumption DEF IsResponse, IsMessage
  <1>3. /\ step = "call" /\ socket = "none" /\ phase = "build" /\ written = 0 /\ delays = 0
        /\ result = Client!Pending /\ answer = Client!Pending
    BY DEF Init, Client!Init
  <1>4. answer.kind = "pending" /\ result.kind = "pending"
    BY <1>3 DEF Client!Pending
  <1>5. Counts /\ total <= cut
    BY <1>1, <1>2 DEF Counts
  <1>6. QED
    BY <1>3, <1>4, <1>5
    DEF IInv, InOrder, WithinCut, SafeToRepeat, EarlyErrors

\* Neither the setup nor the teardown touches the exchange.
LEMMA AroundStep ==
    ASSUME IInv, Setup \/ Teardown PROVE IInv'
  <1>1. UNCHANGED exchange /\ UNCHANGED <<kind, network>>
    BY DEF Setup, Teardown, Dispatch, QueryA, QueryAaaa, Connect, Open, Fail,
           Leave, CloseTls, Pause
  <1>2. UNCHANGED <<wire, phase, written, total, delays, result, cut, fin, kind>>
    BY <1>1 DEF exchange, network
  <1>3. Counts' /\ WithinCut'
    BY <1>2 DEF IInv, Counts, WithinCut
  <1>4. CASE Setup
    <2>1. /\ step \notin {"exchange", "close", "pause", "returned"}
          /\ phase = "build" /\ written = 0 /\ delays = 0
      BY <1>4 DEF Setup, Dispatch, QueryA, QueryAaaa, Connect, Open, IInv, InOrder
    <2>2. \/ /\ step' \notin {"close", "pause", "returned"}
             /\ answer' = answer /\ socket' \in {socket, "open"}
          \/ step' = "returned"
      BY <1>4 DEF Setup, Dispatch, QueryA, QueryAaaa, Connect, Open, Fail, Give
    <2>3. InOrder' /\ SafeToRepeat'
      BY <1>2, <2>1, <2>2 DEF IInv, InOrder, SafeToRepeat
    <2>4. QED
      BY <1>3, <2>3 DEF IInv
  <1>5. CASE Teardown
    <2>1. step \in {"exchange", "close", "pause"} /\ phase = "done"
      BY <1>5 DEF Teardown, Leave, CloseTls, Pause, IInv, InOrder
    <2>2. \/ step' = "close" /\ UNCHANGED <<answer, socket>> /\ kind # "http"
          \/ /\ step' = "pause" /\ answer' = answer /\ kind # "stream"
             /\ socket' = IF kind = "http" THEN "closing" ELSE "gone"
          \/ step' = "returned" /\ answer' = result /\ socket' = "gone"
      BY <1>5 DEF Teardown, Leave, CloseTls, Pause, Give, IInv, InOrder
    <2>3. InOrder'
      <3>1. result'.kind \notin EarlyErrors
        BY <1>2, <2>1 DEF IInv, InOrder
      <3>2. phase' = "done" /\ step' \in {"close", "pause", "returned"}
        BY <1>2, <2>1, <2>2
      <3>3. step' # "returned" => answer' = Client!Pending
        BY <2>1, <2>2 DEF IInv, InOrder
      <3>4. socket' = "gone" => step' \in {"pause", "returned"}
        <4>1. step' = "close" => step = "exchange"
          BY <1>5 DEF Teardown, Leave, CloseTls, Pause, Give
        <4>2. QED
          BY <2>2, <4>1 DEF IInv, InOrder
      <3>5. QED
        BY <1>2, <2>2, <3>1, <3>2, <3>3, <3>4 DEF InOrder
    <2>4. answer'.kind \in EarlyErrors => written' = 0
      BY <1>2, <2>1, <2>2 DEF IInv, InOrder, SafeToRepeat
    <2>6. QED
      BY <1>2, <1>3, <2>2, <2>3, <2>4 DEF IInv, SafeToRepeat
  <1>6. QED
    BY <1>4, <1>5

\* What a step of the exchange may do to its own state.
LEMMA ExchangeFacts ==
    ASSUME IInv, Exchange
    PROVE  /\ phase # "done" /\ phase' # "build"
           /\ phase' = "done" \/ result' = result
           /\ result'.kind \notin EarlyErrors
           /\ wire' = wire /\ total' \in Nat
           /\ UNCHANGED <<kind, step, socket, cut, fin, answer>>
  <1>1. /\ UNCHANGED <<kind, step, socket, cut, fin, answer>>
        /\ result.kind \notin EarlyErrors /\ total \in Nat /\ Counts
    BY DEF Exchange, network, IInv, InOrder, Counts
  <1>2. \/ Client!BuildReq \/ Client!WriteHead \/ Client!WriteBody \/ Client!WriteFails
        \/ Client!Flush \/ Client!FlushFails
        \/ Client!ReadSome \/ Client!ReadEof \/ Client!ReadFails \/ Client!RetryDelay
    BY DEF Exchange, SocketIo, StreamIo, Live, Dead, TlsFails, Writes, Client!Transport
  <1>3. QED
    BY <1>1, <1>2, RequestSteps, ReadSomeStep, ReadSteps

\* A TcpSocket, and a TLS session on it, hands over what arrives and no more.
LEMMA ExchangeOnSocket ==
    ASSUME IInv, Exchange, kind # "stream" PROVE total' <= cut
  <1>1. total \in Nat /\ cut \in Nat /\ total <= cut
    BY DEF IInv, WithinCut, Counts
  <1>2. CASE \/ Client!BuildReq \/ Client!WriteHead \/ Client!WriteBody
             \/ Client!WriteFails \/ Client!Flush \/ Client!FlushFails
    BY <1>1, <1>2, RequestSteps
  <1>3. CASE Client!ReadSome /\ total' <= cut
    BY <1>3
  <1>4. CASE Client!ReadEof \/ Client!ReadFails \/ Client!RetryDelay
    BY <1>1, <1>4, ReadSteps
  <1>5. QED
    BY <1>2, <1>3, <1>4
    DEF Exchange, SocketIo, StreamIo, Live, Dead, TlsFails, Writes

\* Every step keeps the inductive invariant.
LEMMA StepIInv == IInv /\ [Next]_vars => IInv'
  <1> SUFFICES ASSUME IInv, [Next]_vars PROVE IInv'
    OBVIOUS
  <1>1. CASE Setup \/ Teardown
    BY <1>1, AroundStep
  <1>2. CASE Exchange
    <2>1. /\ step = "exchange" /\ phase # "done" /\ phase' # "build"
          /\ phase' = "done" \/ result' = result
          /\ result'.kind \notin EarlyErrors
          /\ UNCHANGED <<kind, wire, step, socket, cut, fin, answer>> /\ total' \in Nat
      BY <1>2, ExchangeFacts DEF Exchange
    <2>2. Counts'
      BY <2>1 DEF IInv, Counts
    <2>3. InOrder'
      BY <2>1 DEF IInv, InOrder
    <2>4. WithinCut'
      BY <1>2, <2>1, ExchangeOnSocket DEF WithinCut
    <2>5. SafeToRepeat'
      <3>1. answer.kind = "pending"
        BY <2>1 DEF IInv, InOrder, Client!Pending
      <3>2. QED
        BY <2>1, <3>1 DEF SafeToRepeat, EarlyErrors
    <2>6. QED
      BY <2>2, <2>3, <2>4, <2>5 DEF IInv
  <1>3. CASE Dies
    <2>1. /\ socket = "open" /\ socket' = "dead" /\ cut' \in total .. wire.sent
          /\ UNCHANGED <<kind, step, answer, wire, phase, written, total, delays, result>>
      BY <1>3 DEF Dies, exchange
    <2>2. wire.sent \in Nat /\ total \in Nat
      BY WiresAssumption DEF IInv, Counts, IsResponse, IsMessage
    <2>3. Counts' /\ total <= cut'
      BY <2>1, <2>2 DEF IInv, Counts
    <2>4. InOrder' /\ SafeToRepeat'
      BY <1>3, <2>1 DEF Dies, IInv, InOrder, SafeToRepeat
    <2>5. WithinCut'
      BY <2>1, <2>3 DEF WithinCut
    <2>6. QED
      BY <2>3, <2>4, <2>5 DEF IInv
  <1>4. CASE UNCHANGED vars
    BY <1>4 DEF vars, exchange, network, IInv, Counts, InOrder, WithinCut,
                SafeToRepeat
  <1>5. QED
    BY <1>1, <1>2, <1>3, <1>4 DEF Next, Returned

-----------------------------------------------------------------------------
(* The types.                                                               *)

\* The numbers of an exchange (HttpWire, ResponseReader).
LEMMA Numbers ==
    ASSUME ExchangeTyped
    PROVE  /\ request \in Requests /\ wire \in Wires
           /\ Client!IsRequest(request)
           /\ request.head \in Nat /\ request.body \in Nat
           /\ Client!Size(request) = request.head + request.body
           /\ wire.sent \in Nat /\ wire.head \in Nat
           /\ total \in Nat /\ BufLen \in Nat /\ total <= BufLen /\ total <= wire.sent
           /\ retries \in Nat /\ delays \in Nat /\ MaxRetries \in Nat
           /\ retries <= MaxRetries /\ delays <= MaxRetries
           /\ written \in 0 .. Client!Size(request)
  BY NumbersAssumption, RequestsAssumption, WiresAssumption
  DEF ExchangeTyped, Client!TypeOK, Client!IsRequest, Client!Size, IsResponse, IsMessage

\* What the reader returns has a body of bytes that were read.
LEMMA DecodeTyped ==
    ASSUME NEW w \in Wires, NEW n \in Nat, NEW eof \in BOOLEAN
    PROVE  /\ Client!Decode(w, n).body \subseteq Client!Bytes(0, n)
           /\ Client!Decode(w, n).kind \in Client!Failures \cup {"Ok"}
           /\ Client!AfterLoop(w, n, eof).body \subseteq Client!Bytes(0, n)
           /\ Client!AfterLoop(w, n, eof).kind \in Client!Failures \cup {"Ok"}
  <1>1. w.head \in Nat /\ IsMessage(w)
    BY WiresAssumption DEF IsResponse, IsMessage
  <1>2. Client!Bytes(w.head, n) \subseteq Client!Bytes(0, n)
    BY <1>1 DEF Client!Bytes
  <1>3. Client!ChunkData(w, n) \subseteq Client!Bytes(0, n)
    <2>1. SUFFICES ASSUME NEW i \in DOMAIN w.chunks, w.chunks[i].end <= n
                   PROVE  Client!Bytes(w.chunks[i].data, w.chunks[i].end) \subseteq Client!Bytes(0, n)
      BY DEF Client!ChunkData
    <2>2. w.chunks[i].data \in Nat /\ w.chunks[i].end \in Nat
      BY <1>1 DEF IsMessage, IsLayout, IsChunk
    <2>3. QED
      BY <2>1, <2>2 DEF Client!Bytes
  <1>4. Client!Delivered(w, n) \subseteq Client!Bytes(0, n)
    BY <1>2, <1>3 DEF Client!Delivered
  <1>5. /\ Client!Decode(w, n).body \subseteq Client!Bytes(0, n)
        /\ Client!Decode(w, n).kind \in {"Ok", "Malformed", "Panic"}
    BY <1>4 DEF Client!Decode, Client!Answers, Client!Fails
  <1>6. QED
    BY <1>5 DEF Client!AfterLoop, Client!Fails, Client!Failures

\* A step with which the exchange returns.
LEMMA Ends ==
    ASSUME ExchangeTyped, phase # "done", NEW r, Client!Return(r),
           r.kind \in Client!Failures \cup {"Ok"}, r.body \subseteq Client!Bytes(0, BufLen),
           written' \in 0 .. Client!Size(request),
           total' \in 0 .. BufLen, total' <= wire.sent,
           delays' = delays, delays = MaxRetries - retries, request' = request, wire' = wire,
           \/ retries' = retries /\ (retries > 0 \/ r.kind \in {"BufferOverflow", "NoResponse", "TcpError"})
           \/ retries = 1 /\ retries' = 0 /\ r.kind = "TcpError"
    PROVE  ExchangeTyped'
  <1> /\ request \in Requests /\ wire \in Wires
      /\ retries \in Nat /\ retries <= MaxRetries /\ MaxRetries \in Nat
      /\ delays \in Nat /\ delays <= MaxRetries /\ BufLen \in Nat
    BY Numbers
  <1>1. Client!TypeOK'
    <2>1. phase' = "done" /\ result' = r
      BY DEF Client!Return
    <2>2. retries' \in 0 .. MaxRetries /\ delays' \in 0 .. MaxRetries
      OBVIOUS
    <2>3. written' \in 0 .. Client!Size(request')
      OBVIOUS
    <2>4. QED
      BY <2>1, <2>2, <2>3 DEF Client!TypeOK, Client!Phases, Client!Bytes
  <1>2. Client!InOrder'
    BY DEF Client!InOrder, Client!Return
  <1>3. Client!RetryAccounting'
    BY Numbers DEF Client!RetryAccounting, Client!Return, Client!Spent
  <1>4. QED
    BY <1>1, <1>2, <1>3 DEF ExchangeTyped

\* The steps up to the flush.
LEMMA AskTyped ==
    ASSUME ExchangeTyped, Client!BuildReq \/ Client!WriteHead \/ Client!WriteBody
           \/ Client!WriteFails \/ Client!Flush \/ Client!FlushFails
    PROVE  ExchangeTyped'
  <1>1. /\ phase \in {"build", "head", "body", "flush"}
        /\ UNCHANGED <<request, wire, total, retries, delays>>
        /\ total = 0 /\ retries = MaxRetries /\ delays = 0
        /\ result = Client!Pending
    BY DEF ExchangeTyped, Client!InOrder, Client!BuildReq, Client!WriteHead,
           Client!WriteBody, Client!WriteFails, Client!Flush, Client!FlushFails
  <1>2. written' \in 0 .. Client!Size(request)
    <2>1. PICK n \in Int : n = Client!Size(request) /\ n \in Nat /\ request.head <= n
      BY Numbers DEF Client!Size
    <2>2. written \in 0 .. n /\ request.head \in Nat
      BY <2>1, Numbers
    <2>3. \/ written' = written \/ written' = request.head \/ written' = n
          \/ written' \in written .. (request.head - 1)
          \/ written' \in written .. (n - 1)
      BY <2>1 DEF Client!BuildReq, Client!WriteHead, Client!WriteBody, Client!WriteFails,
             Client!Flush, Client!FlushFails
    <2>4. QED
      BY <2>1, <2>2, <2>3
  <1>3. CASE phase' = "done"
    <2>1. PICK error \in {"BufferOverflow", "NoResponse", "TcpError"} :
             Client!Return(Client!Fails(error))
      BY <1>1, <1>3 DEF Client!BuildReq, Client!WriteHead, Client!WriteBody,
             Client!WriteFails, Client!Flush, Client!FlushFails, Client!AfterLoop
    <2>2. /\ Client!Fails(error).kind = error
          /\ Client!Fails(error).body \subseteq Client!Bytes(0, BufLen)
          /\ error \in Client!Failures
      BY DEF Client!Fails, Client!Failures
    <2>3. /\ total' \in 0 .. BufLen /\ total' <= wire.sent
          /\ delays = MaxRetries - retries
      BY <1>1, Numbers
    <2>4. QED
      BY <1>1, <1>2, <2>1, <2>2, <2>3, Ends
  <1>4. CASE phase' # "done"
    <2> DEFINE Reached(p) ==
          /\ p = "head" => written' = 0
          /\ p = "body" => request.hasBody /\ written' = request.head
          /\ p \in {"flush", "read"} => written' = Client!Size(request)
          /\ p = "read" => 0 < BufLen /\ MaxRetries > 0
    <2> ~(phase' = "done") /\ Client!InOrder
      BY <1>4 DEF ExchangeTyped
    <2>1. /\ phase' \in {"head", "body", "flush", "read"} /\ result' = result
          /\ Reached(phase')
      <3>1. CASE Client!BuildReq
        BY <3>1 DEF Client!BuildReq, Client!InOrder, Client!Return
      <3>2. CASE Client!WriteHead
        <4>1. ~request.hasBody => Client!Size(request) = request.head
          BY Numbers DEF Client!IsRequest, Client!Size
        <4>2. QED
          BY <3>2, <4>1 DEF Client!WriteHead
      <3>3. CASE Client!WriteBody
        BY <3>3 DEF Client!WriteBody
      <3>4. CASE Client!WriteFails \/ Client!FlushFails
        BY <3>4 DEF Client!WriteFails, Client!FlushFails, Client!Return
      <3>5. CASE Client!Flush
        BY <3>5 DEF Client!Flush, Client!InOrder, Client!Return, Client!MoreToRead
      <3>6. QED
        BY <3>1, <3>2, <3>3, <3>4, <3>5
    <2>2. Client!TypeOK'
      BY <1>1, <1>2, <2>1, Numbers
      DEF ExchangeTyped, Client!TypeOK, Client!Phases, Client!Size
    <2>3. Client!InOrder'
      BY <1>1, <2>1 DEF Client!InOrder, Client!MoreToRead, Client!Size
    <2>4. Client!RetryAccounting'
      BY <1>1, <2>1, Numbers DEF Client!RetryAccounting, Client!Spent, Client!Pending
    <2>5. QED
      BY <2>2, <2>3, <2>4 DEF ExchangeTyped
  <1>5. QED
    BY <1>3, <1>4

\* The reads and the delay.
LEMMA ReadTyped ==
    ASSUME ExchangeTyped, Client!ReadSome \/ Client!ReadEof
           \/ Client!ReadFails \/ Client!RetryDelay
    PROVE  ExchangeTyped'
  <1>1. /\ phase \in {"read", "delay"} /\ result = Client!Pending
        /\ written = Client!Size(request) /\ retries > 0
        /\ UNCHANGED <<request, wire, written>>
        /\ phase = "read" => delays = MaxRetries - retries
        /\ phase = "delay" => delays = MaxRetries - retries - 1
    BY Numbers
    DEF ExchangeTyped, Client!InOrder, Client!RetryAccounting, Client!MoreToRead,
        Client!Spent, Client!ReadSome, Client!ReadEof, Client!ReadFails, Client!RetryDelay
  <1>2. Client!MoreToRead(total, retries) /\ written' \in 0 .. Client!Size(request)
    BY <1>1, Numbers DEF ExchangeTyped, Client!InOrder
  <1>3. CASE Client!ReadSome \/ Client!ReadEof
    <2>1. phase = "read" /\ UNCHANGED <<retries, delays>>
      BY <1>3 DEF Client!ReadSome, Client!ReadEof
    <2>2. total' \in total .. BufLen /\ total' <= wire.sent
      <3>1. total \in Nat /\ total <= BufLen /\ BufLen \in Nat /\ wire.sent \in Nat
        BY Numbers
      <3>2. CASE Client!ReadSome
        <4>1. PICK n \in (total + 1) .. BufLen : n <= wire.sent /\ total' = n
          BY <3>2 DEF Client!ReadSome
        <4>2. QED
          BY <3>1, <4>1
      <3>3. CASE Client!ReadEof
        BY <3>1, <3>3 DEF Client!ReadEof
      <3>4. QED
        BY <1>3, <3>2, <3>3
    <2>3. total' \in Nat /\ total' \in 0 .. BufLen
      BY <2>2, Numbers
    <2>4. \/ UNCHANGED <<phase, result>> /\ Client!MoreToRead(total', retries)
          \/ Client!Return(Client!Decode(wire, total'))
          \/ \E eof \in BOOLEAN : Client!Return(Client!AfterLoop(wire, total', eof))
      BY <1>3 DEF Client!ReadSome, Client!ReadEof
    <2>5. CASE UNCHANGED <<phase, result>> /\ Client!MoreToRead(total', retries)
      <3>1. Client!TypeOK'
        BY <1>1, <2>1, <2>2, <2>3, <2>5 DEF ExchangeTyped, Client!TypeOK, Client!Size
      <3>2. Client!InOrder'
        BY <1>1, <2>1, <2>5
        DEF ExchangeTyped, Client!InOrder, Client!Size, Client!MoreToRead
      <3>3. Client!RetryAccounting'
        BY <2>1, <2>5 DEF ExchangeTyped, Client!RetryAccounting, Client!Spent
      <3>4. QED
        BY <3>1, <3>2, <3>3 DEF ExchangeTyped
    <2>6. ASSUME NEW r, Client!Return(r), r.kind \in Client!Failures \cup {"Ok"},
                 r.body \subseteq Client!Bytes(0, total')
          PROVE  ExchangeTyped'
      <3>1. r.body \subseteq Client!Bytes(0, BufLen)
        BY <2>2, <2>3, <2>6, Numbers DEF Client!Bytes
      <3>2. QED
        BY <1>1, <1>2, <2>1, <2>2, <2>3, <2>6, <3>1, Ends
    <2>7. QED
      BY <2>3, <2>4, <2>5, <2>6, DecodeTyped, Numbers
  <1>4. CASE Client!ReadFails
    <2>1. /\ phase = "read" /\ retries' = retries - 1 /\ UNCHANGED <<total, delays>>
          /\ IF retries' = 0
               THEN Client!Return(Client!Fails("TcpError"))
               ELSE phase' = "delay" /\ UNCHANGED result
      BY <1>4 DEF Client!ReadFails
    <2>2. CASE retries' = 0
      <3>1. /\ Client!Fails("TcpError").kind = "TcpError"
            /\ Client!Fails("TcpError").kind \in Client!Failures \cup {"Ok"}
            /\ Client!Fails("TcpError").body \subseteq Client!Bytes(0, BufLen)
        BY DEF Client!Fails, Client!Failures
      <3>2. retries = 1 /\ total' \in 0 .. BufLen /\ total' <= wire.sent
        BY <2>1, <2>2, Numbers
      <3>3. QED
        BY <1>1, <1>2, <2>1, <2>2, <3>1, <3>2, Ends
    <2>3. CASE retries' # 0
      <3>1. retries' \in 1 .. MaxRetries /\ delays' = MaxRetries - retries' - 1
        BY <1>1, <2>1, <2>3, Numbers
      <3>2. Client!TypeOK'
        BY <1>1, <2>1, <2>3, <3>1 DEF ExchangeTyped, Client!TypeOK, Client!Size, Client!Phases
      <3>3. Client!InOrder'
        BY <1>1, <1>2, <2>1, <2>3, <3>1 DEF Client!InOrder, Client!Size, Client!MoreToRead
      <3>4. Client!RetryAccounting'
        BY <1>1, <2>1, <2>3, <3>1, Numbers
        DEF Client!RetryAccounting, Client!Spent, Client!Pending
      <3>5. QED
        BY <3>2, <3>3, <3>4 DEF ExchangeTyped
    <2>4. QED
      BY <2>2, <2>3
  <1>5. CASE Client!RetryDelay
    <2>1. /\ phase = "delay" /\ phase' = "read" /\ delays' = delays + 1
          /\ UNCHANGED <<total, retries, result>>
      BY <1>5 DEF Client!RetryDelay
    <2>2. delays' \in 0 .. MaxRetries /\ delays' = MaxRetries - retries'
      BY <1>1, <2>1, Numbers
    <2>3. Client!TypeOK'
      BY <1>1, <2>1, <2>2 DEF ExchangeTyped, Client!TypeOK, Client!Size, Client!Phases
    <2>4. Client!InOrder'
      BY <1>1, <1>2, <2>1 DEF Client!InOrder, Client!Size, Client!MoreToRead
    <2>5. Client!RetryAccounting'
      BY <1>1, <2>1, <2>2, Numbers DEF Client!RetryAccounting, Client!Spent, Client!Pending
    <2>6. QED
      BY <2>3, <2>4, <2>5 DEF ExchangeTyped
  <1>6. QED
    BY <1>3, <1>4, <1>5

\* A call starts with its types.
LEMMA InitTyped == Init => Typed
  <1> SUFFICES ASSUME Init PROVE Typed
    OBVIOUS
  <1>1. /\ request \in Requests /\ wire \in Wires /\ phase = "build" /\ written = 0
        /\ total = 0 /\ retries = MaxRetries /\ delays = 0 /\ result = Client!Pending
    BY DEF Init, Client!Init
  <1>2. /\ wire.sent \in Nat /\ request.head \in Nat /\ request.body \in Nat
        /\ BufLen \in Nat /\ MaxRetries \in Nat
    BY <1>1, NumbersAssumption, RequestsAssumption, WiresAssumption
    DEF Client!IsRequest, IsResponse, IsMessage
  <1>3. Client!Pending.kind = "pending" /\ Client!Pending.body = {}
    BY DEF Client!Pending
  <1>4. Client!TypeOK
    BY <1>1, <1>2, <1>3 DEF Client!TypeOK, Client!Phases, Client!Size
  <1>5. Client!InOrder /\ Client!RetryAccounting
    BY <1>1, <1>2, <1>3 DEF Client!InOrder, Client!RetryAccounting, Client!Spent
  <1>6. cut = wire.sent /\ cut \in total .. wire.sent
    BY <1>1, <1>2 DEF Init
  <1>7. TypeOK
    BY <1>3, <1>4, <1>6 DEF Init, TypeOK, Steps
  <1>8. QED
    BY <1>4, <1>5, <1>6, <1>7 DEF Typed, ExchangeTyped

\* A step that leaves the exchange alone leaves its types.
LEMMA ExchangeUntouched ==
    ASSUME ExchangeTyped, UNCHANGED exchange PROVE ExchangeTyped'
  BY DEF exchange, ExchangeTyped, Client!TypeOK, Client!InOrder, Client!RetryAccounting,
         Client!Spent

\* Every step of the call keeps the types.
LEMMA StepTyped == IInv /\ Typed /\ [Next]_vars => Typed'
  <1> SUFFICES ASSUME IInv, Typed, [Next]_vars PROVE Typed'
    OBVIOUS
  <1> /\ TypeOK /\ ExchangeTyped
      /\ kind = "stream" => cut = wire.sent
    BY DEF Typed
  <1>1. CASE Setup \/ Teardown
    <2>1. UNCHANGED exchange /\ UNCHANGED <<kind, host, cut, fin>>
      BY <1>1 DEF Setup, Teardown, Dispatch, QueryA, QueryAaaa, Connect, Open, Fail,
             Leave, CloseTls, Pause, network
    <2>2. ExchangeTyped'
      BY <2>1, ExchangeUntouched
    <2>3. step' \in Steps /\ socket' \in {"none", "open", "dead", "closing", "gone"}
      BY <1>1 DEF TypeOK, Steps, Setup, Teardown, Dispatch, QueryA, QueryAaaa, Connect, Open,
             Fail, Give, Leave, CloseTls, Pause
    <2>4. \/ answer' = answer \/ answer' = result
          \/ \E e \in EarlyErrors : answer' = Client!Fails(e)
      BY <1>1 DEF Setup, Teardown, Dispatch, QueryA, QueryAaaa, Connect, Open,
             Fail, Give, Leave, CloseTls, Pause, EarlyErrors
    <2>5. answer'.kind \in EarlyErrors \cup Client!Failures \cup {"pending", "Ok"}
      BY <2>4 DEF TypeOK, ExchangeTyped, Client!TypeOK, Client!Fails
    <2>6. UNCHANGED <<wire, total>>
      BY <2>1 DEF exchange
    <2>7. QED
      BY <2>1, <2>2, <2>3, <2>5, <2>6 DEF Typed, TypeOK, ExchangeTyped
  <1>2. CASE Exchange
    <2>1. UNCHANGED <<kind, host, step, socket, cut, fin, answer>>
      BY <1>2 DEF Exchange, network
    <2>2. ExchangeTyped'
      BY <1>2, AskTyped, ReadTyped
      DEF Exchange, SocketIo, StreamIo, Live, Dead, TlsFails, Writes, Client!Transport
    <2>3. wire' = wire
      BY <1>2, ExchangeFacts
    <2>4. total' \in Nat /\ total' <= wire.sent /\ wire.sent \in Nat /\ cut \in Nat
      <3>1. total' \in Nat
        BY <1>2, ExchangeFacts
      <3>2. total' <= wire'.sent
        BY <2>2 DEF ExchangeTyped, Client!TypeOK
      <3>3. QED
        BY <2>3, <3>1, <3>2, Numbers DEF IInv, Counts
    <2>5. total' <= cut
      <3>1. IInv'
        BY StepIInv
      <3>2. CASE kind = "stream"
        BY <2>4, <3>2
      <3>3. CASE kind # "stream"
        BY <2>1, <3>1, <3>3 DEF IInv, WithinCut
      <3>4. QED
        BY <3>2, <3>3
    <2>6. cut' \in total' .. wire'.sent
      BY <2>1, <2>3, <2>4, <2>5 DEF TypeOK
    <2>7. QED
      BY <2>1, <2>2, <2>3, <2>6 DEF Typed, TypeOK, ExchangeTyped
  <1>3. CASE Dies
    <2>1. /\ UNCHANGED exchange /\ UNCHANGED <<kind, host, step, answer>>
          /\ socket' = "dead" /\ cut' \in total .. wire.sent /\ kind # "stream"
          /\ fin' \in {FALSE, wire.closes /\ cut' = wire.sent}
      BY <1>3 DEF Dies
    <2>2. ExchangeTyped'
      BY <2>1, ExchangeUntouched
    <2>3. fin' \in BOOLEAN
      <3>1. wire.closes \in BOOLEAN
        BY Numbers, WiresAssumption DEF IsResponse, IsMessage
      <3>2. QED
        BY <2>1, <3>1
    <2>4. UNCHANGED <<wire, total>>
      BY <2>1 DEF exchange
    <2>5. QED
      BY <2>1, <2>2, <2>3, <2>4 DEF Typed, TypeOK, ExchangeTyped
  <1>4. CASE UNCHANGED vars
    <2>1. UNCHANGED exchange /\ UNCHANGED <<kind, host, step, socket, cut, fin, answer>>
      BY <1>4 DEF vars, network
    <2>2. ExchangeTyped'
      BY <2>1, ExchangeUntouched
    <2>3. UNCHANGED <<wire, total>>
      BY <2>1 DEF exchange
    <2>4. QED
      BY <2>1, <2>2, <2>3 DEF Typed, TypeOK, ExchangeTyped
  <1>5. QED
    BY <1>1, <1>2, <1>3, <1>4 DEF Next, Returned

THEOREM Inductive == Spec => []IInv
  BY InitIInv, StepIInv, PTL DEF Spec

\* An error of the resolver, of connect or of the handshake means that the peer
\* has not seen the request; any other result is that of the exchange.
THEOREM EarlyErrorsAreSafe == Spec => []SafeToRepeat
  BY Inductive, PTL DEF IInv

\* Once bytes of a request have gone out, the connection is never dropped as it
\* is: over http it was closed and had its delay, else the TLS session was ended.
THEOREM EndsOrderly == Spec => OrderlyEnd
  <1>1. ASSUME IInv, [Next]_vars, socket' = "gone", socket # "gone", written > 0
        PROVE  IF kind = "http" THEN socket = "closing" /\ step = "pause" ELSE step = "close"
    <2>1. CASE Setup
      <3>1. phase = "build" /\ written = 0
        BY <1>1, <2>1
        DEF IInv, InOrder, Setup, Dispatch, QueryA, QueryAaaa, Connect, Open
      <3>2. QED
        BY <1>1, <3>1
    <2>2. CASE Exchange \/ Dies \/ Returned \/ UNCHANGED vars
      BY <1>1, <2>2 DEF Exchange, Dies, Returned, vars
    <2>3. CASE Leave
      BY <1>1, <2>3 DEF Leave
    <2>4. CASE CloseTls
      BY <1>1, <2>4 DEF CloseTls, IInv, InOrder
    <2>5. CASE Pause
      BY <1>1, <2>5 DEF Pause, Give, IInv, InOrder
    <2>6. QED
      BY <1>1, <2>1, <2>2, <2>3, <2>4, <2>5 DEF Next, Teardown
  <1>2. QED
    BY <1>1, Inductive, PTL DEF Spec, OrderlyEnd

\* Every variable keeps to its type: no exchange writes past its request or
\* reads past its buffer, and no socket hands over more than arrived on it.
THEOREM TypeCorrect == Spec => []TypeOK
  <1>1. Spec => [](IInv /\ Typed)
    BY InitIInv, InitTyped, StepIInv, StepTyped, PTL DEF Spec
  <1>2. Typed => TypeOK
    BY DEF Typed
  <1>3. QED
    BY <1>1, <1>2, PTL

-----------------------------------------------------------------------------
(* The generator of the handshake (XorShift32).                             *)

\* A shift never undoes itself: the word and its shift agree at every place
\* only when both are zero.  If they did, a one at i would mean a one at i - n
\* (or i + n), and so on past the end of the word.
LEMMA LeftBy13 == ASSUME NEW x, x \subseteq Places, x # {} PROVE Mixed13(x) # {}
  <1> SUFFICES ASSUME Mixed13(x) = {} PROVE FALSE
    OBVIOUS
  <1>1. \A i \in Places : i \in x <=> i - 13 \in x
    BY DEF Mixed13, Xor, ShiftedLeft, Places
  <1>2. PICK i \in Places : i \in x
    OBVIOUS
  <1>3. i - 13 \in x /\ i - 13 \in Places
    BY <1>1, <1>2
  <1>4. (i - 13) - 13 \in x /\ (i - 13) - 13 \in Places
    BY <1>1, <1>3
  <1>5. ((i - 13) - 13) - 13 \in Places
    BY <1>1, <1>4
  <1>6. QED
    BY <1>2, <1>5 DEF Places

LEMMA RightBy17 == ASSUME NEW x, x \subseteq Places, x # {} PROVE Mixed17(x) # {}
  <1> SUFFICES ASSUME Mixed17(x) = {} PROVE FALSE
    OBVIOUS
  <1>1. \A i \in Places : i \in x <=> i + 17 \in x
    BY DEF Mixed17, Xor, ShiftedRight, Places
  <1>2. PICK i \in Places : i \in x
    OBVIOUS
  <1>3. i + 17 \in x /\ i + 17 \in Places
    BY <1>1, <1>2
  <1>4. (i + 17) + 17 \in Places
    BY <1>1, <1>3
  <1>5. QED
    BY <1>2, <1>4 DEF Places

LEMMA LeftBy5 == ASSUME NEW x, x \subseteq Places, x # {} PROVE Mixed5(x) # {}
  <1> SUFFICES ASSUME Mixed5(x) = {} PROVE FALSE
    OBVIOUS
  <1>1. \A i \in Places : i \in x <=> i - 5 \in x
    BY DEF Mixed5, Xor, ShiftedLeft, Places
  <1>2. \A i \in x : i - 5 \in x /\ i \in 5 .. 31
    BY <1>1 DEF Places
  <1>3. \A i \in x : i \in 15 .. 31
    BY <1>2
  <1>4. \A i \in x : i \in 25 .. 31
    BY <1>2, <1>3
  <1>5. \A i \in x : i \in 30 .. 31
    BY <1>2, <1>4
  <1>6. QED
    BY <1>2, <1>5

\* The seed is not the state that XORShift32 never leaves, whatever the ticks,
\* and no draw leads to it (tls_seed, next_u32): it alone leads to itself.
THEOREM NeverAbsorbed ==
    /\ \A ticks : tls_seed(ticks) \subseteq Places /\ tls_seed(ticks) # {}
    /\ \A x \in SUBSET Places : next_u32(x) \subseteq Places /\ (next_u32(x) = {} <=> x = {})
  <1>1. ASSUME NEW ticks PROVE tls_seed(ticks) \subseteq Places /\ tls_seed(ticks) # {}
    BY DEF tls_seed, ZeroStateFallback, Places
  <1>2. ASSUME NEW x \in SUBSET Places
        PROVE  next_u32(x) \subseteq Places /\ (next_u32(x) = {} <=> x = {})
    <2>1. /\ Mixed13(x) \subseteq Places /\ Mixed17(Mixed13(x)) \subseteq Places
          /\ next_u32(x) \subseteq Places
      BY DEF Mixed13, Mixed17, Mixed5, next_u32, Xor
    <2>2. CASE x # {}
      <3>1. Mixed13(x) # {}
        BY <2>2, LeftBy13
      <3>2. Mixed17(Mixed13(x)) # {}
        BY <2>1, <3>1, RightBy17
      <3>3. next_u32(x) # {}
        BY <2>1, <3>2, LeftBy5 DEF next_u32
      <3>4. QED
        BY <2>1, <2>2, <3>3
    <2>3. CASE x = {}
      <3>1. Mixed13({}) = {} /\ Mixed17({}) = {} /\ Mixed5({}) = {}
        BY DEF Mixed13, Mixed17, Mixed5, Xor, ShiftedLeft, ShiftedRight
      <3>2. QED
        BY <2>1, <2>3, <3>1 DEF next_u32
    <2>4. QED
      BY <2>2, <2>3
  <1>3. QED
    BY <1>1, <1>2
=============================================================================
