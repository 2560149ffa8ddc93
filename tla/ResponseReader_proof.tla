------------------------ MODULE ResponseReader_proof ------------------------
(***************************************************************************)
(* ResponseReader, for every buffer, retry budget, request and answer: its *)
(* type invariant, the inductive invariant IInv, and what follows from it. *)
(***************************************************************************)
EXTENDS ResponseReader, TLAPS

\* The offsets of a message are natural numbers in their order (HttpWire).
LEMMA WireFacts ==
    ASSUME NEW w \in Wires
    PROVE  /\ w.head \in Nat /\ w.clen \in Nat /\ w.full \in Nat /\ w.sent \in Nat
           /\ 0 < w.head /\ w.head <= w.full
           /\ w.framing \in {"chunked", "length", "none"}
           /\ w.framing = "none" => w.full = w.sent \/ w.sent < w.head
           /\ w.framing = "length" => w.full \in {w.head, w.head + w.clen}
           /\ w.marks \subseteq Nat
  BY WiresAssumption DEF IsResponse, IsMessage

\* The chunks lie inside the message (HttpWire).
LEMMA ChunkFacts ==
    ASSUME NEW w \in Wires, NEW i \in DOMAIN w.chunks
    PROVE  /\ w.chunks[i].data \in Nat /\ w.chunks[i].end \in Nat
           /\ w.chunks[i].data <= w.chunks[i].end
           /\ w.chunks[i].end <= w.full
  BY WiresAssumption DEF IsResponse, IsMessage, IsLayout, IsChunk

\* dechunk and parse_resp deliver only bytes that were read.
LEMMA DeliveredWasRead ==
    ASSUME NEW w \in Wires, NEW n \in Nat
    PROVE  Delivered(w, n) \subseteq Bytes(0, n)
  <1>1. Bytes(w.head, n) \subseteq Bytes(0, n)
    BY WireFacts DEF Bytes
  <1>2. ChunkData(w, n) \subseteq Bytes(0, n)
    <2>1. SUFFICES ASSUME NEW i \in DOMAIN w.chunks, w.chunks[i].end <= n
                   PROVE  Bytes(w.chunks[i].data, w.chunks[i].end) \subseteq Bytes(0, n)
      BY DEF ChunkData
    <2>2. QED
      BY <2>1, ChunkFacts DEF Bytes
  <1>3. QED
    BY <1>1, <1>2 DEF Delivered

\* What decoding gives is an answer or a failure, of bytes that were read.
LEMMA DecodeType ==
    ASSUME NEW w \in Wires, NEW n \in Nat
    PROVE  /\ Decode(w, n).kind \in {"Ok", "Malformed", "Panic"}
           /\ Decode(w, n).body \subseteq Bytes(0, n)
  BY DeliveredWasRead DEF Decode, Answers, Fails

\* The checks after the loop answer only at a complete response or, with the
\* end of the stream, at one that declares no length.
LEMMA AfterLoopFacts ==
    ASSUME NEW w \in Wires, NEW n \in Nat, NEW eof \in BOOLEAN
    PROVE  /\ AfterLoop(w, n, eof).kind \in Failures \cup {"Ok"}
           /\ AfterLoop(w, n, eof).body \subseteq Bytes(0, n)
           /\ AfterLoop(w, n, eof).kind = "Ok" =>
                /\ AfterLoop(w, n, eof) = Decode(w, n)
                /\ \/ Complete(w, n)
                   \/ eof /\ ~DeclaresLength(w, n) /\ HeadersEnded(w, n)
  <1>1. CASE n = 0
    BY <1>1 DEF AfterLoop, Fails, Failures
  <1>2. CASE n > 0 /\ Complete(w, n)
    BY <1>2, DecodeType DEF AfterLoop, Failures
  <1>3. CASE n > 0 /\ ~Complete(w, n) /\ ~eof
    BY <1>3 DEF AfterLoop, Fails, Failures
  <1>4. CASE n > 0 /\ ~Complete(w, n) /\ eof
    <2>1. CASE DeclaresLength(w, n)
      BY <1>4, <2>1 DEF AfterLoop, Fails, Failures
    <2>2. CASE ~DeclaresLength(w, n)
      <3>1. AfterLoop(w, n, eof) = Decode(w, n)
        BY <1>4, <2>2 DEF AfterLoop
      <3>2. Decode(w, n).kind = "Ok" => HeadersEnded(w, n)
        BY DEF Decode, Fails
      <3>3. QED
        BY <1>4, <2>2, <3>1, <3>2, DecodeType DEF Failures
    <2>3. QED
      BY <2>1, <2>2
  <1>5. QED
    BY <1>1, <1>2, <1>3, <1>4
-----------------------------------------------------------------------------
(* The inductive invariant.                                                 *)

\* The states in which an exchange starts satisfy the inductive invariant.
LEMMA InitIInv == Init => IInv
  <1> SUFFICES ASSUME Init PROVE IInv
    OBVIOUS
  <1>1. TypeOK
    BY NumbersAssumption, RequestsAssumption, WireFacts
    DEF Init, TypeOK, Phases, Pending, Size, IsRequest, Bytes
  <1>2. InOrder /\ StoppedWell
    BY DEF Init, InOrder, StoppedWell, Pending
  <1>3. NoReadPastComplete /\ RetryAccounting
    BY NumbersAssumption DEF Init, NoReadPastComplete, RetryAccounting, Spent, Pending
  <1>4. QED
    BY <1>1, <1>2, <1>3 DEF IInv

\* A step that returns a failure before the first read.
LEMMA EarlyFailure ==
    ASSUME IInv, phase \in {"build", "head", "body", "flush"},
           NEW kind \in {"BufferOverflow", "TcpError", "NoResponse"},
           Return(Fails(kind)), written' \in 0 .. Size(request),
           UNCHANGED <<request, wire, total, retries, delays>>
    PROVE  IInv'
  <1>1. TypeOK'
    BY DEF IInv, TypeOK, Return, Fails, Phases, Failures, Size
  <1>2. InOrder' /\ StoppedWell' /\ NoReadPastComplete'
    BY DEF InOrder, StoppedWell, NoReadPastComplete, Return, Fails
  <1>3. RetryAccounting'
    BY NumbersAssumption
    DEF IInv, TypeOK, InOrder, RetryAccounting, Return, Fails, Spent
  <1>4. QED
    BY <1>1, <1>2, <1>3 DEF IInv

\* A step inside the writing of the request.
LEMMA WritingStep ==
    ASSUME IInv, BuildReq \/ WriteHead \/ WriteBody, phase' # "done"
    PROVE  IInv'
  <1>1. request \in Requests /\ IsRequest(request)
    BY RequestsAssumption DEF IInv, TypeOK
  <1>2. TypeOK'
    BY <1>1 DEF IInv, TypeOK, InOrder, BuildReq, WriteHead, WriteBody, Return,
                Phases, Size, IsRequest
  <1>3. InOrder'
    BY <1>1 DEF IInv, InOrder, BuildReq, WriteHead, WriteBody, Return, Size, IsRequest
  <1>4. StoppedWell' /\ NoReadPastComplete'
    BY DEF IInv, InOrder, StoppedWell, NoReadPastComplete, BuildReq, WriteHead,
           WriteBody, Return, Pending
  <1>5. RetryAccounting'
    BY NumbersAssumption DEF IInv, InOrder, RetryAccounting, BuildReq, WriteHead,
           WriteBody, Return, Spent, Pending
  <1>6. QED
    BY <1>2, <1>3, <1>4, <1>5 DEF IInv

\* A step that returns what the first n bytes decode to.
LEMMA Answering ==
    ASSUME IInv, phase = "read", NEW n \in total .. BufLen, n <= wire.sent,
           NEW eof \in BOOLEAN, eof => n = wire.sent,
           total' = n, Return(AfterLoop(wire, n, eof)),
           UNCHANGED <<request, wire, written, retries, delays>>
    PROVE  IInv'
  <1>0. /\ wire \in Wires /\ n \in Nat /\ wire.sent \in Nat
        /\ total \in Nat /\ BufLen \in Nat
    BY NumbersAssumption, WireFacts DEF IInv, TypeOK
  <1>1. TypeOK'
    <2>1. result'.body \subseteq Bytes(0, BufLen)
      BY <1>0, AfterLoopFacts DEF Return, Bytes
    <2>2. result'.kind \in Failures \cup {"Ok"}
      BY <1>0, AfterLoopFacts DEF Return
    <2>3. QED
      BY <1>0, <2>1, <2>2 DEF IInv, TypeOK, Return, Phases, Size
  <1>2. InOrder' /\ NoReadPastComplete'
    BY DEF InOrder, NoReadPastComplete, Return
  <1>3. StoppedWell'
    <2>1. AfterLoop(wire, n, eof).kind = "Ok" =>
            /\ AfterLoop(wire, n, eof) = Decode(wire, n)
            /\ \/ Complete(wire, n)
               \/ wire.framing = "none" /\ n = wire.sent
      BY <1>0, AfterLoopFacts DEF DeclaresLength
    <2>2. QED
      BY <2>1 DEF StoppedWell, Return
  <1>4. RetryAccounting'
    BY NumbersAssumption DEF IInv, TypeOK, RetryAccounting, Return, Spent
  <1>5. QED
    BY <1>1, <1>2, <1>3, <1>4 DEF IInv

\* A read that hands over bytes: the response is complete, or the loop goes
\* on, or the buffer is full.
LEMMA ReadSomeStep == ASSUME IInv, ReadSome PROVE IInv'
  <1>1. PICK n \in (total + 1) .. BufLen :
          /\ n <= wire.sent
          /\ total' = n
          /\ IF Complete(wire, n)
               THEN Return(Decode(wire, n))
               ELSE IF MoreToRead(n, retries)
                 THEN UNCHANGED <<phase, result>>
                 ELSE Return(AfterLoop(wire, n, FALSE))
    BY DEF ReadSome
  <1>2. total \in Nat /\ BufLen \in Nat /\ n \in Nat /\ n > 0 /\ n \in total .. BufLen
    BY NumbersAssumption DEF IInv, TypeOK
  <1>3. phase = "read" /\ UNCHANGED <<request, wire, written, retries, delays>>
    BY DEF ReadSome
  <1>4. CASE Complete(wire, n) \/ ~MoreToRead(n, retries)
    <2>1. Return(AfterLoop(wire, n, FALSE))
      BY <1>1, <1>2, <1>4 DEF AfterLoop
    <2>2. QED
      BY <1>1, <1>2, <1>3, <2>1, Answering
  <1>5. CASE ~Complete(wire, n) /\ MoreToRead(n, retries)
    <2>1. UNCHANGED <<phase, result>>
      BY <1>1, <1>5
    <2>2. TypeOK'
      BY <1>1, <1>2, <1>3, <2>1 DEF IInv, TypeOK, Size
    <2>3. InOrder' /\ NoReadPastComplete'
      BY <1>1, <1>3, <1>5, <2>1 DEF IInv, InOrder, NoReadPastComplete, MoreToRead, Size
    <2>4. StoppedWell' /\ RetryAccounting'
      BY <1>3, <2>1 DEF IInv, InOrder, StoppedWell, RetryAccounting, Spent, Pending
    <2>5. QED
      BY <2>2, <2>3, <2>4 DEF IInv
  <1>6. QED
    BY <1>4, <1>5

\* A read that fails: the exchange sleeps, or gives up.
LEMMA ReadFailsStep == ASSUME IInv, ReadFails PROVE IInv'
  <1>1. /\ phase = "read" /\ retries \in 1 .. MaxRetries /\ MaxRetries \in Nat
        /\ delays = Spent /\ result = Pending
        /\ MoreToRead(total, retries) /\ written = Size(request)
    BY NumbersAssumption
    DEF IInv, TypeOK, InOrder, RetryAccounting, ReadFails, MoreToRead
  <1>2. CASE retries' = 0
    <2>1. Return(Fails("TcpError"))
      BY <1>2 DEF ReadFails
    <2>2. TypeOK'
      BY <1>1, <1>2, <2>1 DEF IInv, TypeOK, ReadFails, Return, Fails, Failures, Phases, Size
    <2>3. InOrder' /\ NoReadPastComplete' /\ StoppedWell'
      BY <2>1 DEF InOrder, NoReadPastComplete, StoppedWell, Return, Fails
    <2>4. RetryAccounting'
      BY <1>1, <1>2, <2>1 DEF RetryAccounting, ReadFails, Return, Fails, Spent
    <2>5. QED
      BY <2>2, <2>3, <2>4 DEF IInv
  <1>3. CASE retries' # 0
    <2>1. phase' = "delay" /\ UNCHANGED result
      BY <1>3 DEF ReadFails
    <2>2. TypeOK'
      BY <1>1, <1>3, <2>1 DEF IInv, TypeOK, ReadFails, Phases, Size
    <2>3. InOrder' /\ NoReadPastComplete' /\ StoppedWell'
      BY <1>1, <1>3, <2>1
      DEF IInv, InOrder, NoReadPastComplete, StoppedWell, ReadFails, MoreToRead,
          Size, Pending
    <2>4. RetryAccounting'
      BY <1>1, <1>3, <2>1 DEF RetryAccounting, ReadFails, Spent, Pending
    <2>5. QED
      BY <2>2, <2>3, <2>4 DEF IInv
  <1>4. QED
    BY <1>2, <1>3

\* The end of the delay: the loop condition still holds.
LEMMA RetryDelayStep == ASSUME IInv, RetryDelay PROVE IInv'
  <1>1. /\ delays \in Nat /\ retries \in 1 .. MaxRetries /\ MaxRetries \in Nat
        /\ delays = Spent - 1 /\ result = Pending
    BY NumbersAssumption
    DEF IInv, TypeOK, InOrder, RetryAccounting, RetryDelay, MoreToRead
  <1>2. TypeOK'
    BY <1>1 DEF IInv, TypeOK, RetryDelay, Spent, Phases, Size
  <1>3. InOrder' /\ NoReadPastComplete' /\ StoppedWell'
    BY <1>1 DEF IInv, InOrder, NoReadPastComplete, StoppedWell, RetryDelay,
                MoreToRead, Size, Pending
  <1>4. RetryAccounting'
    BY <1>1 DEF RetryAccounting, RetryDelay, Spent, Pending
  <1>5. QED
    BY <1>2, <1>3, <1>4 DEF IInv

\* Every step keeps the inductive invariant.
LEMMA StepIInv == IInv /\ [Next]_vars => IInv'
  <1> SUFFICES ASSUME IInv, [Next]_vars PROVE IInv'
    OBVIOUS
  <1>1. written \in 0 .. Size(request) /\ request \in Requests /\ IsRequest(request)
    BY RequestsAssumption DEF IInv, TypeOK
  <1>2. CASE BuildReq
    <2>1. CASE Builds(request)
      BY <1>2, <2>1, WritingStep DEF BuildReq
    <2>2. CASE ~Builds(request)
      BY <1>1, <1>2, <2>2, EarlyFailure DEF BuildReq
    <2>3. QED
      BY <2>1, <2>2
  <1>3. CASE WriteHead \/ WriteBody
    BY <1>3, WritingStep DEF WriteHead, WriteBody
  <1>4. CASE Flush
    <2>1. CASE MoreToRead(0, MaxRetries)
      <3>1. TypeOK'
        BY <1>4, <2>1 DEF IInv, TypeOK, Flush, Phases, Size
      <3>2. InOrder' /\ StoppedWell' /\ RetryAccounting'
        BY <1>4, <2>1, NumbersAssumption
        DEF IInv, InOrder, StoppedWell, RetryAccounting, Flush, MoreToRead,
            Size, Spent, Pending
      <3>3. NoReadPastComplete'
        <4>1. wire \in Wires /\ total = 0
          BY <1>4 DEF IInv, TypeOK, InOrder, Flush
        <4>2. ~Complete(wire, total)
          BY <4>1, WireFacts DEF Complete, HeadersEnded
        <4>3. QED
          BY <1>4, <2>1, <4>2 DEF Flush, NoReadPastComplete
      <3>4. QED
        BY <3>1, <3>2, <3>3 DEF IInv
    <2>2. CASE ~MoreToRead(0, MaxRetries)
      BY <1>1, <1>4, <2>2, EarlyFailure DEF Flush, AfterLoop
    <2>3. QED
      BY <2>1, <2>2
  <1>5. CASE WriteFails
    <2>1. written' \in 0 .. Size(request)
      BY <1>1, <1>5 DEF WriteFails, Size, IsRequest
    <2>2. QED
      BY <1>5, <2>1, EarlyFailure DEF WriteFails
  <1>6. CASE FlushFails
    BY <1>1, <1>6, EarlyFailure DEF FlushFails
  <1>7. CASE ReadSome
    BY <1>7, ReadSomeStep
  <1>8. CASE ReadEof
    <2>1. total \in total .. BufLen /\ total <= wire.sent
      BY NumbersAssumption DEF IInv, TypeOK
    <2>2. QED
      BY <1>8, <2>1, Answering DEF ReadEof
  <1>9. CASE ReadFails
    BY <1>9, ReadFailsStep
  <1>10. CASE RetryDelay
    BY <1>10, RetryDelayStep
  <1>11. CASE UNCHANGED vars
    BY <1>11 DEF vars, IInv, TypeOK, InOrder, NoReadPastComplete, RetryAccounting,
                 StoppedWell, Spent, Size
  <1>12. QED
    BY <1>2, <1>3, <1>4, <1>5, <1>6, <1>7, <1>8, <1>9, <1>10, <1>11
    DEF Next, Exchange, Transport, Returned

\* IInv holds in every reachable state of every exchange.
THEOREM Inductive == Spec => []IInv
  BY InitIInv, StepIInv, PTL DEF Spec

-----------------------------------------------------------------------------
(* What follows.                                                            *)

\* The type invariant: in particular the reader never counts more bytes than
\* its buffer holds, and the retry counter never wraps below zero.
THEOREM TypeCorrect == Spec => []TypeOK
  BY Inductive, PTL DEF IInv

\* read_response never awaits bytes it does not need.
THEOREM NeverReadsPastComplete == Spec => []NoReadPastComplete
  BY Inductive, PTL DEF IInv

\* Retries and delays are counted for the response as a whole.
THEOREM RetriesAccounted == Spec => []RetryAccounting
  BY Inductive, PTL DEF IInv

\* A complete message with clean marks has all its chunks, and a success the
\* whole body: no cut of the stream makes read_response, dechunk and
\* parse_resp pass a truncated body for an answer.
LEMMA StoppedWellWhole == IInv => WholeBody
  <1> SUFFICES ASSUME IInv, result.kind = "Ok", CleanMarks(wire)
               PROVE  /\ Body(wire) \subseteq result.body
                      /\ wire.sent <= wire.full => result.body = Body(wire)
    BY DEF WholeBody
  <1>1. wire \in Wires /\ total \in Nat /\ total <= wire.sent
    BY NumbersAssumption DEF IInv, TypeOK
  <1>2. HeadersEnded(wire, total) /\ result.body = Delivered(wire, total)
    BY DEF IInv, StoppedWell, Decode, Fails, Answers
  <1>3. CASE wire.framing = "chunked"
    <2>1. PICK m \in wire.marks : m <= total
      BY <1>3 DEF IInv, StoppedWell, Complete
    <2>2. wire.full <= total
      BY <1>1, <1>3, <2>1, WireFacts DEF CleanMarks
    <2>3. \A i \in DOMAIN wire.chunks :
             wire.chunks[i].end <= wire.full /\ wire.chunks[i].end <= total
      BY <1>1, <2>2, ChunkFacts, WireFacts
    <2>4. ChunkData(wire, total) = ChunkData(wire, wire.full)
      BY <2>3 DEF ChunkData
    <2>5. QED
      BY <1>2, <1>3, <2>4 DEF Delivered, Body
  <1>4. CASE wire.framing = "length"
    <2>1. total - wire.head >= wire.clen
      BY <1>4 DEF IInv, StoppedWell, Complete
    <2>2. wire.full <= total
      BY <1>1, <1>4, <2>1, WireFacts
    <2>3. QED
      BY <1>1, <1>2, <1>4, <2>2, WireFacts DEF Delivered, Body, Bytes
  <1>5. CASE wire.framing = "none"
    <2>1. total = wire.sent
      BY <1>5 DEF IInv, StoppedWell, Complete
    <2>2. wire.full = total
      BY <1>1, <1>2, <1>5, <2>1, WireFacts DEF HeadersEnded
    <2>3. QED
      BY <1>2, <1>5, <2>2 DEF Delivered, Body
  <1>6. QED
    BY <1>1, <1>3, <1>4, <1>5, WireFacts

\* No success is a truncated body, for every answer, cut and buffer.
THEOREM NoSilentTruncation == Spec => []WholeBody
  BY Inductive, StoppedWellWhole, PTL

-----------------------------------------------------------------------------
(* The exchange implements its contract (CallContract), whatever the       *)
(* buffer, the retry budget and the cuts of the transport, when the        *)
(* messages of the peer are unambiguous.                                   *)

\* The contract's copy of HttpWire says what the reader's says.
LEMMA SameWire ==
    ASSUME NEW w, NEW n
    PROVE  /\ Promise!Delimited(w) = Delimited(w)
           /\ Promise!DechunkFails(w, n) = DechunkFails(w, n)
           /\ Promise!Body(w) = Body(w)
           /\ Promise!Bytes(w, n) = Bytes(w, n)
  BY DEF Promise!Delimited, Delimited, Promise!DechunkFails, DechunkFails,
         Promise!Body, Body, Promise!Bytes, Bytes, Promise!ChunkData, ChunkData,
         Promise!HeadersEnded, HeadersEnded

\* Beyond the end of a message nothing changes for dechunk.
LEMMA BeyondTheEnd ==
    ASSUME NEW w \in Wires, NEW n \in Nat, w.full <= n
    PROVE  /\ DechunkFails(w, n) <=> DechunkFails(w, w.full)
           /\ ChunkData(w, n) = ChunkData(w, w.full)
           /\ HeadersEnded(w, n)
  <1>1. \A i \in DOMAIN w.chunks :
          /\ w.chunks[i].data <= w.full /\ w.chunks[i].data <= n
          /\ w.chunks[i].end <= w.full /\ w.chunks[i].end <= n
    BY WireFacts, ChunkFacts
  <1>2. w.head <= n /\ w.head <= w.full
    BY WireFacts
  <1>3. QED
    BY <1>1, <1>2, WireFacts, ChunkFacts DEF DechunkFails, ChunkData, HeadersEnded

\* An unambiguous message whose end shows is complete exactly when the reader
\* has all of it.
LEMMA CompleteMeansWhole ==
    ASSUME NEW w \in Wires, Unambiguous(w), NEW n \in Nat, n <= w.sent
    PROVE  Complete(w, n) <=> Delimited(w) /\ w.full <= n
  <1>1. CASE w.framing = "chunked"
    BY <1>1, WireFacts DEF Unambiguous, Complete, Delimited, HeadersEnded
  <1>2. CASE w.framing = "length"
    BY <1>2, WireFacts DEF Unambiguous, Complete, Delimited, HeadersEnded
  <1>3. CASE w.framing = "none"
    BY <1>3 DEF Complete, Delimited
  <1>4. QED
    BY <1>1, <1>2, <1>3, WireFacts

\* Wherever the reader stops, what it returns is a verdict of the contract.
LEMMA VerdictReached ==
    ASSUME NEW w \in Wires, Unambiguous(w), BufLen > 0, MaxRetries > 0,
           NEW n \in 0 .. BufLen, n <= w.sent, NEW eof \in BOOLEAN,
           \/ Complete(w, n)
           \/ n = BufLen
           \/ (eof /\ w.closes /\ n = w.sent),
           eof => n < BufLen
    PROVE  AfterLoop(w, n, eof) \in Promise!Verdicts(w)
  <1>0. /\ BufLen \in Nat /\ n \in Nat /\ w.sent \in Nat /\ w.full \in Nat
        /\ w.head \in Nat /\ 0 < w.head /\ w.head <= w.full
        /\ w.framing \in {"chunked", "length", "none"}
        /\ BufLen # 0 /\ MaxRetries # 0
        /\ ~w.bare
    BY NumbersAssumption, WireFacts DEF Unambiguous
  <1>1. Complete(w, n) <=> Delimited(w) /\ w.full <= n
    BY <1>0, CompleteMeansWhole
  <1>2. CASE Complete(w, n)
    <2>1. Promise!Fits(w) /\ n > 0 /\ w.full <= n
      BY <1>0, <1>1, <1>2, SameWire DEF Promise!Fits
    <2>2. AfterLoop(w, n, eof) = Decode(w, n)
      BY <1>2, <2>1 DEF AfterLoop
    <2>3. /\ DechunkFails(w, n) <=> DechunkFails(w, w.full)
          /\ ChunkData(w, n) = ChunkData(w, w.full) /\ HeadersEnded(w, n)
      BY <1>0, <2>1, BeyondTheEnd
    <2>4. CASE Promise!Readable(w)
      <3>1. w.framing # "none"
        BY <1>2 DEF Complete
      <3>2. Decode(w, n) = [kind |-> "Ok", body |-> Promise!Carried(w, n)]
        BY <1>0, <2>3, <2>4, <3>1, SameWire
        DEF Decode, Answers, Delivered, Body, Promise!Carried, Promise!Readable
      <3>3. n \in { k \in w.full .. BufLen : k <= w.sent }
        BY <1>0, <2>1
      <3>4. QED
        BY <1>0, <2>1, <2>2, <2>4, <3>2, <3>3 DEF Promise!Verdicts
    <2>5. CASE ~Promise!Readable(w)
      BY <1>0, <2>1, <2>2, <2>3, <2>5, SameWire
      DEF Decode, Fails, Promise!Readable, Promise!Verdicts, Promise!Fails
    <2>6. QED
      BY <2>4, <2>5
  <1>3. CASE ~Complete(w, n) /\ ~eof
    <2>1. n = BufLen /\ AfterLoop(w, n, eof) = Fails("BufferOverflow")
      BY <1>0, <1>3 DEF AfterLoop
    <2>2. ~Promise!Fits(w) /\ w.sent >= BufLen
      BY <1>0, <1>1, <1>3, <2>1, SameWire DEF Promise!Fits
    <2>3. QED
      BY <1>0, <2>1, <2>2 DEF Promise!Verdicts, Promise!Fails, Fails
  <1>4. CASE ~Complete(w, n) /\ eof
    <2>1. n = w.sent /\ w.closes /\ ~(w.sent >= BufLen) /\ ~Promise!Fits(w)
      BY <1>0, <1>1, <1>4, SameWire DEF Promise!Fits
    <2>2. CASE n = 0
      BY <1>0, <2>1, <2>2 DEF AfterLoop, Promise!Verdicts, Promise!Fails, Fails
    <2>3. CASE n > 0 /\ DeclaresLength(w, n)
      <3>1. AfterLoop(w, n, eof) = Fails("Incomplete")
        BY <1>4, <2>3 DEF AfterLoop
      <3>2. w.framing # "none" /\ ~(w.sent < w.head) /\ w.sent # 0
        BY <1>0, <2>1, <2>3 DEF DeclaresLength, HeadersEnded
      <3>3. QED
        BY <1>0, <2>1, <3>1, <3>2 DEF Promise!Verdicts, Promise!Fails, Fails
    <2>4. CASE n > 0 /\ ~DeclaresLength(w, n) /\ n < w.head
      <3>1. AfterLoop(w, n, eof) = Fails("Malformed")
        BY <1>0, <1>4, <2>4 DEF AfterLoop, Decode, HeadersEnded
      <3>2. QED
        BY <1>0, <2>1, <2>4, <3>1 DEF Promise!Verdicts, Promise!Fails, Fails
    <2>5. CASE n > 0 /\ ~DeclaresLength(w, n) /\ ~(n < w.head)
      <3>1. AfterLoop(w, n, eof) = Decode(w, n)
        BY <1>4, <2>5 DEF AfterLoop
      <3>2. w.framing = "none" /\ w.full = w.sent /\ HeadersEnded(w, n)
        BY <1>0, <2>1, <2>5, WireFacts DEF DeclaresLength, HeadersEnded
      <3>3. CASE w.parses
        <4>1. Decode(w, n) = [kind |-> "Ok", body |-> Body(w)]
          BY <1>0, <2>1, <3>2, <3>3 DEF Decode, DechunkFails, Answers, Delivered, Body
        <4>2. QED
          BY <1>0, <2>1, <2>5, <3>1, <3>2, <3>3, <4>1, SameWire DEF Promise!Verdicts
      <3>4. CASE ~w.parses
        BY <1>0, <2>1, <2>5, <3>1, <3>2, <3>4
        DEF Decode, Promise!Verdicts, Promise!Fails, Fails
      <3>5. QED
        BY <3>3, <3>4
    <2>6. QED
      BY <1>0, <2>2, <2>3, <2>4, <2>5
  <1>5. QED
    BY <1>2, <1>3, <1>4

-----------------------------------------------------------------------------
(* The refinement: `asked' is how much of the request is written.           *)

\* The exchange starts where the contract starts.
LEMMA InitRefined == Init => Promise!Init
  BY RequestsAssumption DEF Init, Promise!Init, Pending, Promise!Pending, Asked

\* A step that returns from the read loop settles the contract.
LEMMA SettleRefined ==
    ASSUME IInv, Unambiguous(wire), phase = "read",
           NEW n \in total .. BufLen, n <= wire.sent, NEW eof \in BOOLEAN,
           \/ Complete(wire, n)
           \/ ~MoreToRead(n, retries)
           \/ (eof /\ wire.closes /\ n = wire.sent),
           eof => n = total,
           Return(AfterLoop(wire, n, eof)), UNCHANGED <<request, wire, written, retries>>
    PROVE  Promise!Settle
  <1>1. /\ wire \in Wires /\ BufLen \in Nat /\ MaxRetries \in Nat /\ total \in Nat
        /\ retries \in 0 .. MaxRetries
        /\ total < BufLen /\ retries > 0
        /\ written = Size(request) /\ result = Pending
    BY NumbersAssumption DEF IInv, TypeOK, InOrder, MoreToRead
  <1>2. BufLen > 0 /\ MaxRetries > 0 /\ n \in 0 .. BufLen
    BY <1>1
  <1>3. \/ Complete(wire, n)
        \/ n = BufLen
        \/ (eof /\ wire.closes /\ n = wire.sent)
    BY <1>1, <1>2 DEF MoreToRead
  <1>4. AfterLoop(wire, n, eof) \in Promise!Verdicts(wire)
    BY <1>1, <1>2, <1>3, VerdictReached
  <1>5. Asked = "all" /\ Asked' = Asked
    <2>1. Size(request) > 0
      BY RequestsAssumption DEF IInv, TypeOK, IsRequest, Size
    <2>2. QED
      BY <1>1, <2>1 DEF Asked, Size
  <1>6. QED
    BY <1>1, <1>4, <1>5 DEF Return, Promise!Settle, Pending, Promise!Pending

\* A transport failure, of a write, a flush or the last read, aborts.
LEMMA AbortRefined ==
    ASSUME IInv, phase # "done", Return(Fails("TcpError")),
           UNCHANGED <<request, wire>>,
           Asked' = Asked \/ (Asked = "nothing" /\ Asked' = "part")
    PROVE  Promise!Abort
  BY DEF IInv, InOrder, Return, Fails, Promise!Abort, Promise!Fails, Pending,
         Promise!Pending

\* Every step of the exchange is one of the contract's, or none.
LEMMA StepRefined ==
    ASSUME IInv, Unambiguous(wire), [Next]_vars
    PROVE  [Promise!Next]_(Promise!vars)
  <1>1. /\ request \in Requests /\ wire \in Wires
        /\ request.head \in Nat \ {0} /\ request.body \in Nat
        /\ written \in 0 .. Size(request) /\ Size(request) \in Nat
        /\ ~request.hasBody => request.body = 0
    BY RequestsAssumption DEF IInv, TypeOK, IsRequest, Size
  <1>2. CASE BuildReq
    <2>1. CASE Builds(request)
      BY <1>2, <2>1 DEF BuildReq, Promise!vars, Asked, Size
    <2>2. CASE ~Builds(request)
      <3>1. Asked = "nothing" /\ Asked' = Asked /\ result = Pending
        BY <1>2 DEF IInv, InOrder, BuildReq, Asked
      <3>2. Promise!Refuse
        BY <1>2, <2>2, <3>1
        DEF BuildReq, Return, Fails, Promise!Refuse, Promise!Fails, Pending,
            Promise!Pending
      <3>3. QED
        BY <3>2 DEF Promise!Next
    <2>3. QED
      BY <2>1, <2>2
  <1>3. CASE WriteHead \/ WriteBody
    <2>1. result = Pending /\ UNCHANGED <<request, wire, result>>
      BY <1>3 DEF IInv, InOrder, WriteHead, WriteBody
    <2>2. CASE Asked' = Asked
      BY <2>1, <2>2 DEF Promise!vars
    <2>3. CASE Asked' # Asked
      <3>1. Asked # "all" /\ Asked' \in {"part", "all"}
        BY <1>1, <1>3, <2>3 DEF IInv, InOrder, WriteHead, WriteBody, Asked, Size
      <3>2. Promise!Ask
        BY <2>1, <3>1 DEF Promise!Ask, Pending, Promise!Pending
      <3>3. QED
        BY <3>2 DEF Promise!Next
    <2>4. QED
      BY <2>2, <2>3
  <1>4. CASE Flush
    <2>1. CASE MoreToRead(0, MaxRetries)
      BY <1>4, <2>1 DEF Flush, Promise!vars, Asked, Size
    <2>2. CASE ~MoreToRead(0, MaxRetries)
      <3>1. BufLen = 0 \/ MaxRetries = 0
        BY <2>2, NumbersAssumption DEF MoreToRead
      <3>2. Return(Fails("NoResponse")) /\ UNCHANGED <<request, wire, written>>
        BY <1>4, <2>2 DEF Flush, AfterLoop
      <3>3. Asked = "all" /\ Asked' = Asked /\ result = Pending
        BY <1>1, <1>4 DEF IInv, InOrder, Flush, Asked, Size
      <3>4. Fails("NoResponse") \in Promise!Verdicts(wire)
        BY <3>1 DEF Promise!Verdicts, Promise!Fails, Fails
      <3>5. Promise!Settle
        BY <3>2, <3>3, <3>4 DEF Return, Promise!Settle, Pending, Promise!Pending
      <3>6. QED
        BY <3>5 DEF Promise!Next
    <2>3. QED
      BY <2>1, <2>2
  <1>5. CASE WriteFails
    <2>1. CASE phase = "head"
      <3>1. Asked' = Asked \/ (Asked = "nothing" /\ Asked' = "part")
        BY <1>1, <1>5, <2>1 DEF WriteFails, IInv, InOrder, Asked, Size
      <3>2. Promise!Abort
        BY <1>1, <1>5, <2>1, <3>1, AbortRefined DEF WriteFails
      <3>3. QED
        BY <3>2 DEF Promise!Next
    <2>2. CASE phase = "body"
      <3>1. Asked' = Asked
        BY <1>1, <1>5, <2>2 DEF WriteFails, IInv, InOrder, Asked, Size
      <3>2. Promise!Abort
        BY <1>1, <1>5, <2>2, <3>1, AbortRefined DEF WriteFails
      <3>3. QED
        BY <3>2 DEF Promise!Next
    <2>3. QED
      BY <1>5, <2>1, <2>2 DEF WriteFails
  <1>6. CASE FlushFails
    <2>1. Promise!Abort
      BY <1>6, AbortRefined DEF FlushFails, Asked, Size
    <2>2. QED
      BY <2>1 DEF Promise!Next
  <1>7. CASE ReadSome
    <2>1. PICK n \in (total + 1) .. BufLen :
            /\ n <= wire.sent
            /\ total' = n
            /\ IF Complete(wire, n)
                 THEN Return(Decode(wire, n))
                 ELSE IF MoreToRead(n, retries)
                   THEN UNCHANGED <<phase, result>>
                   ELSE Return(AfterLoop(wire, n, FALSE))
      BY <1>7 DEF ReadSome
    <2>2. n \in total .. BufLen /\ n # 0
      BY NumbersAssumption DEF IInv, TypeOK
    <2>3. phase = "read" /\ UNCHANGED <<request, wire, written, retries>>
      BY <1>7 DEF ReadSome
    <2>4. CASE Complete(wire, n) \/ ~MoreToRead(n, retries)
      <3>1. Return(AfterLoop(wire, n, FALSE))
        BY <2>1, <2>2, <2>4 DEF AfterLoop
      <3>2. Promise!Settle
        BY <2>1, <2>2, <2>3, <2>4, <3>1, SettleRefined
      <3>3. QED
        BY <3>2 DEF Promise!Next
    <2>5. CASE ~Complete(wire, n) /\ MoreToRead(n, retries)
      BY <2>1, <2>3, <2>5 DEF Promise!vars, Asked, Size
    <2>6. QED
      BY <2>4, <2>5
  <1>8. CASE ReadEof
    <2>1. total \in total .. BufLen /\ total <= wire.sent
      BY NumbersAssumption DEF IInv, TypeOK
    <2>2. Promise!Settle
      BY <1>8, <2>1, SettleRefined DEF ReadEof
    <2>3. QED
      BY <2>2 DEF Promise!Next
  <1>9. CASE ReadFails
    <2>1. CASE retries' = 0
      <3>1. Promise!Abort
        BY <1>9, <2>1, AbortRefined DEF ReadFails, Asked, Size
      <3>2. QED
        BY <3>1 DEF Promise!Next
    <2>2. CASE retries' # 0
      BY <1>9, <2>2 DEF ReadFails, Promise!vars, Asked, Size
    <2>3. QED
      BY <2>1, <2>2
  <1>10. CASE RetryDelay
    BY <1>10 DEF RetryDelay, Promise!vars, Asked, Size
  <1>11. CASE UNCHANGED vars
    BY <1>11 DEF vars, Promise!vars, Asked, Size
  <1>12. QED
    BY <1>2, <1>3, <1>4, <1>5, <1>6, <1>7, <1>8, <1>9, <1>10, <1>11
    DEF Next, Exchange, Transport, Returned

\* The peer's bytes decide the verdict (read_response, dechunk, parse_resp), and
\* the cuts do not, when nothing follows a message with a Content-Length.
THEOREM VerdictIsOne ==
    ASSUME NEW w \in Wires, w.framing # "length" \/ w.sent <= w.full,
           NEW r \in Promise!Verdicts(w), NEW s \in Promise!Verdicts(w)
    PROVE  r = s
  <1>1. CASE w.framing # "length"
    <2>1. \A n : Promise!Carried(w, n) = Promise!Body(w)
      BY <1>1 DEF Promise!Carried
    <2>2. QED
      BY <2>1 DEF Promise!Verdicts
  <1>2. CASE w.sent <= w.full
    <2>1. \A k \in w.full .. BufLen : k <= w.sent => k = w.full
      BY <1>2, WireFacts, NumbersAssumption
    <2>2. QED
      BY <2>1 DEF Promise!Verdicts
  <1>3. QED
    BY <1>1, <1>2

\* An exchange that refuses its request has sent nothing of it, one that answers
\* has sent all of it, and what it returns is a verdict on the bytes of the peer
\* (request_with_retry_delay, read_response).
THEOREM ExchangeKeepsPromise ==
    ASSUME \A w \in Wires : Unambiguous(w)
    PROVE  Spec => Contract
  <1>1. Init => Promise!Init
    BY InitRefined
  <1>2. IInv /\ [Next]_vars => [Promise!Next]_(Promise!vars)
    <2>1. IInv => Unambiguous(wire)
      BY DEF IInv, TypeOK
    <2>2. QED
      BY <2>1, StepRefined
  <1>3. QED
    BY <1>1, <1>2, Inductive, PTL DEF Spec, Contract, Promise!Spec
=============================================================================
