----------------------- MODULE ServerConnection_proof -----------------------
(***************************************************************************)
(* ServerConnection, for every request, buffer and response: the inductive *)
(* invariant, what follows from it, and the refinement of its contract.    *)
(***************************************************************************)
EXTENDS ServerConnection, TLAPS

\* The offsets of a request are natural numbers in their order (HttpWire).
LEMMA RequestFacts ==
    ASSUME NEW w \in Wires
    PROVE  /\ w.head \in Nat /\ w.clen \in Nat /\ w.full \in Nat /\ w.sent \in Nat
           /\ 0 < w.head /\ w.head <= w.full
           /\ w.clen <= MaxUsize
           /\ w.framing \in {"chunked", "length", "none"}
           /\ w.framing = "length" => w.full = w.head + w.clen
           /\ w.framing = "none" => w.full = w.head
           /\ w.parses \in BOOLEAN /\ w.closes \in BOOLEAN
  BY WiresAssumption DEF IsRequestMessage, IsMessage

\* The saturating sum of read_request: no buffer reaches usize::MAX, so the
\* test is exactly that the request is there, the headers of a chunked one.
LEMMA CompleteMeansThere ==
    ASSUME NEW w \in Wires, NEW n \in 0 .. BufLen
    PROVE  RequestComplete(w, n) <=> Awaited(w) <= n
  BY RequestFacts, SizesAssumption DEF RequestComplete, BodyEnd, HeadersEnded, Awaited

\* Nothing is complete before anything was read.
LEMMA NothingIncomplete == ASSUME NEW w \in Wires PROVE ~RequestComplete(w, 0)
  BY RequestFacts DEF RequestComplete, HeadersEnded

\* A connection starts in the inductive invariant.
LEMMA InitIInv == Init => IInv
  <1> SUFFICES ASSUME Init PROVE IInv
    OBVIOUS
  <1>1. TypeOK
    BY SizesAssumption, RequestFacts DEF Init, TypeOK, Phases, Bytes
  <1>2. InOrder /\ HandledWhenComplete
    BY NothingIncomplete DEF Init, InOrder, HandledWhenComplete
  <1>3. QED
    BY <1>1, <1>2 DEF IInv

\* A read that hands over bytes.
LEMMA ReadSomeStep == ASSUME IInv, ReadSome PROVE IInv'
  <1>1. PICK n \in (total + 1) .. BufLen :
          /\ n <= wire.sent
          /\ total' = n
          /\ IF RequestComplete(wire, n)
               THEN Parse(n)
               ELSE IF n < BufLen
                 THEN UNCHANGED <<phase, seen, handled, result>>
                 ELSE Return("BufferOverflow") /\ UNCHANGED <<seen, handled>>
    BY DEF ReadSome
  <1>2. /\ phase = "read" /\ UNCHANGED <<wire, reply, written>>
        /\ wire \in Wires /\ total \in Nat /\ BufLen \in Nat /\ n \in 0 .. BufLen
        /\ handled = 0 /\ reply = 0 /\ written = 0 /\ result = "pending"
        /\ seen \subseteq Bytes(0, BufLen) /\ ReplyLen \in Nat
        /\ wire.head \in Nat /\ wire.sent \in Nat
    BY SizesAssumption, RequestFacts DEF ReadSome, IInv, TypeOK, InOrder
  <1>3. CASE RequestComplete(wire, n) /\ wire.parses
    <2>1. /\ phase' = "handle" /\ handled' = 1 /\ UNCHANGED result
          /\ seen' = Bytes(wire.head, n)
      BY <1>1, <1>2, <1>3 DEF Parse
    <2>2. TypeOK'
      BY <1>1, <1>2, <2>1 DEF TypeOK, Phases, Bytes
    <2>3. InOrder' /\ HandledWhenComplete'
      BY <1>1, <1>2, <1>3, <2>1 DEF InOrder, HandledWhenComplete, RequestComplete,
                                    HeadersEnded, BodyEnd
    <2>4. QED
      BY <2>2, <2>3 DEF IInv
  <1>4. CASE ~RequestComplete(wire, n) /\ n < BufLen
    <2>1. UNCHANGED <<phase, seen, handled, result>>
      BY <1>1, <1>4
    <2>2. TypeOK'
      BY <1>1, <1>2, <2>1 DEF TypeOK, Phases
    <2>3. InOrder' /\ HandledWhenComplete'
      BY <1>1, <1>2, <1>4, <2>1 DEF InOrder, HandledWhenComplete, RequestComplete,
                                    HeadersEnded, BodyEnd
    <2>4. QED
      BY <2>2, <2>3 DEF IInv
  <1>5. CASE \/ RequestComplete(wire, n) /\ ~wire.parses
             \/ ~RequestComplete(wire, n) /\ ~(n < BufLen)
    <2>1. /\ phase' = "done" /\ result' \in Errors
          /\ UNCHANGED <<seen, handled>>
      BY <1>1, <1>5 DEF Parse, Return, Errors
    <2>2. TypeOK'
      BY <1>1, <1>2, <2>1 DEF TypeOK, Phases
    <2>3. InOrder' /\ HandledWhenComplete'
      BY <1>2, <2>1 DEF InOrder, HandledWhenComplete, Errors
    <2>4. QED
      BY <2>2, <2>3 DEF IInv
  <1>6. QED
    BY <1>3, <1>4, <1>5

\* A step that ends the connection and leaves the request alone.
LEMMA EndStep ==
    ASSUME IInv, phase # "done", NEW r \in Errors \cup {"Ok"}, Return(r),
           written' \in 0 .. reply,
           UNCHANGED <<wire, total, seen, handled, reply>>
    PROVE  IInv'
  <1>1. TypeOK'
    BY DEF IInv, TypeOK, Return, Phases
  <1>2. InOrder'
    BY DEF InOrder, Return, Errors
  <1>3. HandledWhenComplete'
    BY DEF IInv, HandledWhenComplete, RequestComplete, HeadersEnded, BodyEnd
  <1>4. QED
    BY <1>1, <1>2, <1>3 DEF IInv

\* Every step keeps the inductive invariant.
LEMMA StepIInv == IInv /\ [Next]_vars => IInv'
  <1> SUFFICES ASSUME IInv, [Next]_vars PROVE IInv'
    OBVIOUS
  <1>1. /\ written \in 0 .. reply /\ reply \in 0 .. ReplyLen /\ ReplyLen \in Nat
        /\ Replies \cup {ErrorReply} \subseteq Nat
    BY SizesAssumption DEF IInv, TypeOK
  <1>2. CASE ReadSome
    BY <1>2, ReadSomeStep
  <1>3. CASE ReadEof
    BY <1>1, <1>3, EndStep DEF ReadEof, Errors
  <1>4. CASE ReadFails
    BY <1>1, <1>4, EndStep DEF ReadFails, Errors
  <1>5. CASE HandlerReturns
    <2>1. PICK size \in Replies \cup {ErrorReply} :
            IF size <= ReplyLen
              THEN reply' = size /\ phase' = "write" /\ UNCHANGED result
              ELSE Return("BufferOverflow") /\ UNCHANGED reply
      BY <1>5 DEF HandlerReturns, Serialise
    <2>2. CASE size <= ReplyLen
      <3>1. TypeOK'
        BY <1>1, <1>5, <2>1, <2>2 DEF HandlerReturns, Serialise, IInv, TypeOK, InOrder, Phases
      <3>2. InOrder' /\ HandledWhenComplete'
        BY <1>5, <2>1, <2>2
        DEF HandlerReturns, Serialise, IInv, InOrder, HandledWhenComplete, RequestComplete,
            HeadersEnded, BodyEnd
      <3>3. QED
        BY <3>1, <3>2 DEF IInv
    <2>3. CASE ~(size <= ReplyLen)
      BY <1>1, <1>5, <2>1, <2>3, EndStep DEF HandlerReturns, Serialise, Errors
    <2>4. QED
      BY <2>2, <2>3
  <1>6. CASE Write
    <2>1. TypeOK'
      BY <1>1, <1>6 DEF Write, IInv, TypeOK, Phases
    <2>2. InOrder' /\ HandledWhenComplete'
      BY <1>6 DEF Write, IInv, InOrder, HandledWhenComplete, RequestComplete,
                  HeadersEnded, BodyEnd
    <2>3. QED
      BY <2>1, <2>2 DEF IInv
  <1>7. CASE WriteFails
    <2>1. written' \in 0 .. reply
      BY <1>1, <1>7 DEF WriteFails
    <2>2. QED
      BY <1>7, <2>1, EndStep DEF WriteFails, Errors
  <1>8. CASE Flush
    BY <1>1, <1>8, EndStep DEF Flush
  <1>9. CASE FlushFails
    BY <1>1, <1>9, EndStep DEF FlushFails, Errors
  <1>10. CASE UNCHANGED vars
    BY <1>10 DEF vars, IInv, TypeOK, InOrder, HandledWhenComplete, RequestComplete,
                 HeadersEnded, BodyEnd
  <1>11. QED
    BY <1>2, <1>3, <1>4, <1>5, <1>6, <1>7, <1>8, <1>9, <1>10
    DEF Next, Transport, Served

\* IInv holds in every reachable state of every connection.
THEOREM Inductive == Spec => []IInv
  BY InitIInv, StepIInv, PTL DEF Spec

\* The type invariant: the request buffer and the response never overflow.
THEOREM TypeCorrect == Spec => []TypeOK
  BY Inductive, PTL DEF IInv

\* The invariant says that a handled request is there whole.
LEMMA HandledWhole == IInv => WholeRequestHandled
  <1> SUFFICES ASSUME IInv, handled > 0, wire.framing # "chunked"
               PROVE  /\ Body(wire) \subseteq seen
                      /\ wire.sent <= wire.full => seen = Body(wire)
    BY DEF WholeRequestHandled
  <1>1. wire \in Wires /\ total \in 0 .. BufLen /\ total <= wire.sent
    BY DEF IInv, TypeOK
  <1>2. wire.full <= total /\ seen = Bytes(wire.head, total)
    BY <1>1, CompleteMeansThere DEF IInv, HandledWhenComplete, Awaited
  <1>3. Body(wire) = Bytes(wire.head, wire.full)
    BY DEF Body
  <1>4. QED
    BY <1>1, <1>2, <1>3, RequestFacts, SizesAssumption DEF Bytes

\* The handler never gets a request with a part of its body missing, for every
\* Content-Length a usize can hold (the saturating sum of read_request).
THEOREM HandlerGetsWholeRequest == Spec => []WholeRequestHandled
  BY Inductive, HandledWhole, PTL

\* The invariant says that a read is awaited only for a part of the request.
LEMMA ReadingIncomplete == IInv => NoReadPastRequest
  BY CompleteMeansThere, RequestFacts, SizesAssumption
  DEF Awaited, IInv, TypeOK, InOrder, NoReadPastRequest

\* read_request never awaits bytes it does not need.
THEOREM NeverReadsPastRequest == Spec => []NoReadPastRequest
  BY Inductive, ReadingIncomplete, PTL

-----------------------------------------------------------------------------
(* The refinement: the stage is told by the await, the error by the result. *)

\* Every step of a connection is one of its contract's, or none.
LEMMA StepRefined ==
    ASSUME IInv, [Next]_vars
    PROVE  [Service!Next]_(Service!vars)
  <1>1. /\ wire \in Wires /\ total \in 0 .. BufLen /\ total <= wire.sent
        /\ result \in Errors \cup {"pending", "Ok"} /\ phase \in Phases
        /\ Awaited(wire) \in Nat /\ wire.sent \in Nat /\ BufLen \in Nat
    BY SizesAssumption, RequestFacts DEF IInv, TypeOK, Awaited
  <1>2. phase # "done" => result = "pending"
    BY DEF IInv, InOrder
  <1>3. CASE ReadSome
    <2>1. PICK n \in (total + 1) .. BufLen :
            /\ n <= wire.sent
            /\ IF RequestComplete(wire, n)
                 THEN Parse(n)
                 ELSE IF n < BufLen
                   THEN UNCHANGED <<phase, seen, handled, result>>
                   ELSE Return("BufferOverflow") /\ UNCHANGED <<seen, handled>>
      BY <1>3 DEF ReadSome
    <2>2. /\ phase = "read" /\ result = "pending" /\ UNCHANGED wire
          /\ n \in 0 .. BufLen
          /\ RequestComplete(wire, n) <=> Awaited(wire) <= n
      BY <1>1, <1>2, <1>3, CompleteMeansThere DEF ReadSome
    <2>3. CASE RequestComplete(wire, n) /\ wire.parses
      <3>1. phase' = "handle" /\ UNCHANGED result
        BY <2>1, <2>3 DEF Parse
      <3>2. wire.sent >= Awaited(wire) /\ BufLen >= Awaited(wire)
        BY <1>1, <2>1, <2>2, <2>3
      <3>3. Service!Handle
        BY <2>2, <2>3, <3>1, <3>2 DEF Service!Handle, Service!Awaited, Awaited, Errors
      <3>4. QED
        BY <3>3 DEF Service!Next
    <2>4. CASE RequestComplete(wire, n) /\ ~wire.parses
      <3>1. phase' = "done" /\ result' = "Malformed"
        BY <2>1, <2>4 DEF Parse, Return
      <3>2. "Malformed" \in Service!Causes["reading"]
        BY <2>4 DEF Service!Causes
      <3>3. Service!Fail
        BY <2>2, <3>1, <3>2 DEF Service!Fail, Errors
      <3>4. QED
        BY <3>3 DEF Service!Next
    <2>5. CASE ~RequestComplete(wire, n) /\ n < BufLen
      BY <2>1, <2>2, <2>5 DEF Service!vars, Errors
    <2>6. CASE ~RequestComplete(wire, n) /\ ~(n < BufLen)
      <3>1. phase' = "done" /\ result' = "BufferOverflow"
        BY <2>1, <2>6 DEF Return
      <3>2. "BufferOverflow" \in Service!Causes["reading"]
        BY <1>1, <2>2, <2>6 DEF Service!Causes, Service!Awaited, Awaited
      <3>3. Service!Fail
        BY <2>2, <3>1, <3>2 DEF Service!Fail, Errors
      <3>4. QED
        BY <3>3 DEF Service!Next
    <2>7. QED
      BY <2>3, <2>4, <2>5, <2>6
  <1>4. CASE ReadEof
    <2>1. /\ phase = "read" /\ result = "pending" /\ UNCHANGED wire
          /\ phase' = "done" /\ result' = "Incomplete"
          /\ wire.closes /\ total = wire.sent
      BY <1>2, <1>4 DEF ReadEof, Return
    <2>2. wire.sent < Awaited(wire)
      BY <1>1, <2>1, CompleteMeansThere DEF IInv, InOrder
    <2>3. "Incomplete" \in Service!Causes["reading"]
      BY <2>1, <2>2 DEF Service!Causes, Service!Awaited, Awaited
    <2>4. Service!Fail
      BY <2>1, <2>3 DEF Service!Fail, Errors
    <2>5. QED
      BY <2>4 DEF Service!Next
  <1>5. CASE ReadFails
    <2>1. /\ phase = "read" /\ result = "pending" /\ UNCHANGED wire
          /\ phase' = "done" /\ result' = "TcpError"
      BY <1>2, <1>5 DEF ReadFails, Return
    <2>2. Service!Fail
      BY <2>1 DEF Service!Fail, Service!Causes, Errors
    <2>3. QED
      BY <2>2 DEF Service!Next
  <1>6. CASE HandlerReturns
    <2>1. /\ phase = "handle" /\ result = "pending" /\ UNCHANGED wire
          /\ \/ phase' = "write" /\ UNCHANGED result
             \/ phase' = "done" /\ result' = "BufferOverflow"
      BY <1>2, <1>6 DEF HandlerReturns, Serialise, Return
    <2>2. Service!Reply \/ Service!Fail
      BY <2>1 DEF Service!Reply, Service!Fail, Service!Causes, Errors
    <2>3. QED
      BY <2>2 DEF Service!Next
  <1>7. CASE Write
    BY <1>7 DEF Write, Service!vars
  <1>8. CASE WriteFails \/ FlushFails
    <2>1. /\ phase \in {"write", "flush"} /\ result = "pending" /\ UNCHANGED wire
          /\ phase' = "done" /\ result' = "TcpError"
      BY <1>2, <1>8 DEF WriteFails, FlushFails, Return
    <2>2. Service!Fail
      BY <2>1 DEF Service!Fail, Service!Causes, Errors
    <2>3. QED
      BY <2>2 DEF Service!Next
  <1>9. CASE Flush
    <2>1. /\ phase = "flush" /\ result = "pending" /\ UNCHANGED wire
          /\ phase' = "done" /\ result' = "Ok"
      BY <1>2, <1>9 DEF Flush, Return
    <2>2. Service!Serve
      BY <2>1 DEF Service!Serve, Errors
    <2>3. QED
      BY <2>2 DEF Service!Next
  <1>10. CASE UNCHANGED vars
    BY <1>10 DEF vars, Service!vars
  <1>11. QED
    BY <1>3, <1>4, <1>5, <1>6, <1>7, <1>8, <1>9, <1>10
    DEF Next, Transport, Served

\* A connection keeps its contract: the handler runs once at most, on what
\* there is to read of a request that fits, and each error of
\* handle_http_connection_with_sizes has its cause.
THEOREM ConnectionKeepsContract == Spec => Contract
  <1>1. Init => Service!Init
    BY DEF Init, Service!Init, Errors
  <1>2. IInv /\ [Next]_vars => [Service!Next]_(Service!vars)
    BY StepRefined
  <1>3. QED
    BY <1>1, <1>2, Inductive, PTL DEF Spec, Contract, Service!Spec
=============================================================================
