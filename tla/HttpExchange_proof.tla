------------------------- MODULE HttpExchange_proof -------------------------
(***************************************************************************)
(* HttpExchange, for every request, reply, buffer and width of the pipes:  *)
(* the inductive invariant, and the refinement of CallContract.            *)
(***************************************************************************)
EXTENDS HttpExchange, TLAPS

Errors == {"BufferOverflow", "TcpError", "NoResponse", "Incomplete", "Malformed"}

\* What the reader may return: an error, or the whole reply.
Sound(r) ==
    \/ r \in [kind : Errors, body : {{}}]
    \/ /\ reply > 0 /\ reply <= ClientBuf
       /\ r = [kind |-> "Ok", body |-> Bytes(ReplyHead, reply)]

\* The numbers the exchange is made of.
LEMMA Numbers ==
    ASSUME TypeOK
    PROVE  /\ request.head \in Nat \ {0} /\ request.body \in Nat
           /\ Client!Size(request) = request.head + request.body
           /\ ~request.hasBody => request.body = 0
           /\ request.hasBody \in BOOLEAN /\ request.parses \in BOOLEAN
           /\ ReplyHead \in Nat \ {0} /\ ReplyLen \in Nat /\ MaxUsize \in Nat
           /\ {ClientBuf, ServerBuf, MaxRetries, PipeCap} \subseteq Nat \ {0}
           /\ request.head + request.body <= MaxUsize
           /\ up \in Nat /\ stotal \in Nat /\ down \in Nat /\ ctotal \in Nat
           /\ stotal <= up /\ up <= request.head + request.body
           /\ ctotal <= down /\ down <= reply /\ reply \in Nat
           /\ retries \in Nat /\ delays \in Nat
  <1>1. request \in Requests /\ Client!Size(request) = request.head + request.body
    BY DEF TypeOK, Client!Size
  <1>2. /\ request.head \in Nat \ {0} /\ request.body \in Nat
        /\ ~request.hasBody => request.body = 0
        /\ request.hasBody \in BOOLEAN /\ request.parses \in BOOLEAN
    BY <1>1, ExchangeAssumption DEF Client!IsRequest
  <1>3. /\ ReplyHead \in Nat \ {0} /\ ReplyLen \in Nat /\ MaxUsize \in Nat
        /\ {ClientBuf, ServerBuf, MaxRetries, PipeCap} \subseteq Nat \ {0}
    BY ExchangeAssumption
  <1>4. request.head + request.body <= MaxUsize
    BY <1>1, SizesAssumption
  <1>5. /\ up \in 0 .. (request.head + request.body) /\ stotal \in 0 .. up
        /\ reply \in 0 .. ReplyLen /\ down \in 0 .. reply /\ ctotal \in 0 .. down
        /\ retries \in 0 .. MaxRetries /\ delays \in 0 .. MaxRetries
    BY <1>1 DEF TypeOK
  <1>6. QED
    BY <1>1, <1>2, <1>3, <1>4, <1>5

\* Whatever the reader has when it stops, it returns an error or the whole
\* reply: a declared length is waited for, and without one the reply is its
\* header block.
LEMMA SoundReader ==
    ASSUME IInv, NEW n \in 0 .. down, n <= ClientBuf, NEW eof \in BOOLEAN
    PROVE  /\ Sound(Client!AfterLoop(Replied, n, eof))
           /\ Client!Complete(Replied, n) => Sound(Client!Decode(Replied, n))
  <1>1. /\ ReplyHead \in Nat \ {0} /\ reply \in Nat /\ down \in Nat /\ down <= reply
        /\ n \in Nat /\ n <= reply
        /\ reply > 0 => reply >= ReplyHead
    BY Numbers DEF IInv, ServerInOrder
  <1>2. /\ Replied.head = ReplyHead /\ Replied.parses = TRUE /\ Replied.bare = FALSE
        /\ Replied.framing = IF reply > ReplyHead THEN "length" ELSE "none"
        /\ Replied.clen = IF reply > ReplyHead THEN reply - ReplyHead ELSE 0
    BY DEF Replied
  <1>3. ~Client!DechunkFails(Replied, n)
    BY <1>2 DEF Client!DechunkFails
  <1>4. /\ Client!HeadersEnded(Replied, n) <=> n >= ReplyHead
        /\ Client!Delivered(Replied, n) = Bytes(ReplyHead, n)
    BY <1>2 DEF Client!HeadersEnded, Client!Delivered, Client!Bytes, Bytes
  <1>5. /\ n < ReplyHead => Client!Decode(Replied, n) = Client!Fails("Malformed")
        /\ n >= ReplyHead =>
              Client!Decode(Replied, n) = [kind |-> "Ok", body |-> Bytes(ReplyHead, n)]
    BY <1>1, <1>2, <1>3, <1>4 DEF Client!Decode, Client!Answers
  <1>6. \A k \in Errors : Sound(Client!Fails(k))
    BY DEF Sound, Client!Fails
  <1>7. Client!Complete(Replied, n) => n = reply /\ n >= ReplyHead
    BY <1>1, <1>2, <1>4 DEF Client!Complete
  <1>8. Client!Complete(Replied, n) => Sound(Client!Decode(Replied, n))
    BY <1>1, <1>5, <1>7 DEF Sound
  <1>9. ASSUME ~Client!Complete(Replied, n), ~Client!DeclaresLength(Replied, n)
        PROVE  Sound(Client!Decode(Replied, n))
    <2>1. CASE n < ReplyHead
      BY <1>5, <1>6, <2>1 DEF Errors
    <2>2. CASE n >= ReplyHead
      <3>1. reply <= ReplyHead
        BY <1>2, <1>4, <1>9, <2>2, <1>1 DEF Client!DeclaresLength
      <3>2. n = reply /\ reply > 0
        BY <1>1, <2>2, <3>1
      <3>3. QED
        BY <1>5, <2>2, <3>2 DEF Sound
    <2>3. QED
      BY <1>1, <2>1, <2>2
  <1>10. Sound(Client!AfterLoop(Replied, n, eof))
    BY <1>6, <1>8, <1>9 DEF Client!AfterLoop, Errors
  <1>11. QED
    BY <1>8, <1>10

-----------------------------------------------------------------------------
(* The client.                                                              *)

\* A client that returns leaves everything else as it is.
LEMMA ClientReturns ==
    ASSUME IInv, cphase # "done", cphase' = "done", Sound(answer'),
           retries' \in 0 .. MaxRetries, ctotal' \in 0 .. down, ctotal' <= ClientBuf,
           down - ctotal' <= PipeCap,
           UNCHANGED <<request, up, delays, weather, csock, server, ssock>>
    PROVE  IInv'
  <1>1. /\ answer'.kind \in Errors \cup {"Ok"}
        /\ answer'.kind = "Ok" =>
              reply > 0 /\ reply <= ClientBuf /\ answer'.body = Bytes(ReplyHead, reply)
        /\ answer'.kind # "Ok" => answer'.body = {}
    BY DEF Sound, Errors
  <1>2. answer'.body \subseteq Bytes(0, ClientBuf)
    <2>1. ReplyHead \in Nat /\ reply \in Nat /\ ClientBuf \in Nat
      BY Numbers DEF IInv
    <2>2. reply <= ClientBuf => Bytes(ReplyHead, reply) \subseteq Bytes(0, ClientBuf)
      BY <2>1 DEF Bytes
    <2>3. QED
      BY <1>1, <2>2
  <1>3. TypeOK'
    BY <1>1, <1>2 DEF IInv, TypeOK, server, Errors, Client!Failures, Client!Phases
  <1>4. ClientInOrder'
    BY DEF ClientInOrder
  <1>5. ServerInOrder'
    BY DEF IInv, ServerInOrder, server
  <1>6. AnswerIsTheHandlers'
    BY <1>1 DEF IInv, ServerInOrder, AnswerIsTheHandlers, server
  <1>7. QED
    BY <1>3, <1>4, <1>5, <1>6 DEF IInv

\* The read loop: what it has read, or that it returns.
LEMMA ClientReads ==
    ASSUME IInv, UNCHANGED <<weather, csock, server, ssock>>,
           Client!ReadSome \/ Client!ReadEof
    PROVE  IInv'
  <1>1. /\ cphase = "read"
        /\ UNCHANGED <<request, up, retries, delays>>
        /\ \E n \in ctotal .. ClientBuf :
              /\ n <= down /\ ctotal' = n
              /\ \/ UNCHANGED <<cphase, answer>>
                    /\ Client!MoreToRead(n, retries)
                 \/ \E eof \in BOOLEAN :
                       cphase' = "done" /\ answer' = Client!AfterLoop(Replied, n, eof)
                 \/ /\ Client!Complete(Replied, n)
                    /\ cphase' = "done" /\ answer' = Client!Decode(Replied, n)
    <2>1. CASE Client!ReadSome
      <3>1. PICK n \in (ctotal + 1) .. ClientBuf :
              /\ n <= Replied.sent
              /\ ctotal' = n
              /\ IF Client!Complete(Replied, n)
                   THEN Client!Return(Client!Decode(Replied, n))
                   ELSE IF Client!MoreToRead(n, retries)
                     THEN UNCHANGED <<cphase, answer>>
                     ELSE Client!Return(Client!AfterLoop(Replied, n, FALSE))
        BY <2>1 DEF Client!ReadSome
      <3>2. n \in ctotal .. ClientBuf /\ n <= down
        BY <3>1, Numbers DEF IInv, Replied
      <3>3. QED
        BY <2>1, <3>1, <3>2 DEF Client!ReadSome, Client!Return
    <2>2. CASE Client!ReadEof
      <3>1. /\ cphase = "read" /\ ctotal' = ctotal
            /\ UNCHANGED <<request, up, retries, delays>>
            /\ cphase' = "done" /\ answer' = Client!AfterLoop(Replied, ctotal, TRUE)
        BY <2>2 DEF Client!ReadEof, Client!Return
      <3>2. ctotal \in ctotal .. ClientBuf /\ ctotal <= down
        BY Numbers DEF IInv, TypeOK
      <3>3. QED
        BY <3>1, <3>2
    <2>3. QED
      BY <2>1, <2>2
  <1>2. PICK n \in ctotal .. ClientBuf :
              /\ n <= down /\ ctotal' = n
              /\ \/ UNCHANGED <<cphase, answer>>
                    /\ Client!MoreToRead(n, retries)
                 \/ \E eof \in BOOLEAN :
                       cphase' = "done" /\ answer' = Client!AfterLoop(Replied, n, eof)
                 \/ /\ Client!Complete(Replied, n)
                    /\ cphase' = "done" /\ answer' = Client!Decode(Replied, n)
    BY <1>1
  <1>3. n \in 0 .. down /\ n <= ClientBuf /\ down - n <= PipeCap
    BY <1>2, Numbers DEF IInv, TypeOK
  <1>4. CASE UNCHANGED <<cphase, answer>>
    <2>1. TypeOK'
      BY <1>1, <1>2, <1>3, <1>4 DEF IInv, TypeOK, server
    <2>2. ClientInOrder'
      BY <1>1, <1>4 DEF IInv, ClientInOrder
    <2>3. ServerInOrder' /\ AnswerIsTheHandlers'
      BY <1>1, <1>4 DEF IInv, ServerInOrder, AnswerIsTheHandlers, server
    <2>4. QED
      BY <2>1, <2>2, <2>3 DEF IInv
  <1>5. CASE cphase' = "done" /\ Sound(answer')
    <2>1. retries' \in 0 .. MaxRetries
      BY <1>1 DEF IInv, TypeOK
    <2>2. QED
      BY <1>1, <1>2, <1>3, <1>5, <2>1, ClientReturns
  <1>6. QED
    BY <1>2, <1>3, <1>4, <1>5, SoundReader

\* Errors are sound returns.
LEMMA ErrorsSound == \A k \in Errors : Sound(Client!Fails(k))
  BY DEF Sound, Client!Fails

\* The client's steps keep the inductive invariant.
LEMMA ClientStepIInv == ASSUME IInv, ClientStep PROVE IInv'
  <1>1. UNCHANGED <<weather, csock, server, ssock>> /\ ClientMoves
    BY DEF ClientStep
  <1>2. /\ ctotal \in 0 .. down /\ ctotal <= ClientBuf /\ down - ctotal <= PipeCap
        /\ retries \in 0 .. MaxRetries
    BY DEF IInv, TypeOK
  <1>3. ASSUME cphase # "done", cphase' = "done", NEW k \in Errors,
               answer' = Client!Fails(k), retries' \in 0 .. MaxRetries,
               UNCHANGED <<request, up, ctotal, delays>>
        PROVE  IInv'
    BY <1>1, <1>2, <1>3, ErrorsSound, ClientReturns
  <1>4. ASSUME UNCHANGED <<request, ctotal, retries, answer>>,
               cphase \notin {"done", "read"},
               cphase' \in Client!Phases, up' \in up .. Client!Size(request),
               up' - stotal <= PipeCap, delays' \in 0 .. MaxRetries, ClientInOrder'
        PROVE  IInv'
    <2>1. up' \in 0 .. Client!Size(request) /\ stotal \in 0 .. up'
      BY <1>4, Numbers DEF IInv
    <2>2. TypeOK'
      BY <1>1, <1>4, <2>1 DEF IInv, TypeOK, server
    <2>3. ServerInOrder' /\ AnswerIsTheHandlers'
      BY <1>1, <1>4 DEF IInv, ServerInOrder, AnswerIsTheHandlers, server
    <2>4. QED
      BY <1>4, <2>2, <2>3 DEF IInv
  <1>5. CASE Client!BuildReq
    <2>1. CASE Client!Builds(request)
      <3>1. /\ cphase = "build" /\ cphase' = "head"
            /\ UNCHANGED <<request, up, ctotal, retries, delays, answer>>
        BY <1>5, <2>1 DEF Client!BuildReq
      <3>2. ClientInOrder'
        BY <3>1, Numbers DEF IInv, ClientInOrder
      <3>3. QED
        BY <1>4, <3>1, <3>2, Numbers DEF IInv, TypeOK, Client!Phases
    <2>2. CASE ~Client!Builds(request)
      BY <1>2, <1>3, <1>5, <2>2 DEF Client!BuildReq, Client!Return, Errors
    <2>3. QED
      BY <2>1, <2>2
  <1>6. CASE ClientWrites
    <2>1. PICK n \in (up + 1) .. Goal : n - stotal <= PipeCap /\ up' = n
      BY <1>6 DEF ClientWrites
    <2>2. /\ cphase \in {"head", "body"}
          /\ UNCHANGED <<request, cphase, ctotal, retries, delays, answer>>
      BY <1>6 DEF ClientWrites
    <2>3. ClientInOrder' /\ up' \in up .. Client!Size(request)
      BY <2>1, <2>2, Numbers DEF IInv, ClientInOrder, Goal
    <2>4. QED
      BY <1>4, <2>1, <2>2, <2>3 DEF IInv, TypeOK
  <1>7. CASE ClientWrote
    <2>1. /\ cphase \in {"head", "body"} /\ up' = up
          /\ cphase' = IF cphase = "head" /\ request.hasBody THEN "body" ELSE "flush"
          /\ UNCHANGED <<request, ctotal, retries, delays, answer>>
      BY <1>7 DEF ClientWrote, Goal, Client!WriteHead, Client!WriteBody
    <2>2. ClientInOrder'
      BY <1>7, <2>1, Numbers DEF IInv, ClientInOrder, ClientWrote, Goal
    <2>3. QED
      BY <1>4, <2>1, <2>2, Numbers DEF IInv, TypeOK, Client!Phases
  <1>8. CASE ClientWriteFails
    BY <1>2, <1>3, <1>8
    DEF ClientWriteFails, Client!WriteFails, Client!FlushFails, Client!Return, Errors
  <1>9. CASE Client!Flush
    <2>1. cphase = "flush" /\ UNCHANGED <<request, up, ctotal, retries, delays>>
      BY <1>9 DEF Client!Flush
    <2>2. CASE Client!MoreToRead(0, MaxRetries)
      <3>1. cphase' = "read" /\ answer' = answer
        BY <1>9, <2>2 DEF Client!Flush
      <3>2. ClientInOrder'
        BY <2>1, <3>1, Numbers DEF IInv, ClientInOrder
      <3>3. QED
        BY <1>4, <2>1, <3>1, <3>2, Numbers DEF IInv, TypeOK, Client!Phases
    <2>3. CASE ~Client!MoreToRead(0, MaxRetries)
      <3>1. cphase' = "done" /\ answer' = Client!Fails("NoResponse")
        BY <1>9, <2>3 DEF Client!Flush, Client!Return, Client!AfterLoop
      <3>2. QED
        BY <1>2, <1>3, <2>1, <3>1 DEF Errors
    <2>4. QED
      BY <2>2, <2>3
  <1>10. CASE Client!ReadSome \/ Client!ReadEof
    BY <1>1, <1>10, ClientReads
  <1>11. CASE ClientReadFails
    <2>1. /\ cphase = "read" /\ retries' = retries - 1
          /\ UNCHANGED <<request, up, ctotal, delays>>
          /\ IF retries' = 0
               THEN cphase' = "done" /\ answer' = Client!Fails("TcpError")
               ELSE cphase' = "delay" /\ UNCHANGED answer
      BY <1>11 DEF ClientReadFails, Client!ReadFails, Client!Return
    <2>2. retries > 0 /\ retries' \in 0 .. MaxRetries /\ delays = MaxRetries - retries
      BY <2>1, Numbers DEF IInv, ClientInOrder, TypeOK
    <2>3. CASE retries' = 0
      BY <1>3, <2>1, <2>2, <2>3 DEF Errors
    <2>4. CASE retries' # 0
      <3>1. cphase' = "delay" /\ UNCHANGED <<request, up, ctotal, delays, answer>>
        BY <2>1, <2>4
      <3>2. TypeOK'
        BY <1>1, <2>2, <3>1 DEF IInv, TypeOK, server, Client!Phases
      <3>3. ClientInOrder'
        BY <2>1, <2>2, <2>4, <3>1, Numbers DEF IInv, ClientInOrder
      <3>4. ServerInOrder' /\ AnswerIsTheHandlers'
        BY <1>1, <3>1 DEF IInv, ServerInOrder, AnswerIsTheHandlers, server
      <3>5. QED
        BY <3>2, <3>3, <3>4 DEF IInv
    <2>5. QED
      BY <2>3, <2>4
  <1>12. CASE Client!RetryDelay
    <2>1. /\ cphase = "delay" /\ cphase' = "read" /\ delays' = delays + 1
          /\ UNCHANGED <<request, up, ctotal, retries, answer>>
      BY <1>12 DEF Client!RetryDelay
    <2>2. ClientInOrder' /\ delays' \in 0 .. MaxRetries
      BY <2>1, Numbers DEF IInv, ClientInOrder
    <2>3. QED
      BY <1>4, <2>1, <2>2, Numbers DEF IInv, TypeOK, Client!Phases
  <1>13. QED
    BY <1>1, <1>5, <1>6, <1>7, <1>8, <1>9, <1>10, <1>11, <1>12 DEF ClientMoves

-----------------------------------------------------------------------------
(* The server.                                                              *)

\* What the handler gets of a request that is complete: all of it.
LEMMA CompleteMeansWhole ==
    ASSUME IInv, NEW n \in 0 .. up, Server!RequestComplete(Asked, n)
    PROVE  n = Client!Size(request)
  <1>1. /\ Asked.head = request.head /\ Asked.clen = request.body
        /\ Asked.framing = IF request.hasBody THEN "length" ELSE "none"
    BY DEF Asked
  <1>2. /\ n \in Nat /\ n <= request.head + request.body
        /\ request.head \in Nat /\ request.body \in Nat
        /\ ~request.hasBody => request.body = 0
        /\ request.head + request.body <= MaxUsize /\ MaxUsize \in Nat
        /\ Client!Size(request) = request.head + request.body
    BY Numbers DEF IInv
  <1>3. n >= request.head
    BY <1>1 DEF Server!RequestComplete, Server!HeadersEnded
  <1>4. request.hasBody => n >= request.head + request.body
    BY <1>1, <1>2 DEF Server!RequestComplete, Server!BodyEnd
  <1>5. QED
    BY <1>2, <1>3, <1>4

\* A server that returns has called no handler in doing so.
LEMMA ServerReturns ==
    ASSUME IInv, sphase # "done", sphase' = "done", verdict' \in Server!Errors \cup {"Ok"},
           stotal' \in 0 .. up, stotal' >= stotal, stotal' <= ServerBuf,
           handled = 0 \/ stotal' = stotal,
           UNCHANGED <<seen, handled, reply, down, weather, client, csock, ssock>>
    PROVE  IInv'
  <1>1. up - stotal' <= PipeCap
    BY Numbers DEF IInv, TypeOK
  <1>2. TypeOK'
    BY <1>1 DEF IInv, TypeOK, client, Server!Phases
  <1>3. ClientInOrder' /\ AnswerIsTheHandlers'
    BY DEF IInv, ClientInOrder, AnswerIsTheHandlers, client
  <1>4. ServerInOrder'
    BY Numbers DEF IInv, TypeOK, ServerInOrder, client
  <1>5. QED
    BY <1>2, <1>3, <1>4 DEF IInv

\* No answer comes before the handler was called.
LEMMA NoAnswerYet == ASSUME IInv, handled = 0 PROVE answer.kind # "Ok"
  BY DEF IInv, AnswerIsTheHandlers

\* A read that hands over bytes, and may call the handler.
LEMMA ServerReadsSome ==
    ASSUME IInv, UNCHANGED <<weather, client, csock, ssock>>, Server!ReadSome
    PROVE  IInv'
  <1>1. PICK n \in (stotal + 1) .. ServerBuf :
          /\ n <= Asked.sent
          /\ stotal' = n
          /\ IF Server!RequestComplete(Asked, n)
               THEN Server!Parse(n)
               ELSE IF n < ServerBuf
                 THEN UNCHANGED <<sphase, seen, handled, verdict>>
                 ELSE Server!Return("BufferOverflow") /\ UNCHANGED <<seen, handled>>
    BY DEF Server!ReadSome
  <1>2. /\ sphase = "read" /\ UNCHANGED <<reply, down>>
        /\ handled = 0 /\ reply = 0 /\ seen = {} /\ verdict \in Server!Errors \cup {"pending", "Ok"}
    BY DEF Server!ReadSome, IInv, ServerInOrder, TypeOK
  <1>3. /\ n \in Nat /\ stotal \in Nat /\ up \in Nat /\ PipeCap \in Nat /\ ServerBuf \in Nat
        /\ stotal < n /\ n <= up /\ n <= ServerBuf /\ up - n <= PipeCap
    BY <1>1, Numbers DEF IInv, TypeOK, Asked
  <1>4. ASSUME sphase' = "done", verdict' \in Server!Errors, UNCHANGED <<seen, handled>>
        PROVE  IInv'
    BY <1>1, <1>2, <1>3, <1>4, ServerReturns
  <1>5. CASE Server!RequestComplete(Asked, n)
    <2>1. CASE request.parses
      <3>1. /\ sphase' = "handle" /\ handled' = 1 /\ verdict' = verdict
            /\ seen' = Bytes(request.head, n)
        BY <1>1, <1>2, <1>5, <2>1 DEF Server!Parse, Asked, Server!Bytes, Bytes
      <3>2. n = Client!Size(request)
        BY <1>3, <1>5, CompleteMeansWhole
      <3>3. seen' \subseteq Bytes(0, ServerBuf)
        BY <1>3, <3>1, Numbers DEF IInv, Bytes
      <3>4. TypeOK'
        BY <1>1, <1>2, <1>3, <3>1, <3>3 DEF IInv, TypeOK, client, Server!Phases
      <3>5. ClientInOrder' /\ AnswerIsTheHandlers'
        BY <1>2, NoAnswerYet DEF IInv, ClientInOrder, AnswerIsTheHandlers, client
      <3>6. ServerInOrder'
        BY <1>1, <1>2, <2>1, <3>1, <3>2 DEF ServerInOrder, client
      <3>7. QED
        BY <3>4, <3>5, <3>6 DEF IInv
    <2>2. CASE ~request.parses
      BY <1>1, <1>4, <1>5, <2>2 DEF Server!Parse, Server!Return, Server!Errors, Asked
    <2>3. QED
      BY <2>1, <2>2
  <1>6. CASE ~Server!RequestComplete(Asked, n) /\ n < ServerBuf
    <2>1. UNCHANGED <<sphase, seen, handled, verdict>>
      BY <1>1, <1>6
    <2>2. TypeOK'
      BY <1>1, <1>2, <1>3, <2>1 DEF IInv, TypeOK, client
    <2>3. ClientInOrder' /\ ServerInOrder' /\ AnswerIsTheHandlers'
      BY <1>2, <2>1 DEF IInv, ClientInOrder, ServerInOrder, AnswerIsTheHandlers, client
    <2>4. QED
      BY <2>2, <2>3 DEF IInv
  <1>7. CASE ~Server!RequestComplete(Asked, n) /\ ~(n < ServerBuf)
    BY <1>1, <1>4, <1>7 DEF Server!Return, Server!Errors
  <1>8. QED
    BY <1>5, <1>6, <1>7

\* The handler's response is serialised, or does not fit.
LEMMA ServerSerialises ==
    ASSUME IInv, UNCHANGED <<weather, client, csock, ssock>>,
           NEW size \in Replies \cup {ErrorReply}, Server!Serialise(size)
    PROVE  IInv'
  <1>1. /\ sphase = "handle" /\ UNCHANGED <<stotal, seen, handled, down>>
        /\ handled = 1 /\ reply = 0 /\ down = 0 /\ ctotal = 0
        /\ stotal \in 0 .. up /\ stotal <= ServerBuf /\ stotal \in Nat
    BY Numbers DEF Server!Serialise, IInv, ServerInOrder, TypeOK
  <1>2. size \in Nat /\ size >= ReplyHead /\ size > 0
    BY ExchangeAssumption
  <1>3. CASE size <= ReplyLen
    <2>1. reply' = size /\ sphase' = "write" /\ verdict' = verdict
      BY <1>1, <1>3 DEF Server!Serialise
    <2>2. TypeOK'
      BY <1>1, <1>2, <1>3, <2>1, Numbers DEF IInv, TypeOK, client, Server!Phases
    <2>3. ServerInOrder'
      BY <1>1, <1>2, <2>1 DEF IInv, ServerInOrder, client
    <2>4. answer.kind # "Ok"
      \* what is returned as an answer has a header block in it
      BY <1>1 DEF IInv, ServerInOrder, AnswerIsTheHandlers
    <2>5. ClientInOrder' /\ AnswerIsTheHandlers'
      BY <2>4 DEF IInv, ClientInOrder, AnswerIsTheHandlers, client
    <2>6. QED
      BY <2>2, <2>3, <2>5 DEF IInv
  <1>4. CASE ~(size <= ReplyLen)
    BY <1>1, <1>4, ServerReturns DEF Server!Serialise, Server!Return, Server!Errors
  <1>5. QED
    BY <1>3, <1>4

\* The server's steps keep the inductive invariant.
LEMMA ServerStepIInv == ASSUME IInv, ServerStep PROVE IInv'
  <1>1. UNCHANGED <<weather, client, csock, ssock>> /\ ServerMoves
    BY DEF ServerStep
  <1>2. stotal \in 0 .. up /\ stotal <= ServerBuf /\ stotal >= stotal
    BY Numbers DEF IInv, TypeOK
  <1>3. CASE ServerReads
    <2>1. CASE Server!ReadSome
      BY <1>1, <2>1, ServerReadsSome
    <2>2. CASE Server!ReadEof
      BY <1>1, <1>2, <2>2, ServerReturns DEF Server!ReadEof, Server!Return, Server!Errors
    <2>3. QED
      BY <1>3, <2>1, <2>2 DEF ServerReads
  <1>4. CASE ServerReadFails
    BY <1>1, <1>2, <1>4, ServerReturns
    DEF ServerReadFails, Server!ReadFails, Server!Return, Server!Errors
  <1>5. CASE Server!HandlerReturns
    BY <1>1, <1>5, ServerSerialises DEF Server!HandlerReturns
  <1>6. CASE ServerWrites
    <2>1. PICK n \in (down + 1) .. reply : n - ctotal <= PipeCap /\ down' = n
      BY <1>6 DEF ServerWrites
    <2>2. UNCHANGED <<sphase, stotal, seen, handled, reply, verdict>>
      BY <1>6 DEF ServerWrites
    <2>3. down' \in 0 .. reply /\ ctotal \in 0 .. down'
      BY <2>1, Numbers DEF IInv
    <2>4. TypeOK'
      BY <1>1, <2>1, <2>2, <2>3 DEF IInv, TypeOK, client
    <2>5. ClientInOrder' /\ ServerInOrder' /\ AnswerIsTheHandlers'
      BY <1>1, <2>2 DEF IInv, ClientInOrder, ServerInOrder, AnswerIsTheHandlers, client
    <2>6. QED
      BY <2>4, <2>5 DEF IInv
  <1>7. CASE ServerWrote
    <2>1. /\ sphase = "write" /\ sphase' = "flush" /\ down' = down
          /\ UNCHANGED <<stotal, seen, handled, reply, verdict>>
      BY <1>7 DEF ServerWrote, Server!Write
    <2>2. TypeOK'
      BY <1>1, <2>1 DEF IInv, TypeOK, client, Server!Phases
    <2>3. ClientInOrder' /\ ServerInOrder' /\ AnswerIsTheHandlers'
      BY <1>1, <2>1 DEF IInv, ClientInOrder, ServerInOrder, AnswerIsTheHandlers, client
    <2>4. QED
      BY <2>2, <2>3 DEF IInv
  <1>8. CASE ServerWriteFails
    BY <1>1, <1>2, <1>8, ServerReturns
    DEF ServerWriteFails, Server!WriteFails, Server!FlushFails, Server!Return, Server!Errors
  <1>9. CASE Server!Flush
    BY <1>1, <1>2, <1>9, ServerReturns DEF Server!Flush, Server!Return
  <1>10. QED
    BY <1>1, <1>3, <1>4, <1>5, <1>6, <1>7, <1>8, <1>9 DEF ServerMoves

-----------------------------------------------------------------------------
(* The invariants.                                                          *)

\* An exchange starts in the inductive invariant.
LEMMA InitIInv == Init => IInv
  <1> SUFFICES ASSUME Init PROVE IInv
    OBVIOUS
  <1>1. /\ request \in Requests /\ request.head \in Nat /\ request.body \in Nat
        /\ {ClientBuf, ServerBuf, MaxRetries, PipeCap, ReplyLen} \subseteq Nat
        /\ MaxRetries > 0
    BY ExchangeAssumption DEF Init, Client!IsRequest
  <1>2. Client!Size(request) \in Nat
    BY <1>1 DEF Client!Size
  <1>3. TypeOK
    BY <1>1, <1>2
    DEF Init, TypeOK, Client!Phases, Server!Phases, Client!Failures, Server!Errors,
        Client!Pending
  <1>4. ClientInOrder
    BY <1>1 DEF Init, ClientInOrder
  <1>5. ServerInOrder /\ AnswerIsTheHandlers
    BY DEF Init, ServerInOrder, AnswerIsTheHandlers, Client!Pending
  <1>6. QED
    BY <1>3, <1>4, <1>5 DEF IInv

\* Every step keeps it: a step of one side, a departure, or none.
LEMMA StepIInv == IInv /\ [Next]_vars => IInv'
  <1> SUFFICES ASSUME IInv, [Next]_vars PROVE IInv'
    OBVIOUS
  <1>1. ASSUME UNCHANGED <<weather, client, server>>,
               csock' \in {"open", "closed", "dead"}, ssock' \in {"open", "closed", "gone"}
        PROVE  IInv'
    <2>1. TypeOK'
      BY <1>1 DEF IInv, TypeOK, client, server
    <2>2. ClientInOrder' /\ ServerInOrder' /\ AnswerIsTheHandlers'
      BY <1>1 DEF IInv, ClientInOrder, ServerInOrder, AnswerIsTheHandlers, client, server
    <2>3. QED
      BY <2>1, <2>2 DEF IInv
  <1>2. csock \in {"open", "closed", "dead"} /\ ssock \in {"open", "closed", "gone"}
    BY DEF IInv, TypeOK
  <1>3. CASE ClientStep
    BY <1>3, ClientStepIInv
  <1>4. CASE ServerStep
    BY <1>4, ServerStepIInv
  <1>5. CASE ClientLeaves \/ ServerLeaves
    BY <1>1, <1>2, <1>5 DEF ClientLeaves, ServerLeaves
  <1>6. CASE UNCHANGED vars
    BY <1>1, <1>2, <1>6 DEF vars
  <1>7. QED
    BY <1>3, <1>4, <1>5, <1>6 DEF Next

\* Neither pipe ever holds more than it can, whoever is faster, and nothing is
\* read that was not written (write_all and the read loops of both sides).
THEOREM TypeCorrect == Spec => []TypeOK
  <1>1. IInv => TypeOK
    BY DEF IInv
  <1>2. QED
    BY <1>1, InitIInv, StepIInv, PTL DEF Spec

\* For all sizes: a call that is answered was answered by the one run of the
\* handler on the whole request, with all of its reply.
THEOREM AnswersAreTheHandlers == Spec => []AnswerIsTheHandlers
  <1>1. IInv => AnswerIsTheHandlers
    BY DEF IInv
  <1>2. QED
    BY <1>1, InitIInv, StepIInv, PTL DEF Spec

-----------------------------------------------------------------------------
(* The refinement.                                                          *)

\* What a step of the client returns, if it returns.
LEMMA ReturnsSound ==
    ASSUME IInv, ClientStep
    PROVE  answer' = answer \/ (cphase # "done" /\ Sound(answer'))
  <1>1. ClientMoves
    BY DEF ClientStep
  <1>2. CASE Client!ReadSome
    <2>1. PICK n \in (ctotal + 1) .. ClientBuf :
            /\ n <= Replied.sent
            /\ IF Client!Complete(Replied, n)
                 THEN Client!Return(Client!Decode(Replied, n))
                 ELSE IF Client!MoreToRead(n, retries)
                   THEN UNCHANGED <<cphase, answer>>
                   ELSE Client!Return(Client!AfterLoop(Replied, n, FALSE))
      BY <1>2 DEF Client!ReadSome
    <2>2. n \in 0 .. down /\ n <= ClientBuf /\ cphase = "read"
      BY <1>2, <2>1, Numbers DEF IInv, Replied, Client!ReadSome
    <2>3. QED
      BY <2>1, <2>2, SoundReader DEF Client!Return
  <1>3. CASE Client!ReadEof
    <2>1. ctotal \in 0 .. down /\ ctotal <= ClientBuf
      BY DEF IInv, TypeOK
    <2>2. cphase = "read" /\ answer' = Client!AfterLoop(Replied, ctotal, TRUE)
      BY <1>3 DEF Client!ReadEof, Client!Return
    <2>3. QED
      BY <2>1, <2>2, SoundReader
  <1>4. CASE \/ Client!BuildReq \/ ClientWrites \/ ClientWrote \/ Client!RetryDelay
             \/ ClientReadFails
    BY <1>4, ErrorsSound
    DEF Client!BuildReq, ClientWrites, ClientWrote, Client!WriteHead, Client!WriteBody,
        Client!RetryDelay, ClientReadFails, Client!ReadFails, Client!Return, Errors
  <1>5. CASE ClientWriteFails
    BY <1>5, ErrorsSound
    DEF ClientWriteFails, Client!WriteFails, Client!FlushFails, Client!Return, Errors
  <1>6. CASE Client!Flush
    BY <1>6, ErrorsSound DEF Client!Flush, Client!Return, Client!AfterLoop, Errors
  <1>7. QED
    BY <1>1, <1>2, <1>3, <1>4, <1>5, <1>6 DEF ClientMoves

\* A step of the client is an answer, an error, or shows nothing.
LEMMA ClientRefines == ASSUME IInv, ClientStep PROVE [Call!Next]_(Call!vars)
  <1>1. UNCHANGED server /\ UNCHANGED request
    BY DEF ClientStep, ClientMoves, Client!BuildReq, ClientWrites, ClientWrote,
           Client!WriteHead, Client!WriteBody, ClientWriteFails, Client!WriteFails,
           Client!FlushFails, Client!Flush, Client!ReadSome, Client!ReadEof,
           ClientReadFails, Client!ReadFails, Client!RetryDelay
  <1>2. UNCHANGED <<request, handled, seen, reply>>
    BY <1>1 DEF server
  <1>3. CASE answer' = answer
    BY <1>2, <1>3 DEF Call!vars
  <1>4. CASE cphase # "done" /\ Sound(answer')
    <2>1. answer = Call!Pending
      BY <1>4 DEF IInv, ClientInOrder, Client!Pending, Call!Pending
    <2>2. CASE answer' \in [kind : Errors, body : {{}}]
      BY <1>2, <2>1, <2>2 DEF Call!Next, Call!Fail, Errors
    <2>3. CASE reply > 0 /\ answer' = [kind |-> "Ok", body |-> Bytes(ReplyHead, reply)]
      BY <1>2, <2>1, <2>3 DEF Call!Next, Call!Answer, Call!Bytes, Bytes
    <2>4. QED
      BY <1>4, <2>2, <2>3 DEF Sound
  <1>5. QED
    BY <1>3, <1>4, ReturnsSound

\* A step of the server is the handling, the reply, or shows nothing.
LEMMA ServerRefines == ASSUME IInv, IInv', ServerStep PROVE [Call!Next]_(Call!vars)
  <1>1. UNCHANGED <<request, answer>> /\ ServerMoves
    BY DEF ServerStep, client
  <1>2. CASE handled' # handled
    <2>1. ~(ServerReadFails \/ Server!HandlerReturns \/ Server!ReadEof)
      BY <1>2 DEF ServerReadFails, Server!ReadFails, Server!HandlerReturns,
                  Server!Serialise, Server!ReadEof
    <2>2. ~(ServerWrites \/ ServerWrote \/ ServerWriteFails \/ Server!Flush)
      BY <1>2 DEF ServerWrites, ServerWrote, Server!Write, ServerWriteFails,
                  Server!WriteFails, Server!FlushFails, Server!Flush
    <2>3. Server!ReadSome
      BY <1>1, <2>1, <2>2 DEF ServerMoves, ServerReads
    <2>4. sphase = "read" /\ UNCHANGED reply
      BY <2>3 DEF Server!ReadSome
    <2>5. handled = 0 /\ handled' = 1
      BY <1>2, <2>4 DEF IInv, TypeOK, ServerInOrder
    <2>6. /\ request.parses
          /\ seen' = Bytes(request.head, request.head + request.body)
      BY <1>1, <2>5 DEF IInv, ServerInOrder, Client!Size
    <2>7. QED
      BY <1>1, <2>4, <2>5, <2>6 DEF Call!Next, Call!Handle, Call!Bytes, Bytes
  <1>3. CASE handled' = handled /\ reply' # reply
    <2>1. /\ Server!HandlerReturns /\ sphase = "handle" /\ UNCHANGED seen
      BY <1>1, <1>3
      DEF ServerMoves, ServerReads, Server!ReadSome, Server!ReadEof, ServerReadFails,
          Server!ReadFails, Server!HandlerReturns, Server!Serialise, ServerWrites,
          ServerWrote, Server!Write, ServerWriteFails, Server!WriteFails,
          Server!FlushFails, Server!Flush
    <2>2. handled = 1 /\ reply = 0 /\ reply' \in Nat \ {0}
      BY <1>3, <2>1 DEF IInv, TypeOK, ServerInOrder
    <2>3. QED
      BY <1>1, <1>3, <2>1, <2>2 DEF Call!Next, Call!Reply
  <1>4. CASE handled' = handled /\ reply' = reply
    <2>1. handled \in {0, 1} /\ request' = request
      BY <1>1 DEF IInv, TypeOK
    <2>2. seen' = seen
      BY <1>4, <2>1 DEF IInv, ServerInOrder, Client!Size
    <2>3. QED
      BY <1>1, <1>4, <2>2 DEF Call!vars
  <1>5. QED
    BY <1>2, <1>3, <1>4

\* Client, server and pipes implement CallContract for all sizes: the handler
\* runs at most once and on the whole request, and an answer is its reply.
THEOREM ExchangeKeepsContract == Spec => Contract
  <1>1. Init => Call!Init
    BY DEF Init, Call!Init, Client!Pending, Call!Pending
  <1>2. IInv /\ IInv' /\ [Next]_vars => [Call!Next]_(Call!vars)
    <2> SUFFICES ASSUME IInv, IInv', [Next]_vars PROVE [Call!Next]_(Call!vars)
      OBVIOUS
    <2>1. CASE ClientStep
      BY <2>1, ClientRefines
    <2>2. CASE ServerStep
      BY <2>2, ServerRefines
    <2>3. CASE ClientLeaves \/ ServerLeaves \/ UNCHANGED vars
      BY <2>3 DEF ClientLeaves, ServerLeaves, vars, client, server, Call!vars
    <2>4. QED
      BY <2>1, <2>2, <2>3 DEF Next
  <1>3. QED
    BY <1>1, <1>2, InitIInv, StepIInv, PTL DEF Spec, Contract, Call!Spec

-----------------------------------------------------------------------------
(* Calm weather.                                                            *)

\* A request that was handled or replied to is one that the server takes.
LEMMA Deserved ==
    ASSUME IInv, handled = 1 \/ reply > 0
    PROVE  request.parses /\ Client!Size(request) <= ServerBuf
  <1>1. request.parses /\ stotal = Client!Size(request)
    BY Numbers DEF IInv, ServerInOrder
  <1>2. QED
    BY <1>1 DEF IInv, TypeOK

\* What the reader makes of n bytes of a reply: it goes on until it has a
\* declared length, or the end of the stream, or no room.
LEMMA StopsRight ==
    ASSUME IInv, NEW n \in 0 .. down, n <= ClientBuf, reply > 0, NEW eof \in BOOLEAN
    PROVE  /\ Client!Complete(Replied, n) <=> reply > ReplyHead /\ n = reply
           /\ n = reply => Client!Decode(Replied, n).kind = "Ok"
           /\ ~Client!Complete(Replied, n) /\ n > 0 /\ ~eof =>
                 Client!AfterLoop(Replied, n, eof).kind = "BufferOverflow"
           /\ n = reply /\ eof => Client!AfterLoop(Replied, n, eof).kind = "Ok"
  <1>1. /\ ReplyHead \in Nat \ {0} /\ reply \in Nat /\ down <= reply /\ down \in Nat
        /\ n \in Nat /\ n <= reply /\ reply >= ReplyHead
    BY Numbers DEF IInv, ServerInOrder
  <1>2. /\ Replied.head = ReplyHead /\ Replied.parses = TRUE /\ Replied.bare = FALSE
        /\ Replied.framing = IF reply > ReplyHead THEN "length" ELSE "none"
        /\ Replied.clen = IF reply > ReplyHead THEN reply - ReplyHead ELSE 0
    BY DEF Replied
  <1>3. Client!Complete(Replied, n) <=> reply > ReplyHead /\ n = reply
    BY <1>1, <1>2 DEF Client!Complete, Client!HeadersEnded
  <1>4. n = reply => Client!Decode(Replied, n).kind = "Ok"
    BY <1>1, <1>2 DEF Client!Decode, Client!DechunkFails, Client!HeadersEnded, Client!Answers
  <1>5. ~Client!Complete(Replied, n) /\ n > 0 /\ ~eof =>
            Client!AfterLoop(Replied, n, eof).kind = "BufferOverflow"
    BY DEF Client!AfterLoop, Client!Fails
  <1>6. n = reply /\ eof => Client!AfterLoop(Replied, n, eof).kind = "Ok"
    BY <1>1, <1>2, <1>3, <1>4 DEF Client!AfterLoop, Client!DeclaresLength
  <1>7. QED
    BY <1>3, <1>4, <1>5, <1>6

\* Whichever of the two is faster, what the client returns in calm weather is
\* what the call deserves, and the server can do nothing more to change that.
LEMMA ClientSettles ==
    ASSUME IInv, CalmInv, weather = "calm", ClientStep, cphase' = "done"
    PROVE  Settled'
  <1>1. /\ UNCHANGED <<request, reply, sphase, csock, ssock, handled, down>> /\ ClientMoves
        /\ cphase # "done"
    BY DEF ClientStep, server, ClientMoves, Client!BuildReq, ClientWrites, ClientWrote,
           Client!WriteHead, Client!WriteBody, ClientWriteFails, Client!WriteFails,
           Client!FlushFails, Client!Flush, Client!ReadSome, Client!ReadEof,
           ClientReadFails, Client!ReadFails, Client!RetryDelay
  <1>2. /\ LeavesWhenDone /\ ReadsOn /\ ServerDoneFirst
        /\ reply \in Nat /\ ReplyHead \in Nat \ {0} /\ ClientBuf \in Nat \ {0}
        /\ MaxRetries \in Nat \ {0} /\ down \in Nat /\ ctotal \in Nat /\ stotal \in Nat
        /\ ctotal <= down /\ down <= reply /\ ctotal <= ClientBuf
        /\ reply > 0 => reply >= ReplyHead /\ handled = 1
        /\ handled \in {0, 1}
        /\ handled = 1 => stotal = Client!Size(request)
    BY Numbers DEF CalmInv, IInv, TypeOK, ServerInOrder
  <1>3. Expected' = Expected
    BY <1>1 DEF Expected, Client!Builds, Client!Size
  <1>4. SUFFICES /\ answer'.kind \in Expected
                 /\ Client!Builds(request) =>
                       /\ reply > 0 \/ sphase = "done"
                       /\ reply = ReplyHead /\ reply < ClientBuf => ssock # "open"
    BY <1>1, <1>3 DEF Settled, Client!Builds
  <1>5. CASE Client!BuildReq
    BY <1>1, <1>5 DEF Client!BuildReq, Client!Return, Client!Fails, Expected
  <1>6. cphase # "build" => Client!Builds(request)
    BY <1>1, <1>2 DEF LeavesWhenDone
  <1>7. reply > 0 => request.parses /\ ~(Client!Size(request) > ServerBuf)
    BY Deserved, Numbers DEF IInv
  <1>8. CASE Client!ReadSome
    <2>1. PICK n \in (ctotal + 1) .. ClientBuf :
            /\ n <= down
            /\ IF Client!Complete(Replied, n)
                 THEN answer' = Client!Decode(Replied, n)
                 ELSE /\ ~Client!MoreToRead(n, retries)
                      /\ answer' = Client!AfterLoop(Replied, n, FALSE)
      BY <1>1, <1>8 DEF Client!ReadSome, Client!Return, Replied
    <2>2. /\ n \in 0 .. down /\ n <= ClientBuf /\ n > 0 /\ n <= reply /\ reply > 0
          /\ cphase = "read" /\ retries > 0
      BY <1>2, <1>8, <2>1 DEF Client!ReadSome, IInv, ClientInOrder
    <2>3. CASE Client!Complete(Replied, n)
      <3>1. reply > ReplyHead /\ n = reply /\ answer'.kind = "Ok"
        BY <2>1, <2>2, <2>3, StopsRight
      <3>2. Expected = {"Ok"}
        BY <1>2, <1>6, <1>7, <2>2, <3>1 DEF Expected
      <3>3. QED
        BY <2>2, <3>1, <3>2
    <2>4. CASE ~Client!Complete(Replied, n)
      <3>1. answer'.kind = "BufferOverflow"
        BY <2>1, <2>2, <2>4, StopsRight
      <3>2. n = ClientBuf /\ (reply > ReplyHead => n # reply)
        <4>1. reply > ReplyHead => n # reply
          BY <2>2, <2>4, StopsRight
        <4>2. n = ClientBuf
          BY <1>2, <2>1, <2>2, <2>4 DEF Client!MoreToRead
        <4>3. QED
          BY <4>1, <4>2
      <3>3. reply > ClientBuf \/ (reply = ClientBuf /\ reply = ReplyHead)
        BY <1>2, <2>2, <3>2
      <3>4. Expected = {"BufferOverflow"}
        BY <1>2, <1>6, <1>7, <2>2, <3>3 DEF Expected
      <3>5. QED
        BY <1>2, <2>2, <3>1, <3>3, <3>4
    <2>5. QED
      BY <2>3, <2>4
  <1>9. CASE Client!ReadEof
    <2>1. /\ cphase = "read" /\ ssock = "closed" /\ ctotal = down
          /\ answer' = Client!AfterLoop(Replied, ctotal, TRUE)
      BY <1>9 DEF Client!ReadEof, Client!Return, Replied
    <2>2. sphase = "done" /\ ctotal = reply /\ ctotal < ClientBuf
      BY <1>2, <2>1 DEF LeavesWhenDone, ServerDoneFirst, ReadsOn
    <2>3. CASE reply = 0
      BY <1>6, <2>1, <2>2, <2>3 DEF Client!AfterLoop, Client!Fails, Expected
    <2>4. CASE reply > 0
      <3>1. answer'.kind = "Ok"
        <4>1. ctotal \in 0 .. down /\ ctotal <= ClientBuf
          BY <1>2
        <4>2. Client!AfterLoop(Replied, ctotal, TRUE).kind = "Ok"
          BY <4>1, <2>2, <2>4, StopsRight
        <4>3. QED
          BY <2>1, <4>2
      <3>2. Expected = {"Ok"}
        BY <1>2, <1>6, <1>7, <2>1, <2>2, <2>4 DEF Expected
      <3>3. QED
        BY <2>1, <2>2, <3>1, <3>2
    <2>5. QED
      BY <1>2, <2>3, <2>4
  <1>10. Refused => handled = 0 /\ reply = 0 /\ sphase = "done"
                    /\ (Client!Size(request) > ServerBuf \/ ~request.parses)
    <2> SUFFICES ASSUME Refused
                 PROVE  /\ handled = 0 /\ reply = 0 /\ sphase = "done"
                        /\ Client!Size(request) > ServerBuf \/ ~request.parses
      OBVIOUS
    <2>1. ssock # "open" /\ stotal < Client!Size(request)
      BY DEF Refused
    <2>2. sphase = "done"
      BY <1>2, <2>1 DEF LeavesWhenDone
    <2>3. handled = 0 => Client!Size(request) > ServerBuf \/ ~request.parses
      BY <1>1, <1>2, <2>2 DEF ServerDoneFirst
    <2>4. stotal # Client!Size(request)
      BY <1>2, <2>1, Numbers DEF IInv
    <2>5. handled = 0 /\ ~(reply > 0)
      BY <1>2, <2>4
    <2>6. reply = 0
      BY <1>2, <2>5
    <2>7. QED
      BY <2>2, <2>3, <2>5, <2>6
  <1>11. CASE ClientWriteFails
    <2>1. Refused /\ cphase # "build" /\ answer' = Client!Fails("TcpError")
      BY <1>11 DEF ClientWriteFails, Client!WriteFails, Client!FlushFails, Client!Return
    <2>2. QED
      BY <1>2, <1>6, <1>10, <2>1 DEF Client!Fails, Expected
  <1>12. CASE ClientReadFails
    <2>1. /\ Starved /\ cphase = "read" /\ answer' = Client!Fails("TcpError")
      BY <1>1, <1>12 DEF ClientReadFails, Client!ReadFails, Client!Return
    <2>2. ctotal = down /\ ssock # "open" /\ (ssock = "gone" \/ Refused)
      BY <2>1 DEF Starved, Refused
    <2>3. sphase = "done" /\ ctotal = reply /\ ctotal < ClientBuf
          /\ (reply > ReplyHead => ctotal < reply)
      BY <1>2, <2>1, <2>2 DEF LeavesWhenDone, ServerDoneFirst, ReadsOn
    <2>4. CASE reply = 0
      <3>1. answer'.kind = "TcpError"
        BY <2>1 DEF Client!Fails
      <3>2. Expected = {"NoResponse", "TcpError"}
        BY <1>6, <2>1, <2>4 DEF Expected
      <3>3. ~(reply = ReplyHead)
        BY <1>2, <2>4
      <3>4. QED
        BY <2>3, <3>1, <3>2, <3>3
    <2>5. CASE reply > 0
      <3>1. ssock = "gone" /\ reply = ReplyHead
        BY <1>2, <1>10, <2>2, <2>3, <2>5
      <3>2. Expected = {"TcpError"}
        BY <1>2, <1>6, <1>7, <2>1, <2>3, <2>5, <3>1 DEF Expected
      <3>3. QED
        BY <2>1, <2>2, <2>3, <2>5, <3>2 DEF Client!Fails
    <2>6. QED
      BY <1>2, <2>4, <2>5
  <1>13. ~(ClientWrites \/ ClientWrote \/ Client!RetryDelay \/ Client!Flush)
    <2>1. ~(ClientWrites \/ ClientWrote \/ Client!RetryDelay)
      BY <1>1
      DEF ClientWrites, ClientWrote, Client!WriteHead, Client!WriteBody, Client!RetryDelay
    <2>2. Client!MoreToRead(0, MaxRetries)
      BY <1>2 DEF Client!MoreToRead
    <2>3. ~Client!Flush
      BY <2>2 DEF Client!Flush
    <2>4. QED
      BY <2>1, <2>3
  <1>14. QED
    BY <1>1, <1>5, <1>8, <1>9, <1>11, <1>12, <1>13 DEF ClientMoves

\* The client's steps keep what makes its answer right.
LEMMA ClientStepCalm == ASSUME IInv, CalmInv, ClientStep PROVE CalmInv'
  <1>1. /\ UNCHANGED <<weather, request, reply, sphase, csock, ssock, handled, down>>
        /\ ClientMoves /\ cphase # "done"
    BY DEF ClientStep, server, ClientMoves, Client!BuildReq, ClientWrites, ClientWrote,
           Client!WriteHead, Client!WriteBody, ClientWriteFails, Client!WriteFails,
           Client!FlushFails, Client!Flush, Client!ReadSome, Client!ReadEof,
           ClientReadFails, Client!ReadFails, Client!RetryDelay
  <1>2. LeavesWhenDone'
    <2>1. /\ cphase' \in {"build", "head", "body", "flush"} => ctotal' = ctotal
                /\ cphase \in {"build", "head", "body", "flush"}
          /\ cphase' \notin {"build", "done"} =>
                cphase # "build" \/ Client!Builds(request)
      BY <1>1 DEF ClientMoves, Client!BuildReq, ClientWrites, ClientWrote,
           Client!WriteHead, Client!WriteBody, ClientWriteFails, Client!WriteFails,
           Client!FlushFails, Client!Flush, Client!ReadSome, Client!ReadEof,
           ClientReadFails, Client!ReadFails, Client!RetryDelay, Client!Return
    <2>2. QED
      BY <1>1, <2>1 DEF CalmInv, LeavesWhenDone, Client!Builds
  <1>3. ASSUME weather = "calm", cphase' \in {"read", "delay"}
        PROVE  ctotal' < ClientBuf /\ (reply > ReplyHead => ctotal' < reply)
    <2>1. CASE Client!Flush
      <3>1. cphase = "flush" /\ ctotal' = ctotal
        BY <2>1 DEF Client!Flush
      <3>2. ctotal = 0
        BY <3>1 DEF CalmInv, LeavesWhenDone
      <3>3. QED
        BY <3>1, <3>2, Numbers DEF IInv
    <2>2. CASE Client!ReadSome
      <3>1. PICK n \in (ctotal + 1) .. ClientBuf :
              /\ n <= down /\ ctotal' = n
              /\ ~Client!Complete(Replied, n) /\ Client!MoreToRead(n, retries)
        BY <1>3, <2>2 DEF Client!ReadSome, Client!Return, Replied
      <3>2. /\ n \in 0 .. down /\ n <= reply /\ n \in Nat /\ reply \in Nat /\ reply > 0
            /\ n <= ClientBuf
        BY <3>1, Numbers DEF IInv
      <3>3. reply > ReplyHead => n # reply
        BY <3>1, <3>2, StopsRight
      <3>4. QED
        BY <3>1, <3>2, <3>3 DEF Client!MoreToRead
    <2>3. CASE ClientReadFails \/ Client!RetryDelay
      <3>1. cphase \in {"read", "delay"} /\ ctotal' = ctotal
        BY <2>3 DEF ClientReadFails, Client!ReadFails, Client!RetryDelay
      <3>2. QED
        BY <1>3, <3>1 DEF CalmInv, ReadsOn
    <2>4. QED
      BY <1>1, <1>3, <2>1, <2>2, <2>3
      DEF ClientMoves, Client!BuildReq, ClientWrites, ClientWrote, Client!WriteHead,
          Client!WriteBody, ClientWriteFails, Client!WriteFails, Client!FlushFails,
          Client!ReadEof, Client!Return
  <1>4. weather = "calm" => ReadsOn'
    BY <1>1, <1>3 DEF ReadsOn
  <1>5. weather = "calm" => ServerDoneFirst'
    BY <1>1 DEF CalmInv, ServerDoneFirst, Client!Size
  <1>6. weather = "calm" => Settled'
    BY ClientSettles DEF Settled
  <1>7. QED
    BY <1>1, <1>2, <1>4, <1>5, <1>6 DEF CalmInv

\* What a step of the server does to the reply and to its own future.
LEMMA ServerGoes ==
    ASSUME IInv, CalmInv, ServerStep
    PROVE  /\ sphase # "done" /\ ssock = "open"
           /\ UNCHANGED <<weather, request, cphase, ctotal, answer, csock, ssock>>
           /\ reply' # reply => reply = 0 /\ ctotal = 0 /\ sphase = "handle"
           /\ sphase' = "flush" => down' = reply'
  <1>1. UNCHANGED <<weather, client, csock, ssock>> /\ ServerMoves
    BY DEF ServerStep
  <1>2. sphase # "done"
    BY <1>1 DEF ServerMoves, ServerReads, Server!ReadSome, Server!ReadEof, ServerReadFails,
          Server!ReadFails, Server!HandlerReturns, Server!Serialise, ServerWrites,
          ServerWrote, Server!Write, ServerWriteFails, Server!WriteFails,
          Server!FlushFails, Server!Flush
  <1>3. reply' # reply => sphase = "handle"
    BY <1>1 DEF ServerMoves, ServerReads, Server!ReadSome, Server!ReadEof, ServerReadFails,
          Server!ReadFails, Server!HandlerReturns, Server!Serialise, ServerWrites,
          ServerWrote, Server!Write, ServerWriteFails, Server!WriteFails,
          Server!FlushFails, Server!Flush
  <1>4. sphase = "handle" => reply = 0 /\ ctotal = 0
    BY Numbers DEF IInv, ServerInOrder
  <1>5. sphase' = "flush" => down' = reply'
    BY <1>1 DEF ServerMoves, ServerReads, Server!ReadSome, Server!ReadEof, ServerReadFails,
          Server!ReadFails, Server!HandlerReturns, Server!Serialise, ServerWrites,
          ServerWrote, Server!Write, ServerWriteFails, Server!WriteFails,
          Server!FlushFails, Server!Flush, Server!Return, Server!Parse
  <1>6. QED
    BY <1>1, <1>2, <1>3, <1>4, <1>5 DEF client, CalmInv, LeavesWhenDone

\* A server that returns while the client waits, in calm weather, has written
\* all of its reply, or does not take the request.
LEMMA ServerEnds ==
    ASSUME IInv, CalmInv, weather = "calm", ServerStep, cphase # "done", sphase' = "done"
    PROVE  /\ down' = reply'
           /\ handled' = 0 => Client!Size(request) > ServerBuf \/ ~request.parses
  <1>1. csock = "open" /\ ServerMoves /\ sphase # "done"
    BY ServerGoes DEF CalmInv, LeavesWhenDone, ServerStep
  <1>2. ~ServerReadFails /\ ~ServerWriteFails /\ ~Server!ReadEof
    BY <1>1 DEF ServerReadFails, ServerWriteFails, Server!ReadEof, Asked
  <1>3. ~ServerWrites /\ ~ServerWrote
    BY <1>1 DEF ServerWrites, ServerWrote, Server!Write
  <1>4. CASE Server!ReadSome
    <2>1. /\ sphase = "read" /\ UNCHANGED <<reply, down>>
      BY <1>4 DEF Server!ReadSome
    <2>2. reply = 0 /\ down = 0
      BY <2>1, Numbers DEF IInv, ServerInOrder
    <2>3. PICK n \in (stotal + 1) .. ServerBuf :
            /\ n <= up
            /\ IF Server!RequestComplete(Asked, n) THEN ~request.parses ELSE ~(n < ServerBuf)
      BY <1>1, <1>4 DEF Server!ReadSome, Server!Parse, Asked
    <2>4. ~Server!RequestComplete(Asked, n) => Client!Size(request) > ServerBuf
      <3> SUFFICES ASSUME ~Server!RequestComplete(Asked, n)
                   PROVE  Client!Size(request) > ServerBuf
        OBVIOUS
      <3>1. /\ Asked.head = request.head /\ Asked.clen = request.body
            /\ Asked.framing = IF request.hasBody THEN "length" ELSE "none"
        BY DEF Asked
      <3>2. /\ request.head \in Nat /\ request.body \in Nat /\ n \in Nat /\ ServerBuf \in Nat
            /\ Client!Size(request) = request.head + request.body
            /\ request.head + request.body <= MaxUsize /\ MaxUsize \in Nat
            /\ stotal \in Nat /\ n <= ServerBuf
        BY <2>3, Numbers DEF IInv
      <3>3. n < request.head + request.body
        BY <3>1, <3>2 DEF Server!RequestComplete, Server!HeadersEnded, Server!BodyEnd
      <3>4. QED
        BY <2>3, <3>2, <3>3
    <2>5. QED
      BY <2>1, <2>2, <2>3, <2>4
  <1>5. CASE Server!HandlerReturns
    <2>1. /\ sphase = "handle" /\ UNCHANGED <<reply, down, handled>>
      BY <1>1, <1>5 DEF Server!HandlerReturns, Server!Serialise, Server!Return
    <2>2. QED
      BY <2>1, Numbers DEF IInv, ServerInOrder
  <1>6. CASE Server!Flush
    <2>1. /\ sphase = "flush" /\ UNCHANGED <<reply, down, handled>>
      BY <1>6 DEF Server!Flush
    <2>2. handled = 1 /\ down = reply
      BY <2>1 DEF IInv, ServerInOrder, CalmInv, LeavesWhenDone
    <2>3. QED
      BY <2>1, <2>2
  <1>7. QED
    BY <1>1, <1>2, <1>3, <1>4, <1>5, <1>6 DEF ServerMoves, ServerReads

\* The server's steps change nothing that an answer given depends on.
LEMMA ServerStepCalm == ASSUME IInv, CalmInv, ServerStep PROVE CalmInv'
  <1>1. LeavesWhenDone'
    BY ServerGoes DEF CalmInv, LeavesWhenDone, Client!Builds
  <1>2. weather = "calm" => ReadsOn'
    <2>1. ReplyHead \in Nat /\ reply' \in Nat
      BY ServerStepIInv, Numbers DEF IInv, TypeOK
    <2>2. QED
      BY <2>1, ServerGoes DEF CalmInv, ReadsOn
  <1>3. weather = "calm" => ServerDoneFirst'
    BY ServerGoes, ServerEnds DEF ServerDoneFirst, Client!Size
  <1>4. ASSUME weather = "calm", cphase = "done", Settled PROVE Settled'
    <2>1. Client!Builds(request) => reply' = reply /\ reply > 0
      BY <1>4, ServerGoes DEF Settled
    <2>2. Expected' = Expected
      BY <2>1, ServerGoes DEF Expected, Client!Builds, Client!Size
    <2>3. QED
      BY <1>4, <2>1, <2>2, ServerGoes DEF Settled, Client!Builds
  <1>5. weather = "calm" => Settled'
    BY <1>4, ServerGoes DEF CalmInv, Settled
  <1>6. QED
    BY <1>1, <1>2, <1>3, <1>5, ServerGoes DEF CalmInv

\* The departure of the server, with or without its FIN, comes too late to
\* change what the client was told.
LEMMA ServerLeavesCalm == ASSUME IInv, CalmInv, ServerLeaves PROVE CalmInv'
  <1>1. /\ UNCHANGED <<weather, client, csock, server>> /\ sphase = "done" /\ ssock = "open"
    BY DEF ServerLeaves
  <1>2. LeavesWhenDone' /\ (weather = "calm" => ReadsOn' /\ ServerDoneFirst')
    BY <1>1 DEF CalmInv, LeavesWhenDone, ReadsOn, ServerDoneFirst, client, server,
                Client!Builds, Client!Size
  <1>3. ASSUME cphase = "done", Settled PROVE Settled'
    <2>1. Client!Builds(request) => ~(reply = ReplyHead /\ reply < ClientBuf)
      BY <1>1, <1>3 DEF Settled
    <2>2. /\ reply \in Nat /\ ReplyHead \in Nat /\ ClientBuf \in Nat
          /\ reply > 0 => reply >= ReplyHead
      BY Numbers DEF IInv, ServerInOrder
    <2>3. Expected' = Expected
      BY <1>1, <2>1, <2>2 DEF Expected, client, server, Client!Builds, Client!Size
    <2>4. QED
      BY <1>1, <1>3, <2>1, <2>3 DEF Settled, client, server, Client!Builds
  <1>4. weather = "calm" => Settled'
    BY <1>1, <1>3 DEF CalmInv, Settled, client
  <1>5. QED
    BY <1>1, <1>2, <1>4 DEF CalmInv

\* For all sizes, cuts and speeds: on a connection that does not fail a call
\* ends as its sizes decide (request_with_retry_delay against
\* handle_http_connection_with_sizes).
THEOREM CalmCallsSucceed == Spec => []CalmDelivers
  <1>1. Init => CalmInv
    BY DEF Init, CalmInv, LeavesWhenDone, ReadsOn, ServerDoneFirst, Settled
  <1>2. IInv /\ CalmInv /\ [Next]_vars => CalmInv'
    <2> SUFFICES ASSUME IInv, CalmInv, [Next]_vars PROVE CalmInv'
      OBVIOUS
    <2>1. CASE ClientLeaves
      BY <2>1 DEF ClientLeaves, CalmInv, LeavesWhenDone, ReadsOn, ServerDoneFirst, Settled,
                  Expected, client, server, Client!Builds, Client!Size
    <2>2. CASE UNCHANGED vars
      BY <2>2 DEF CalmInv, LeavesWhenDone, ReadsOn, ServerDoneFirst, Settled, vars,
                  Expected, client, server, Client!Builds, Client!Size
    <2>3. QED
      BY <2>1, <2>2, ClientStepCalm, ServerStepCalm, ServerLeavesCalm DEF Next
  <1>3. CalmInv => CalmDelivers
    BY DEF CalmInv, Settled, CalmDelivers
  <1>4. QED
    BY <1>1, <1>2, <1>3, InitIInv, StepIInv, PTL DEF Spec
=============================================================================
