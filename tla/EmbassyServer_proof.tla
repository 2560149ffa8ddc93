------------------------ MODULE EmbassyServer_proof -------------------------
(***************************************************************************)
(* EmbassyServer, for every pair of timeouts: the timer of the socket      *)
(* leaves the handler its time when it is the longer of the two.           *)
(***************************************************************************)
EXTENDS EmbassyServer, TLAPS

\* What the steps of a connection do to its phase.
LEMMA PhaseSteps ==
    /\ Conn!ReadSome \/ Conn!ReadEof =>
          phase = "read" /\ phase' \in {"read", "handle", "done"}
    /\ Conn!ReadFails \/ Conn!WriteFails \/ Conn!Flush \/ Conn!FlushFails \/ Conn!Write =>
          phase \in {"read", "write", "flush"} /\ phase' \in {"flush", "done"}
    /\ Conn!HandlerReturns =>
          phase = "handle" /\ phase' \in {"write", "done"}
    /\ Conn!Serialise(TimeoutReply) =>
          phase = "handle" /\ phase' \in {"write", "done"}
  BY DEF Conn!ReadSome, Conn!ReadEof, Conn!ReadFails, Conn!WriteFails, Conn!Flush,
         Conn!FlushFails, Conn!Write, Conn!HandlerReturns, Conn!Serialise,
         Conn!Parse, Conn!Return

\* serve starts in the inductive invariant.
LEMMA InitIInv == Init => IInv
  BY TimeoutsAssumption
  DEF Init, IInv, HandlerMayUseItsTime, TimersInStep

\* Every step keeps it when the handler has the shorter limit.
LEMMA StepIInv ==
    ASSUME HandlerTimeout < ReadTimeout, IInv, [Next]_vars PROVE IInv'
  <1> USE TimeoutsAssumption DEF IInv, HandlerMayUseItsTime, TimersInStep
  <1>1. CASE Accept
    BY <1>1 DEF Accept
  <1>2. CASE AcceptFails \/ Pause \/ Close
    BY <1>2 DEF AcceptFails, Pause, Close, connection
  <1>3. CASE Read
    <2>1. /\ task = "serve" /\ socket # "idle" /\ quiet' = 0
          /\ UNCHANGED <<task, socket, busy>>
          /\ phase = "read" /\ phase' \in {"read", "handle", "done"}
      BY <1>3, PhaseSteps DEF Read
    <2>2. busy = 0
      BY <2>1
    <2>3. HandlerMayUseItsTime'
      BY <2>1
    <2>4. TimersInStep'
      BY <2>1, <2>2
    <2>5. QED
      BY <2>3, <2>4
  <1>4. CASE Broken \/ Respond
    <2>1. phase # "handle" /\ phase' \in {"flush", "done"}
      BY <1>4, PhaseSteps DEF Broken, Respond
    <2>2. quiet' \in {0, quiet} /\ UNCHANGED <<task, socket, busy>>
      BY <1>4, <2>1 DEF Broken, Respond
    <2>3. QED
      BY <2>1, <2>2
  <1>5. CASE HandlerAnswers \/ HandlerTimesOut
    <2>1. phase' \in {"write", "done"}
      BY <1>5, PhaseSteps DEF HandlerAnswers, HandlerTimesOut
    <2>2. UNCHANGED <<task, socket, quiet, busy>>
      BY <1>5 DEF HandlerAnswers, HandlerTimesOut
    <2>3. QED
      BY <2>1, <2>2
  <1>6. CASE PeerResets
    BY <1>6 DEF PeerResets, connection
  <1>7. CASE IdleAbort
    \* the socket has been quiet for ReadTimeout, longer than a handler may run
    <2>1. /\ quiet >= ReadTimeout /\ socket = "open" /\ socket' = "idle"
          /\ UNCHANGED <<task, quiet, busy, phase>>
      BY <1>7 DEF IdleAbort, connection
    <2>2. phase # "handle"
      BY <2>1
    <2>3. QED
      BY <2>1, <2>2
  <1>8. CASE Tick
    <2>1. /\ phase = "handle" => busy < HandlerTimeout
          /\ busy' = IF phase = "handle" THEN busy + 1 ELSE busy
          /\ quiet' = IF socket = "open" THEN quiet + 1 ELSE quiet
          /\ UNCHANGED <<task, socket, phase>>
      BY <1>8 DEF Tick, connection
    <2>2. CASE phase = "handle"
      BY <2>1, <2>2
    <2>3. CASE phase # "handle"
      BY <2>1, <2>3
    <2>4. QED
      BY <2>2, <2>3
  <1>9. CASE UNCHANGED vars
    BY <1>9 DEF vars, connection
  <1>10. QED
    BY <1>1, <1>2, <1>3, <1>4, <1>5, <1>6, <1>7, <1>8, <1>9
    DEF Next, Loop, Serve, Stack

\* With a handler limit below the read timeout, the socket's timer never aborts
\* the connection of a running handler.
THEOREM HandlerHasItsTime ==
    ASSUME HandlerTimeout < ReadTimeout
    PROVE  Spec => []HandlerMayUseItsTime
  <1>1. IInv => HandlerMayUseItsTime
    BY DEF IInv
  <1>2. IInv /\ [Next]_vars => IInv'
    BY StepIInv
  <1>3. QED
    BY <1>1, <1>2, InitIInv, PTL DEF Spec

-----------------------------------------------------------------------------
(* The types.                                                               *)

\* serve starts with its types.
LEMMA InitTyped == Init => Typed
  <1> SUFFICES ASSUME Init PROVE Typed
    OBVIOUS
  <1>1. wire \in Wires /\ wire.sent \in Nat
    BY WiresAssumption DEF Init, IsRequestMessage, IsMessage
  <1>2. Conn!TypeOK
    BY <1>1, SizesAssumption DEF Init, Conn!TypeOK, Conn!Phases, Conn!Errors, Conn!Bytes
  <1>3. QED
    <2>1. quiet \in 0 .. ReadTimeout /\ busy \in 0 .. HandlerTimeout
      BY TimeoutsAssumption DEF Init
    <2>2. /\ task = "accept" /\ socket = "reset" /\ phase = "done"
      BY DEF Init
    <2>3. ConnectionTyped
      BY <1>2, <2>2 DEF ConnectionTyped
    <2>4. QED
      BY <1>2, <2>1, <2>2, <2>3 DEF Typed, TypeOK

\* A step that leaves the connection alone leaves its types.
LEMMA ConnectionUntouched ==
    ASSUME ConnectionTyped, UNCHANGED connection PROVE ConnectionTyped'
  BY DEF connection, ConnectionTyped, Conn!TypeOK

\* A read that hands over bytes, or the end of the stream.
LEMMA ReadTyped ==
    ASSUME ConnectionTyped, Conn!ReadSome \/ Conn!ReadEof PROVE ConnectionTyped'
  <1>1. /\ phase = "read" /\ handled = 0 /\ reply = 0 /\ written = 0
        /\ UNCHANGED <<wire, reply, written>>
        /\ wire \in Wires /\ result = result
        /\ total \in 0 .. BufLen /\ total <= wire.sent
        /\ seen \subseteq Conn!Bytes(0, BufLen)
        /\ result \in Conn!Errors \cup {"pending", "Ok"}
    BY DEF ConnectionTyped, Conn!TypeOK, Conn!ReadSome, Conn!ReadEof
  <1>2. wire.head \in Nat /\ wire.sent \in Nat /\ BufLen \in Nat
    BY <1>1, WiresAssumption, SizesAssumption DEF IsRequestMessage, IsMessage
  <1>3. total' \in 0 .. BufLen /\ total' <= wire.sent
    <2>1. CASE Conn!ReadSome
      BY <1>1, <1>2, <2>1 DEF Conn!ReadSome
    <2>2. CASE Conn!ReadEof
      BY <1>1, <2>2 DEF Conn!ReadEof
    <2>3. QED
      BY <2>1, <2>2
  <1>4. \/ /\ phase' = "handle" /\ handled' = 1 /\ result' = result
           /\ seen' = Conn!Bytes(wire.head, total')
        \/ UNCHANGED <<phase, seen, handled, result>>
        \/ /\ phase' = "done" /\ result' \in Conn!Errors
           /\ UNCHANGED <<seen, handled>>
    BY <1>1 DEF Conn!ReadSome, Conn!ReadEof, Conn!Parse, Conn!Return, Conn!Errors
  <1>5. Conn!Bytes(wire.head, total') \subseteq Conn!Bytes(0, BufLen)
    BY <1>2, <1>3 DEF Conn!Bytes
  <1>6. /\ phase' \in {"read", "handle", "done"} /\ handled' \in 0 .. 1
        /\ seen' \subseteq Conn!Bytes(0, BufLen)
        /\ result' \in Conn!Errors \cup {"pending", "Ok"}
        /\ phase' = "read" => handled' = 0
    BY <1>1, <1>4, <1>5
  <1>7. reply' \in 0 .. ReplyLen /\ written' \in 0 .. reply'
    BY <1>1 DEF ConnectionTyped, Conn!TypeOK
  <1>8. Conn!TypeOK'
    BY <1>1, <1>3, <1>6, <1>7 DEF Conn!TypeOK, Conn!Phases
  <1>9. QED
    BY <1>1, <1>6, <1>8 DEF ConnectionTyped

\* A response is serialised, of the handler, of its error or of the timeout.
LEMMA SerialiseTyped ==
    ASSUME ConnectionTyped, NEW size \in Nat, Conn!Serialise(size) PROVE ConnectionTyped'
  <1>1. /\ phase = "handle" /\ reply = 0 /\ written = 0
        /\ UNCHANGED <<wire, total, seen, handled, written>>
        /\ \/ reply' = size /\ size <= ReplyLen /\ phase' = "write" /\ result' = result
           \/ phase' = "done" /\ result' = "BufferOverflow" /\ reply' = reply
    BY DEF ConnectionTyped, Conn!Serialise, Conn!Return
  <1>2. reply' \in 0 .. ReplyLen /\ written' \in 0 .. reply'
    BY <1>1, SizesAssumption
  <1>3. Conn!TypeOK'
    BY <1>1, <1>2 DEF ConnectionTyped, Conn!TypeOK, Conn!Phases, Conn!Errors
  <1>4. QED
    BY <1>1, <1>3 DEF ConnectionTyped

\* The response is written, or something fails.
LEMMA RespondTyped ==
    ASSUME ConnectionTyped,
           Conn!ReadFails \/ Conn!Write \/ Conn!WriteFails \/ Conn!Flush \/ Conn!FlushFails
    PROVE  ConnectionTyped'
  <1>1. /\ UNCHANGED <<wire, total, seen, handled, reply>>
        /\ phase' \in {"flush", "done"}
        /\ result' \in Conn!Errors \cup {"pending", "Ok"}
    BY DEF ConnectionTyped, Conn!TypeOK, Conn!ReadFails, Conn!Write, Conn!WriteFails,
           Conn!Flush, Conn!FlushFails, Conn!Return, Conn!Errors
  <1>2. reply \in Nat /\ written \in 0 .. reply
    BY SizesAssumption DEF ConnectionTyped, Conn!TypeOK
  <1>3. written' \in {written, reply} \/ written' \in 0 .. (reply - 1)
    BY DEF Conn!ReadFails, Conn!Write, Conn!WriteFails, Conn!Flush, Conn!FlushFails
  <1>4. written' \in 0 .. reply
    BY <1>2, <1>3
  <1>5. Conn!TypeOK'
    BY <1>1, <1>4 DEF ConnectionTyped, Conn!TypeOK, Conn!Phases
  <1>6. QED
    BY <1>1, <1>5 DEF ConnectionTyped

\* Every step keeps the types.
LEMMA StepTyped == Typed /\ [Next]_vars => Typed'
  <1> SUFFICES ASSUME Typed, [Next]_vars PROVE Typed'
    OBVIOUS
  <1> USE TimeoutsAssumption
  <1>1. TypeOK /\ ConnectionTyped
    BY DEF Typed
  <1>2. CASE Accept
    <2>1. wire' \in Wires /\ wire'.sent \in Nat
      BY <1>2, WiresAssumption DEF Accept, IsRequestMessage, IsMessage
    <2>2. Conn!TypeOK'
      BY <1>2, <2>1, SizesAssumption DEF Accept, Conn!TypeOK, Conn!Phases, Conn!Bytes
    <2>3. QED
      BY <1>1, <1>2, <2>2 DEF Accept, Typed, TypeOK, ConnectionTyped
  <1>3. CASE AcceptFails \/ Pause \/ Close \/ PeerResets \/ IdleAbort \/ Tick
    <2>1. UNCHANGED connection
      BY <1>3 DEF AcceptFails, Pause, Close, PeerResets, IdleAbort, Tick
    <2>2. ConnectionTyped'
      BY <1>1, <2>1, ConnectionUntouched
    <2>3. /\ task' \in {"accept", "pause", "serve"} /\ socket' \in {"open", "reset", "idle"}
      BY <1>1, <1>3 DEF TypeOK, AcceptFails, Pause, Close, PeerResets, IdleAbort, Tick
    <2>4. quiet' \in 0 .. ReadTimeout /\ busy' \in 0 .. HandlerTimeout
      BY <1>1, <1>3 DEF TypeOK, AcceptFails, Pause, Close, PeerResets, IdleAbort, Tick
    <2>5. QED
      BY <2>2, <2>3, <2>4 DEF Typed, TypeOK, ConnectionTyped
  <1>4. CASE Serve
    <2>1. ConnectionTyped'
      <3>1. CASE Read
        BY <1>1, <3>1, ReadTyped DEF Read
      <3>2. CASE Broken \/ Respond
        BY <1>1, <3>2, RespondTyped DEF Broken, Respond
      <3>3. CASE HandlerAnswers
        <4>1. PICK size \in Replies \cup {ErrorReply} : Conn!Serialise(size)
          BY <3>3 DEF HandlerAnswers, Conn!HandlerReturns
        <4>2. QED
          BY <1>1, <4>1, SerialiseTyped, SizesAssumption
      <3>4. CASE HandlerTimesOut
        BY <1>1, <3>4, SerialiseTyped DEF HandlerTimesOut
      <3>5. QED
        BY <1>4, <3>1, <3>2, <3>3, <3>4 DEF Serve
    <2>2. /\ UNCHANGED <<task, socket, busy>> /\ quiet' \in {0, quiet}
      BY <1>1, <1>4 DEF Serve, Read, Broken, Respond, HandlerAnswers, HandlerTimesOut, TypeOK
    <2>3. QED
      BY <1>1, <2>1, <2>2 DEF Typed, TypeOK, ConnectionTyped
  <1>5. CASE UNCHANGED vars
    <2>1. UNCHANGED connection /\ UNCHANGED <<task, socket, quiet, busy>>
      BY <1>5 DEF vars
    <2>2. ConnectionTyped'
      BY <1>1, <2>1, ConnectionUntouched
    <2>3. QED
      BY <1>1, <2>1, <2>2 DEF Typed, TypeOK, ConnectionTyped
  <1>6. QED
    BY <1>2, <1>3, <1>4, <1>5 DEF Next, Loop, Stack

\* Every variable keeps to its type, whatever the timeouts: no timer is overdue,
\* no buffer overrun, and no handler runs past its limit.
THEOREM TypeCorrect == Spec => []TypeOK
  <1>1. Typed => TypeOK
    BY DEF Typed
  <1>2. QED
    BY <1>1, InitTyped, StepTyped, PTL DEF Spec

-----------------------------------------------------------------------------
(* The contract of each connection.                                         *)

\* A request is complete when what there is to read of it is there.
LEMMA CompleteMeansThere ==
    ASSUME NEW w \in Wires, NEW n \in 0 .. BufLen
    PROVE  /\ Conn!RequestComplete(w, n) <=> Conn!Service!Awaited(w) <= n
           /\ Conn!Service!Awaited(w) \in Nat /\ w.sent \in Nat
  BY WiresAssumption, SizesAssumption
  DEF Conn!RequestComplete, Conn!BodyEnd, Conn!HeadersEnded, Conn!Service!Awaited,
      IsRequestMessage, IsMessage

\* Nothing is complete before anything was read.
LEMMA NothingIncomplete == ASSUME NEW w \in Wires PROVE ~Conn!RequestComplete(w, 0)
  BY WiresAssumption DEF Conn!RequestComplete, Conn!HeadersEnded, IsRequestMessage, IsMessage

\* The steps of a connection: where each of them leads.
LEMMA ConnectionSteps ==
    ASSUME Tracked, Next, ~Accept, ~UNCHANGED connection
    PROVE  \/ Conn!ReadSome \/ Conn!ReadEof \/ Conn!ReadFails
           \/ \E size : Conn!Serialise(size)
           \/ Conn!Write \/ Conn!WriteFails \/ Conn!Flush \/ Conn!FlushFails
  <1>1. CASE Loop \/ Stack
    BY <1>1 DEF Loop, Stack, AcceptFails, Pause, Close, PeerResets, IdleAbort, Tick
  <1>2. CASE Serve
    BY <1>2 DEF Serve, Read, Broken, Respond, HandlerAnswers, HandlerTimesOut,
                Conn!HandlerReturns
  <1>3. QED
    BY <1>1, <1>2 DEF Next

\* A read that hands over bytes, in the terms of the contract.
LEMMA ReadSomeKeeps ==
    ASSUME Typed, Tracked, Conn!ReadSome
    PROVE  Tracked' /\ [Conn!Service!Next]_(Conn!Service!vars)
  <1>1. /\ phase = "read" /\ result = "pending" /\ UNCHANGED wire /\ wire \in Wires
    BY DEF Typed, TypeOK, Conn!TypeOK, Tracked, Conn!ReadSome
  <1>2. PICK n \in (total + 1) .. BufLen :
          /\ n <= wire.sent /\ total' = n
          /\ IF Conn!RequestComplete(wire, n)
               THEN Conn!Parse(n)
               ELSE IF n < BufLen
                 THEN UNCHANGED <<phase, seen, handled, result>>
                 ELSE Conn!Return("BufferOverflow") /\ UNCHANGED <<seen, handled>>
    BY DEF Conn!ReadSome
  <1>3. n \in 0 .. BufLen /\ BufLen \in Nat
    BY <1>2, SizesAssumption DEF Typed, TypeOK, Conn!TypeOK
  <1>4. /\ Conn!RequestComplete(wire, n) <=> Conn!Service!Awaited(wire) <= n
        /\ Conn!Service!Awaited(wire) \in Nat /\ wire.sent \in Nat
    BY <1>1, <1>3, CompleteMeansThere
  <1>5. CASE Conn!RequestComplete(wire, n) /\ wire.parses
    <2>1. phase' = "handle" /\ result' = result
      BY <1>2, <1>5 DEF Conn!Parse
    <2>2. wire.sent >= Conn!Service!Awaited(wire) /\ BufLen >= Conn!Service!Awaited(wire)
      BY <1>2, <1>3, <1>4, <1>5
    <2>3. Conn!Service!Handle
      BY <1>1, <1>5, <2>1, <2>2 DEF Conn!Service!Handle, Conn!Errors
    <2>4. QED
      BY <1>1, <2>1, <2>3 DEF Conn!Service!Next, Tracked
  <1>6. CASE Conn!RequestComplete(wire, n) /\ ~wire.parses
    <2>1. phase' = "done" /\ result' = "Malformed"
      BY <1>2, <1>6 DEF Conn!Parse, Conn!Return
    <2>2. "Malformed" \in Conn!Service!Causes["reading"]
      BY <1>6 DEF Conn!Service!Causes
    <2>3. Conn!Service!Fail
      BY <1>1, <2>1, <2>2 DEF Conn!Service!Fail, Conn!Errors
    <2>4. QED
      BY <2>1, <2>3 DEF Conn!Service!Next, Tracked
  <1>7. CASE ~Conn!RequestComplete(wire, n) /\ n < BufLen
    <2>1. UNCHANGED <<phase, result>>
      BY <1>2, <1>7
    <2>2. Tracked'
      BY <1>1, <1>2, <1>7, <2>1
      DEF Tracked, Conn!RequestComplete, Conn!HeadersEnded, Conn!BodyEnd
    <2>3. UNCHANGED Conn!Service!vars
      BY <1>1, <2>1 DEF Conn!Service!vars, Conn!Errors
    <2>4. QED
      BY <2>2, <2>3
  <1>8. CASE ~Conn!RequestComplete(wire, n) /\ ~(n < BufLen)
    <2>1. phase' = "done" /\ result' = "BufferOverflow"
      BY <1>2, <1>8 DEF Conn!Return
    <2>2. "BufferOverflow" \in Conn!Service!Causes["reading"]
      BY <1>3, <1>4, <1>8 DEF Conn!Service!Causes
    <2>3. Conn!Service!Fail
      BY <1>1, <2>1, <2>2 DEF Conn!Service!Fail, Conn!Errors
    <2>4. QED
      BY <2>1, <2>3 DEF Conn!Service!Next, Tracked
  <1>9. QED
    BY <1>5, <1>6, <1>7, <1>8

\* The other steps of a connection, in the terms of the contract.
LEMMA OthersKeep ==
    ASSUME Typed, Tracked,
           \/ Conn!ReadEof \/ Conn!ReadFails \/ \E size : Conn!Serialise(size)
           \/ Conn!Write \/ Conn!WriteFails \/ Conn!Flush \/ Conn!FlushFails
    PROVE  Tracked' /\ [Conn!Service!Next]_(Conn!Service!vars)
  <1>1. CASE Conn!ReadEof
    <2>1. /\ phase = "read" /\ result = "pending" /\ UNCHANGED wire
          /\ phase' = "done" /\ result' = "Incomplete"
          /\ wire.closes /\ total = wire.sent
      BY <1>1 DEF Tracked, Conn!ReadEof, Conn!Return
    <2>2. wire \in Wires /\ total \in 0 .. BufLen
      BY DEF Typed, TypeOK, Conn!TypeOK
    <2>3. wire.sent < Conn!Service!Awaited(wire)
      BY <2>1, <2>2, CompleteMeansThere DEF Tracked
    <2>4. "Incomplete" \in Conn!Service!Causes["reading"]
      BY <2>1, <2>3 DEF Conn!Service!Causes
    <2>5. Conn!Service!Fail
      BY <2>1, <2>4 DEF Conn!Service!Fail, Conn!Errors
    <2>6. QED
      BY <2>1, <2>5 DEF Conn!Service!Next, Tracked
  <1>2. CASE Conn!ReadFails \/ Conn!WriteFails \/ Conn!FlushFails
    <2>1. /\ phase \in {"read", "write", "flush"} /\ result = "pending" /\ UNCHANGED wire
          /\ phase' = "done" /\ result' = "TcpError"
      BY <1>2 DEF Tracked, Conn!ReadFails, Conn!WriteFails, Conn!FlushFails, Conn!Return
    <2>2. Conn!Service!Fail
      BY <2>1 DEF Conn!Service!Fail, Conn!Service!Causes, Conn!Errors
    <2>3. QED
      BY <2>1, <2>2 DEF Conn!Service!Next, Tracked
  <1>3. CASE \E size : Conn!Serialise(size)
    <2>1. /\ phase = "handle" /\ result = "pending" /\ UNCHANGED wire
          /\ \/ phase' = "write" /\ result' = result
             \/ phase' = "done" /\ result' = "BufferOverflow"
      BY <1>3 DEF Tracked, Conn!Serialise, Conn!Return
    <2>2. Conn!Service!Reply \/ Conn!Service!Fail
      BY <2>1 DEF Conn!Service!Reply, Conn!Service!Fail, Conn!Service!Causes, Conn!Errors
    <2>3. QED
      BY <2>1, <2>2 DEF Conn!Service!Next, Tracked
  <1>4. CASE Conn!Write
    BY <1>4 DEF Tracked, Conn!Write, Conn!Service!vars
  <1>5. CASE Conn!Flush
    <2>1. /\ phase = "flush" /\ result = "pending" /\ UNCHANGED wire
          /\ phase' = "done" /\ result' = "Ok"
      BY <1>5 DEF Tracked, Conn!Flush, Conn!Return
    <2>2. Conn!Service!Serve
      BY <2>1 DEF Conn!Service!Serve, Conn!Errors
    <2>3. QED
      BY <2>1, <2>2 DEF Conn!Service!Next, Tracked
  <1>6. QED
    BY <1>1, <1>2, <1>3, <1>4, <1>5

\* Every step is an accept, or one that the contract of the connection allows.
LEMMA StepKept ==
    ASSUME Typed, Tracked, [Next]_vars
    PROVE  Tracked' /\ [Accept \/ Conn!Service!Next]_(Conn!Service!vars)
  <1>1. CASE Accept
    <2>1. wire' \in Wires /\ phase' = "read" /\ result' = "pending" /\ total' = 0
      BY <1>1 DEF Accept
    <2>2. ~Conn!RequestComplete(wire', 0)
      BY <2>1, NothingIncomplete
    <2>3. Tracked'
      BY <2>1, <2>2 DEF Tracked, Conn!RequestComplete, Conn!HeadersEnded, Conn!BodyEnd
    <2>4. QED
      BY <1>1, <2>3
  <1>2. CASE UNCHANGED connection
    BY <1>2 DEF connection, Tracked, Conn!RequestComplete, Conn!HeadersEnded,
                Conn!BodyEnd, Conn!Service!vars
  <1>3. CASE Next /\ ~Accept /\ ~UNCHANGED connection
    BY <1>3, ConnectionSteps, ReadSomeKeeps, OthersKeep
  <1>4. CASE UNCHANGED vars
    BY <1>2, <1>4 DEF vars
  <1>5. QED
    BY <1>1, <1>2, <1>3, <1>4

\* Whatever the peers, the timers, the handler and its time limit do, every
\* connection of the loop keeps the contract of handle_http_connection: the
\* timers of serve add no way to run a handler twice, to answer before it has
\* run, or to fail without a cause.
THEOREM ConnectionsKeepContract == Spec => ConnectionContract
  <1>1. Init => Tracked
    BY DEF Init, Tracked
  <1>2. Typed /\ Tracked /\ [Next]_vars =>
            Tracked' /\ [Accept \/ Conn!Service!Next]_(Conn!Service!vars)
    BY StepKept
  <1>3. QED
    BY <1>1, <1>2, InitTyped, StepTyped, PTL DEF Spec, ConnectionContract
=============================================================================
