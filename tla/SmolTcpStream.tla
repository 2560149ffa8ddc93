---------------------------- MODULE SmolTcpStream ----------------------------
(***************************************************************************)
(* SmolTcpStream (smoltcp.rs): the futures of read, write and flush over a *)
(* smoltcp socket, the wakers they leave with it, and the executor that    *)
(* polls the task again only when one of them was woken.                   *)
(*                                                                         *)
(* The socket is smoltcp's, modelled from what the adapter uses of it:     *)
(* recv_slice, send_slice, may_recv, may_send, send_queue and a waker each *)
(* for the two directions, taken when it is woken.  The other actor is     *)
(* the interface poll, which moves packets and aborts the connection.      *)
(***************************************************************************)
EXTENDS Integers

CONSTANTS
    RxCap, TxCap,   \* the two buffers of the socket
    MaxAsk,         \* the most bytes one read or write asks for
    PeerBytes,      \* bound: how much the peer sends
    AppBytes        \* bound: how much the application writes

ASSUME CapsAssumption ==
    /\ RxCap \in Nat \ {0} /\ TxCap \in Nat \ {0} /\ MaxAsk \in Nat
    /\ PeerBytes \in Nat /\ AppBytes \in Nat

VARIABLES
    state,      \* the TCP state, as far as the adapter can tell
    fin,        \* rx_fin_received: the peer has closed its half
    rx, tx,     \* bytes in the receive and in the send buffer
    recvWaker, sendWaker, \* whether a waker is registered
    op, ask,    \* the future the task awaits, and the length of its slice
    woken,      \* the executor will poll the task
    result,     \* what the last future came to
    arrived, delivered, accepted, acked  \* history: bytes, by direction

buffers == <<rx, tx, arrived, delivered, accepted, acked>>
wakers == <<recvWaker, sendWaker>>
vars == <<state, fin, buffers, wakers, op, ask, woken, result>>

None == [ok |-> TRUE, n |-> 0]

Init ==
    /\ state = "Established" /\ fin = FALSE
    /\ rx = 0 /\ tx = 0
    /\ recvWaker = FALSE /\ sendWaker = FALSE
    /\ op = "none" /\ ask = 0 /\ woken = FALSE /\ result = None
    /\ arrived = 0 /\ delivered = 0 /\ accepted = 0 /\ acked = 0

-----------------------------------------------------------------------------
(* The socket.                                                              *)

RecvOpen == state \in {"Established", "FinWait"}
MayRecv == RecvOpen \/ rx > 0
MaySend == state \in {"Established", "CloseWait"}

Least(a, b) == IF a < b THEN a ELSE b

\* Waking takes the waker out of its slot.
WakeRecv == woken' = (woken \/ recvWaker) /\ recvWaker' = FALSE
WakeSend == woken' = (woken \/ sendWaker) /\ sendWaker' = FALSE
WakeBoth ==
    /\ woken' = (woken \/ recvWaker \/ sendWaker)
    /\ recvWaker' = FALSE /\ sendWaker' = FALSE

\* The interface poll: a segment arrives, ...
Receive ==
    /\ RecvOpen
    /\ \E n \in 1 .. Least(RxCap - rx, PeerBytes - arrived) :
          rx' = rx + n /\ arrived' = arrived + n
    /\ WakeRecv
    /\ UNCHANGED <<state, fin, tx, delivered, accepted, acked, sendWaker, op, ask, result>>

\* ... or the peer's FIN, ...
ReceiveFin ==
    /\ RecvOpen
    /\ fin' = TRUE
    /\ state' = IF state = "Established" THEN "CloseWait" ELSE "LastAck"
    /\ WakeBoth
    /\ UNCHANGED <<buffers, op, ask, result>>

\* ... or an acknowledgement; ...
Ack ==
    /\ state # "Closed"
    /\ \E n \in 1 .. tx : tx' = tx - n /\ acked' = acked + n
    /\ WakeSend
    /\ UNCHANGED <<state, fin, rx, arrived, delivered, accepted, recvWaker, op, ask, result>>

\* ... or a reset, or the timeout of the socket aborts it.
Abort ==
    /\ state # "Closed" /\ state' = "Closed"
    /\ WakeBoth
    /\ UNCHANGED <<fin, buffers, op, ask, result>>

-----------------------------------------------------------------------------
(* The application.                                                         *)

\* It awaits another future: the task is being polled.
Start ==
    /\ op = "none"
    /\ op' \in {"read", "write", "flush"}
    /\ ask' \in 0 .. MaxAsk
    /\ op' = "flush" => ask' = 0
    /\ op' = "write" => accepted + ask' <= AppBytes
    /\ woken' = TRUE /\ result' = None
    /\ UNCHANGED <<state, fin, buffers, wakers>>

\* socket_mut().close(), between two futures.
Close ==
    /\ op = "none" /\ MaySend
    /\ state' = IF state = "Established" THEN "FinWait" ELSE "LastAck"
    /\ WakeBoth
    /\ UNCHANGED <<fin, buffers, op, ask, result>>

\* The task is polled for a reason of its own.
Nudge ==
    /\ op # "none" /\ ~woken /\ woken' = TRUE
    /\ UNCHANGED <<state, fin, buffers, wakers, op, ask, result>>

\* Poll::Ready
Ready(ok, n) ==
    /\ result' = [ok |-> ok, n |-> n]
    /\ op' = "none" /\ ask' = 0 /\ woken' = FALSE
    /\ UNCHANGED <<state, fin, wakers>>

\* Poll::Pending
Park == woken' = FALSE /\ UNCHANGED <<state, fin, buffers, op, ask, result>>

\* A slice of no bytes asks nothing of the socket.
PollEmpty ==
    /\ woken /\ op \in {"read", "write"} /\ ask = 0
    /\ Ready(TRUE, 0)
    /\ UNCHANGED buffers

\* read: recv_slice hands over what there is.
PollReadSome ==
    /\ woken /\ op = "read" /\ ask > 0 /\ rx > 0
    /\ LET n == Least(ask, rx) IN
          /\ rx' = rx - n /\ delivered' = delivered + n
          /\ Ready(TRUE, n)
    /\ UNCHANGED <<tx, arrived, accepted, acked>>

\* Mutant: the waker is not left with the socket.
PollReadForgets ==
    /\ woken /\ op = "read" /\ ask > 0 /\ rx = 0 /\ RecvOpen
    /\ UNCHANGED wakers
    /\ Park

PollReadWaits ==
    /\ woken /\ op = "read" /\ ask > 0 /\ rx = 0 /\ RecvOpen
    /\ recvWaker' = TRUE /\ UNCHANGED sendWaker
    /\ Park

\* Mutant: any end of the receive half is the end of the stream.
PollReadEndsAll ==
    /\ woken /\ op = "read" /\ ask > 0 /\ ~MayRecv
    /\ Ready(TRUE, 0)
    /\ UNCHANGED buffers

\* RecvError::Finished is the end of the stream, InvalidState an error.
PollReadEnds ==
    /\ woken /\ op = "read" /\ ask > 0 /\ ~MayRecv
    /\ Ready(fin, 0)
    /\ UNCHANGED buffers

\* Mutant: the whole slice is reported as written.
PollWriteAll ==
    /\ woken /\ op = "write" /\ ask > 0 /\ MaySend /\ tx < TxCap
    /\ tx' = tx + Least(ask, TxCap - tx) /\ accepted' = accepted + ask
    /\ Ready(TRUE, ask)
    /\ UNCHANGED <<rx, arrived, delivered, acked>>

\* write: send_slice takes what there is room for.
PollWriteSome ==
    /\ woken /\ op = "write" /\ ask > 0 /\ MaySend /\ tx < TxCap
    /\ LET n == Least(ask, TxCap - tx) IN
          /\ tx' = tx + n /\ accepted' = accepted + n
          /\ Ready(TRUE, n)
    /\ UNCHANGED <<rx, arrived, delivered, acked>>

\* Mutant: a full buffer is reported as it is.
PollWriteNothing ==
    /\ woken /\ op = "write" /\ ask > 0 /\ MaySend /\ tx = TxCap
    /\ Ready(TRUE, 0)
    /\ UNCHANGED buffers

PollWriteWaits ==
    /\ woken /\ op = "write" /\ ask > 0 /\ MaySend /\ tx = TxCap
    /\ sendWaker' = TRUE /\ UNCHANGED recvWaker
    /\ Park

PollWriteFails ==
    /\ woken /\ op = "write" /\ ask > 0 /\ ~MaySend
    /\ Ready(FALSE, 0)
    /\ UNCHANGED buffers

\* flush: the send queue is empty, ...
PollFlushDone ==
    /\ woken /\ op = "flush" /\ tx = 0
    /\ Ready(TRUE, 0)
    /\ UNCHANGED buffers

\* Mutants: flush does not wait for the acknowledgements; it leaves the wrong
\* waker.
PollFlushAtOnce ==
    /\ woken /\ op = "flush" /\ tx > 0 /\ MaySend
    /\ Ready(TRUE, 0)
    /\ UNCHANGED buffers

PollFlushOtherWaker ==
    /\ woken /\ op = "flush" /\ tx > 0 /\ MaySend
    /\ recvWaker' = TRUE /\ UNCHANGED sendWaker
    /\ Park

\* ... or there is more to wait for, ...
PollFlushWaits ==
    /\ woken /\ op = "flush" /\ tx > 0 /\ MaySend
    /\ sendWaker' = TRUE /\ UNCHANGED recvWaker
    /\ Park

\* ... or the send half is not open any more.
PollFlushFails ==
    /\ woken /\ op = "flush" /\ tx > 0 /\ ~MaySend
    /\ Ready(FALSE, 0)
    /\ UNCHANGED buffers

PollRead == PollReadSome \/ PollReadWaits \/ PollReadEnds
PollWrite == PollWriteSome \/ PollWriteWaits \/ PollWriteFails
PollFlush == PollFlushDone \/ PollFlushWaits \/ PollFlushFails
Poll == PollEmpty \/ PollRead \/ PollWrite \/ PollFlush

Interface == Receive \/ ReceiveFin \/ Ack \/ Abort
Next == Start \/ Close \/ Nudge \/ Poll \/ Interface

\* The executor polls a task that was woken; the network need do nothing.
Spec == Init /\ [][Next]_vars /\ WF_vars(Poll)
-----------------------------------------------------------------------------
(* Properties.                                                              *)

Typed ==
    /\ state \in {"Established", "CloseWait", "FinWait", "LastAck", "Closed"}
    /\ op \in {"none", "read", "write", "flush"} /\ ask \in 0 .. MaxAsk
    /\ fin \in BOOLEAN /\ woken \in BOOLEAN
    /\ recvWaker \in BOOLEAN /\ sendWaker \in BOOLEAN
    /\ result \in [ok : BOOLEAN, n : 0 .. MaxAsk]

Counted ==
    /\ rx \in 0 .. RxCap /\ tx \in 0 .. TxCap
    /\ arrived \in Nat /\ delivered \in Nat /\ accepted \in Nat /\ acked \in Nat
    /\ arrived = delivered + rx /\ accepted = acked + tx

\* Every variable keeps to its type, and no byte is lost between the slices of
\* the futures (read, write) and the peer.
TypeOK == Typed /\ Counted

\* What the future the task awaits is waiting for has come about.
CanReturn ==
    \/ ask = 0 /\ op \in {"read", "write"}
    \/ op = "read" /\ (rx > 0 \/ ~RecvOpen)
    \/ op = "write" /\ (tx < TxCap \/ ~MaySend)
    \/ op = "flush" /\ (tx = 0 \/ ~MaySend)

\* No wake-up is lost (register_recv_waker and register_send_waker before every
\* Pending): a task that sleeps waits for something that has not happened yet,
\* and has left its waker where that will be noticed.
NoLostWakeup ==
    op # "none" /\ ~woken =>
        /\ ~CanReturn
        /\ op = "read" => recvWaker
        /\ op \in {"write", "flush"} => sendWaker

\* read returns Ok(0) for a slice that has room only when the peer has closed
\* and everything it sent has been read: an abort never passes for the end of
\* the stream, by which the client delimits a body without a length.
EndIsTheEnd ==
    [][ op = "read" /\ ask > 0 /\ op' = "none" /\ result'.ok /\ result'.n = 0
          => fin /\ delivered' = arrived' ]_vars

\* write returns Ok(0) for no bytes only: write_all would give up on it.
WritesSomething ==
    [][ op = "write" /\ ask > 0 /\ op' = "none" /\ result'.ok => result'.n > 0 ]_vars

\* A flush that succeeds has waited until the peer acknowledged every byte.
FlushedIsAcked ==
    [][ op = "flush" /\ op' = "none" /\ result'.ok => acked' = accepted' ]_vars

\* A future whose event has come about is polled again and returns (the docs of
\* SmolTcpStream: the interface is to "wake pending reads/writes").
ReturnsWhenItCan == CanReturn ~> op = "none"
=============================================================================
