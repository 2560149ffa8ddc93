------------------------- MODULE SmolTcpStream_proof -------------------------
(***************************************************************************)
(* SmolTcpStream, for every size of the buffers and of the slices: no      *)
(* wake-up is lost, no byte is lost, and what the futures report is true.  *)
(***************************************************************************)
EXTENDS SmolTcpStream, TLAPS

IInv == TypeOK /\ NoLostWakeup

\* The smaller of two lengths.
LEMMA LeastFacts ==
    ASSUME NEW a \in Nat, NEW b \in Nat
    PROVE  /\ Least(a, b) \in Nat /\ Least(a, b) <= a /\ Least(a, b) <= b
           /\ a > 0 /\ b > 0 => Least(a, b) > 0
  BY DEF Least

\* The stream starts in the inductive invariant.
LEMMA InitIInv == Init => IInv
  <1> SUFFICES ASSUME Init PROVE IInv
    OBVIOUS
  <1>1. None \in [ok : BOOLEAN, n : 0 .. MaxAsk] /\ 0 \in 0 .. MaxAsk
    BY CapsAssumption DEF None
  <1>2. Typed
    BY <1>1 DEF Init, Typed
  <1>3. Counted
    BY CapsAssumption DEF Init, Counted
  <1>4. NoLostWakeup
    BY DEF Init, NoLostWakeup
  <1>5. QED
    BY <1>2, <1>3, <1>4 DEF IInv, TypeOK

\* Bytes that enter or leave the receive buffer are accounted for.
LEMMA RxCounted ==
    ASSUME Counted, NEW n \in Nat,
           UNCHANGED <<tx, accepted, acked>>,
           \/ rx + n <= RxCap /\ rx' = rx + n /\ arrived' = arrived + n /\ delivered' = delivered
           \/ n <= rx /\ rx' = rx - n /\ delivered' = delivered + n /\ arrived' = arrived
    PROVE  Counted'
  <1>1. ASSUME NEW a \in Nat, NEW d \in Nat, NEW r \in 0 .. RxCap, a = d + r
        PROVE  /\ r + n <= RxCap => r + n \in 0 .. RxCap /\ a + n = d + (r + n) /\ a + n \in Nat
               /\ n <= r => r - n \in 0 .. RxCap /\ a = (d + n) + (r - n) /\ d + n \in Nat
    BY <1>1, CapsAssumption
  <1>2. arrived \in Nat /\ delivered \in Nat /\ rx \in 0 .. RxCap /\ arrived = delivered + rx
    BY DEF Counted
  <1>3. /\ rx + n <= RxCap => rx + n \in 0 .. RxCap /\ arrived + n = delivered + (rx + n) /\ arrived + n \in Nat
        /\ n <= rx => rx - n \in 0 .. RxCap /\ arrived = (delivered + n) + (rx - n) /\ delivered + n \in Nat
    BY <1>1, <1>2
  <1>4. QED
    BY <1>3 DEF Counted

\* And so are those of the send buffer.
LEMMA TxCounted ==
    ASSUME Counted, NEW n \in Nat,
           UNCHANGED <<rx, arrived, delivered>>,
           \/ tx + n <= TxCap /\ tx' = tx + n /\ accepted' = accepted + n /\ acked' = acked
           \/ n <= tx /\ tx' = tx - n /\ acked' = acked + n /\ accepted' = accepted
    PROVE  Counted'
  <1>1. ASSUME NEW a \in Nat, NEW d \in Nat, NEW r \in 0 .. TxCap, a = d + r
        PROVE  /\ r + n <= TxCap => r + n \in 0 .. TxCap /\ a + n = d + (r + n) /\ a + n \in Nat
               /\ n <= r => r - n \in 0 .. TxCap /\ a = (d + n) + (r - n) /\ d + n \in Nat
    BY <1>1, CapsAssumption
  <1>2. accepted \in Nat /\ acked \in Nat /\ tx \in 0 .. TxCap /\ accepted = acked + tx
    BY DEF Counted
  <1>3. /\ tx + n <= TxCap => tx + n \in 0 .. TxCap /\ accepted + n = acked + (tx + n) /\ accepted + n \in Nat
        /\ n <= tx => tx - n \in 0 .. TxCap /\ accepted = (acked + n) + (tx - n) /\ acked + n \in Nat
    BY <1>1, <1>2
  <1>4. QED
    BY <1>3 DEF Counted

\* The interface poll: whoever waits for what it changes is woken.
LEMMA InterfaceStep == ASSUME IInv, Interface PROVE IInv'
  <1>1. Typed /\ Counted /\ NoLostWakeup
    BY DEF IInv, TypeOK
  <1>2. Typed'
    BY <1>1 DEF Interface, Receive, ReceiveFin, Ack, Abort, WakeRecv, WakeSend,
                WakeBoth, Typed
  <1>3. Counted'
    <2>1. rx \in Nat /\ tx \in Nat /\ rx <= RxCap
      BY <1>1, CapsAssumption DEF Counted
    <2>2. CASE Receive
      <3>1. PICK n \in 1 .. Least(RxCap - rx, PeerBytes - arrived) :
               rx' = rx + n /\ arrived' = arrived + n
        BY <2>2 DEF Receive
      <3>2. n \in Nat /\ n <= RxCap - rx
        <4>1. arrived \in Nat
          BY <1>1 DEF Counted
        <4>2. QED
          BY <2>1, <3>1, <4>1, CapsAssumption DEF Least
      <3>3. rx + n <= RxCap
        BY <2>1, <3>2, CapsAssumption
      <3>4. UNCHANGED <<tx, accepted, acked, delivered>>
        BY <2>2 DEF Receive
      <3>5. QED
        BY <1>1, <3>1, <3>2, <3>3, <3>4, RxCounted
    <2>3. CASE Ack
      <3>1. PICK n \in 1 .. tx : tx' = tx - n /\ acked' = acked + n
        BY <2>3 DEF Ack
      <3>2. n \in Nat /\ n <= tx
        BY <2>1, <3>1
      <3>3. UNCHANGED <<rx, arrived, delivered, accepted>>
        BY <2>3 DEF Ack
      <3>4. QED
        BY <1>1, <3>1, <3>2, <3>3, TxCounted
    <2>4. CASE ReceiveFin \/ Abort
      BY <1>1, <2>4 DEF ReceiveFin, Abort, buffers, Counted
    <2>5. QED
      BY <2>2, <2>3, <2>4 DEF Interface
  <1>4. NoLostWakeup'
    BY <1>1 DEF Interface, Receive, ReceiveFin, Ack, Abort, WakeRecv, WakeSend,
                WakeBoth, Typed, NoLostWakeup, CanReturn, RecvOpen, MaySend
  <1>5. QED
    BY <1>2, <1>3, <1>4 DEF IInv, TypeOK

\* A future that returns is no longer awaited, and its result is one it may have.
LEMMA ReadyStep ==
    ASSUME Typed, NEW ok \in BOOLEAN, NEW n \in 0 .. MaxAsk, Ready(ok, n)
    PROVE  Typed' /\ NoLostWakeup'
  <1>1. 0 \in 0 .. MaxAsk
    BY CapsAssumption
  <1>2. [ok |-> ok, n |-> n] \in [ok : BOOLEAN, n : 0 .. MaxAsk]
    OBVIOUS
  <1>3. Typed'
    BY <1>1, <1>2 DEF Ready, wakers, Typed
  <1>4. NoLostWakeup'
    BY DEF Ready, NoLostWakeup
  <1>5. QED
    BY <1>3, <1>4

\* The application: a future that is parked has left its waker.
LEMMA TaskStep == ASSUME IInv, Start \/ Close \/ Nudge \/ Poll PROVE IInv'
  <1>1. Typed /\ Counted /\ NoLostWakeup
    BY DEF IInv, TypeOK
  <1>2. /\ rx \in Nat /\ tx \in Nat /\ tx <= TxCap /\ TxCap - tx \in Nat
        /\ ask \in Nat /\ ask <= MaxAsk /\ 0 \in 0 .. MaxAsk
    BY <1>1, CapsAssumption DEF Counted, Typed
  <1>3. CASE Start
    <2>1. None \in [ok : BOOLEAN, n : 0 .. MaxAsk]
      BY <1>2 DEF None
    <2>2. Typed' /\ NoLostWakeup'
      BY <1>1, <1>3, <2>1 DEF Start, wakers, Typed, NoLostWakeup
    <2>3. Counted'
      BY <1>1, <1>3 DEF Start, buffers, Counted
    <2>4. QED
      BY <2>2, <2>3 DEF IInv, TypeOK
  <1>4. CASE Close \/ Nudge
    <2>1. Typed' /\ NoLostWakeup'
      BY <1>1, <1>4 DEF Close, Nudge, WakeBoth, wakers, Typed, NoLostWakeup
    <2>2. Counted'
      BY <1>1, <1>4 DEF Close, Nudge, buffers, Counted
    <2>3. QED
      BY <2>1, <2>2 DEF IInv, TypeOK
  <1>5. CASE PollEmpty \/ PollReadEnds \/ PollWriteFails \/ PollFlushDone \/ PollFlushFails
    <2>1. UNCHANGED buffers
      BY <1>5 DEF PollEmpty, PollReadEnds, PollWriteFails, PollFlushDone, PollFlushFails
    <2>2. PICK ok \in BOOLEAN : Ready(ok, 0)
      BY <1>1, <1>5 DEF PollEmpty, PollReadEnds, PollWriteFails, PollFlushDone,
                        PollFlushFails, Typed
    <2>3. Typed' /\ NoLostWakeup'
      BY <1>1, <1>2, <2>2, ReadyStep
    <2>4. Counted'
      BY <1>1, <2>1 DEF buffers, Counted
    <2>5. QED
      BY <2>3, <2>4 DEF IInv, TypeOK
  <1>6. CASE PollReadSome
    <2>1. PICK n \in Nat : n = Least(ask, rx) /\ n <= ask /\ n <= rx
      BY <1>2, LeastFacts
    <2>2. /\ rx' = rx - n /\ delivered' = delivered + n /\ Ready(TRUE, n)
          /\ UNCHANGED <<tx, arrived, accepted, acked>>
      BY <1>6, <2>1 DEF PollReadSome
    <2>3. n \in 0 .. MaxAsk
      BY <1>2, <2>1, CapsAssumption
    <2>4. Typed' /\ NoLostWakeup'
      BY <1>1, <2>2, <2>3, ReadyStep
    <2>5. Counted'
      BY <1>1, <2>1, <2>2, RxCounted
    <2>6. QED
      BY <2>4, <2>5 DEF IInv, TypeOK
  <1>7. CASE PollWriteSome
    <2>1. PICK n \in Nat : n = Least(ask, TxCap - tx) /\ n <= ask /\ n <= TxCap - tx
      BY <1>2, LeastFacts
    <2>2. /\ tx' = tx + n /\ accepted' = accepted + n /\ Ready(TRUE, n)
          /\ UNCHANGED <<rx, arrived, delivered, acked>>
      BY <1>7, <2>1 DEF PollWriteSome
    <2>3. n \in 0 .. MaxAsk /\ tx + n <= TxCap
      BY <1>2, <2>1, CapsAssumption
    <2>4. Typed' /\ NoLostWakeup'
      BY <1>1, <2>2, <2>3, ReadyStep
    <2>5. Counted'
      BY <1>1, <2>1, <2>2, <2>3, TxCounted
    <2>6. QED
      BY <2>4, <2>5 DEF IInv, TypeOK
  <1>8. CASE PollReadWaits \/ PollWriteWaits \/ PollFlushWaits
    <2>1. Typed'
      BY <1>1, <1>8 DEF PollReadWaits, PollWriteWaits, PollFlushWaits, Park, Typed
    <2>2. Counted'
      BY <1>1, <1>8 DEF PollReadWaits, PollWriteWaits, PollFlushWaits, Park, buffers,
                        Counted
    <2>3. NoLostWakeup'
      BY <1>2, <1>8 DEF PollReadWaits, PollWriteWaits, PollFlushWaits, Park, buffers,
                        NoLostWakeup, CanReturn, RecvOpen, MaySend
    <2>4. QED
      BY <2>1, <2>2, <2>3 DEF IInv, TypeOK
  <1>9. QED
    BY <1>3, <1>4, <1>5, <1>6, <1>7, <1>8 DEF Poll, PollRead, PollWrite, PollFlush

\* Every step keeps the inductive invariant.
LEMMA StepIInv == IInv /\ [Next]_vars => IInv'
  <1> SUFFICES ASSUME IInv, [Next]_vars PROVE IInv'
    OBVIOUS
  <1>1. CASE Interface
    BY <1>1, InterfaceStep
  <1>2. CASE Start \/ Close \/ Nudge \/ Poll
    BY <1>2, TaskStep
  <1>3. CASE UNCHANGED vars
    BY <1>3 DEF vars, buffers, wakers, IInv, TypeOK, Typed, Counted, NoLostWakeup,
                CanReturn, RecvOpen, MaySend
  <1>4. QED
    BY <1>1, <1>2, <1>3 DEF Next

THEOREM Inductive == Spec => []IInv
  BY InitIInv, StepIInv, PTL DEF Spec

\* The adapter and the socket account for every byte, in both directions.
THEOREM TypeCorrect == Spec => []TypeOK
  BY Inductive, PTL DEF IInv

\* No interleaving of the interface poll with the futures loses a wake-up.
THEOREM WakeupsKept == Spec => []NoLostWakeup
  BY Inductive, PTL DEF IInv

\* Only the polls make a future return, with the result they say.
LEMMA Returns ==
    ASSUME IInv, [Next]_vars, op # "none", op' = "none"
    PROVE  Poll /\ ~(PollReadWaits \/ PollWriteWaits \/ PollFlushWaits)
  BY DEF Next, Interface, Receive, ReceiveFin, Ack, Abort, Start, Close, Nudge, vars,
         PollReadWaits, PollWriteWaits, PollFlushWaits, Park

\* Ok(0) from a read means that the peer has closed and all was read.
THEOREM EndIsTrue == Spec => EndIsTheEnd
  <1>1. ASSUME IInv, [Next]_vars, op = "read", ask > 0, op' = "none",
               result'.ok, result'.n = 0
        PROVE  fin /\ delivered' = arrived'
    <2>1. Poll /\ ~PollReadWaits
      BY <1>1, Returns
    <2> PollReadSome \/ PollReadEnds
      <3>1. ask # 0
        BY <1>1 DEF IInv, TypeOK, Typed
      <3>2. ~(PollEmpty \/ PollWrite \/ PollFlush)
        BY <1>1, <3>1 DEF PollEmpty, PollWrite, PollFlush, PollWriteSome, PollWriteWaits,
           PollWriteFails, PollFlushDone, PollFlushWaits, PollFlushFails
      <3>3. QED
        BY <2>1, <3>2 DEF Poll, PollRead
    <2>2. CASE PollReadSome
      <3>1. ask \in Nat /\ rx \in Nat /\ rx > 0
        BY <1>1, <2>2 DEF IInv, TypeOK, Typed, Counted, PollReadSome
      <3>2. Least(ask, rx) > 0 /\ Least(ask, rx) \in Nat
        BY <1>1, <3>1, LeastFacts
      <3>3. result'.n = Least(ask, rx)
        BY <2>2 DEF PollReadSome, Ready
      <3>4. QED
        BY <1>1, <3>2, <3>3
    <2>3. CASE PollReadEnds
      <3>1. result'.ok = fin /\ rx \in Nat /\ ~(rx > 0)
        BY <1>1, <2>3 DEF PollReadEnds, Ready, IInv, TypeOK, Counted, MayRecv
      <3>2. delivered' = delivered /\ arrived' = arrived
        BY <2>3 DEF PollReadEnds, buffers
      <3>3. arrived = delivered + rx /\ delivered \in Nat
        BY <1>1 DEF IInv, TypeOK, Counted
      <3>4. QED
        BY <1>1, <3>1, <3>2, <3>3
    <2>4. QED
      BY <2>2, <2>3
  <1>2. QED
    BY <1>1, Inductive, PTL DEF Spec, EndIsTheEnd

\* An empty slice is one that asks for nothing.
LEMMA AsksSome == IInv /\ ask > 0 => ask # 0
  BY DEF IInv, TypeOK, Typed

\* A write that succeeds for a slice with bytes in it has taken some, so that
\* write_all never gives up on a full send buffer.
THEOREM WritesMove == Spec => WritesSomething
  <1>1. ASSUME IInv, [Next]_vars, op = "write", ask > 0, op' = "none", result'.ok
        PROVE  result'.n > 0
    <2>1. PollWriteSome \/ PollWriteFails
      <3>1. Poll /\ ~PollWriteWaits
        BY <1>1, Returns
      <3>2. ~(PollEmpty \/ PollRead \/ PollFlush)
        BY <1>1, AsksSome DEF PollEmpty, PollRead, PollFlush, PollReadSome, PollReadWaits,
           PollReadEnds, PollFlushDone, PollFlushWaits, PollFlushFails
      <3>3. QED
        BY <3>1, <3>2 DEF Poll, PollWrite
    <2>2. PollWriteSome
      BY <1>1, <2>1 DEF PollWriteFails, Ready
    <2>3. ask \in Nat /\ TxCap - tx \in Nat /\ TxCap - tx > 0
      BY <1>1, <2>2, CapsAssumption DEF IInv, TypeOK, Typed, Counted, PollWriteSome
    <2>4. Least(ask, TxCap - tx) > 0
      BY <1>1, <2>3, LeastFacts
    <2>5. result'.n = Least(ask, TxCap - tx)
      BY <2>2 DEF PollWriteSome, Ready
    <2>6. QED
      BY <2>4, <2>5
  <1>2. QED
    BY <1>1, Inductive, PTL DEF Spec, WritesSomething

\* A flush that succeeds left nothing unacknowledged.
THEOREM FlushIsTrue == Spec => FlushedIsAcked
  <1>1. ASSUME IInv, [Next]_vars, op = "flush", op' = "none", result'.ok
        PROVE  acked' = accepted'
    <2>1. PollFlushDone \/ PollFlushFails
      BY <1>1, Returns DEF Poll, PollRead, PollEmpty, PollWrite, PollFlush,
         PollReadSome, PollReadEnds, PollWriteSome, PollWriteFails
    <2>2. tx = 0 /\ acked' = acked /\ accepted' = accepted
      BY <1>1, <2>1 DEF PollFlushDone, PollFlushFails, Ready, buffers
    <2>3. accepted = acked + tx /\ acked \in Nat
      BY <1>1 DEF IInv, TypeOK, Counted
    <2>4. QED
      BY <2>2, <2>3
  <1>2. QED
    BY <1>1, Inductive, PTL DEF Spec, FlushedIsAcked
=============================================================================
