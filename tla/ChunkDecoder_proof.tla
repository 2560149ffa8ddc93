------------------------- MODULE ChunkDecoder_proof -------------------------
(***************************************************************************)
(* ChunkDecoder, for every chunk layout, every prefix that was received    *)
(* and every width of usize: the loop computes what HttpWire says of       *)
(* dechunk, in place.                                                      *)
(***************************************************************************)
EXTENDS ChunkDecoder, TLAPS

\* The chunks of a response lie one behind the other (HttpWire).
LEMMA LayoutFacts ==
    ASSUME NEW w \in Wires
    PROVE  /\ w.head \in Nat /\ w.sent \in Nat
           /\ Len(w.chunks) \in Nat /\ DOMAIN w.chunks = 1 .. Len(w.chunks)
           /\ \A i \in DOMAIN w.chunks :
                /\ w.chunks[i].at \in Nat /\ w.chunks[i].data \in Nat
                /\ w.chunks[i].end \in Nat /\ w.chunks[i].hex \in BOOLEAN
                /\ w.chunks[i].at + CRLF_LEN <= w.chunks[i].data
                /\ w.chunks[i].data <= w.chunks[i].end
                /\ i > 1 => w.chunks[i].at = w.chunks[i - 1].end + CRLF_LEN
                /\ i < Len(w.chunks)
                     <=> w.chunks[i].hex /\ w.chunks[i].data < w.chunks[i].end
                /\ \A j \in DOMAIN w.chunks :
                      j > i => w.chunks[j].at >= w.chunks[i].end + CRLF_LEN
           /\ w.framing = "chunked" => 1 \in DOMAIN w.chunks /\ w.chunks[1].at = w.head
  <1>1. IsMessage(w) /\ IsLayout(w.head, w.chunks)
    BY WiresAssumption DEF IsResponse, IsMessage
  <1>2. /\ Len(w.chunks) \in Nat /\ DOMAIN w.chunks = 1 .. Len(w.chunks)
        /\ w.chunks # <<>> => 1 \in DOMAIN w.chunks
    BY <1>1 DEF IsMessage
  <1>3. QED
    BY <1>1, <1>2 DEF IsMessage, IsLayout, IsChunk

\* Written and DataBefore are what the loop starts from: nothing.
LEMMA NothingBefore ==
    ASSUME NEW w \in Wires PROVE DataBefore(w, 1) = {}
  BY LayoutFacts DEF DataBefore

\* dechunk starts in the inductive invariant.
LEMMA InitIInv == Init => IInv
  <1> SUFFICES ASSUME Init PROVE IInv
    OBVIOUS
  <1>1. /\ wire \in Wires /\ wire.head \in Nat /\ wire.sent \in Nat
        /\ total \in Nat /\ total <= wire.sent
        /\ buffer = [k \in Bytes(0, total) |-> k]
        /\ read_pos = wire.head /\ write_pos = wire.head /\ next = 1
        /\ outcome = "pending"
        /\ wire.framing = "chunked" => wire.head <= total
        /\ Len(wire.chunks) \in Nat
    <2>1. wire \in Wires /\ wire.head \in Nat /\ wire.sent \in Nat
      BY LayoutFacts DEF Init
    <2>2. QED
      BY <2>1, LayoutFacts DEF Init, Complete, HeadersEnded
  <1>2. TypeOK
    BY <1>1 DEF TypeOK
  <1>3. Progress
    <2>a. \A k \in Bytes(0, total) : buffer[k] = k
      BY <1>1
    <2>1. SUFFICES ASSUME wire.framing = "chunked" PROVE Progress
      BY <2>a DEF Progress
    <2>2. next \in DOMAIN wire.chunks /\ read_pos = wire.chunks[next].at
      BY <1>1, <2>1, LayoutFacts
    <2>3. Written = {}
      BY <1>1 DEF Written, Bytes
    <2>4. \A j \in DOMAIN wire.chunks : ~(j < next)
      BY <1>1, LayoutFacts
    <2>5. QED
      BY <1>1, <2>1, <2>2, <2>3, <2>4, NothingBefore DEF Progress
  <1>4. DecodesBody /\ FailsWithCause
    BY <1>1 DEF DecodesBody, FailsWithCause
  <1>5. QED
    BY <1>2, <1>3, <1>4 DEF IInv

\* A return from the loop: only the outcome changes.
LEMMA ReturnStep ==
    ASSUME IInv, outcome = "pending", wire.framing = "chunked", NEW o \in {"Ok", "Err", "panic"}, Return(o),
           DecodesBody', FailsWithCause'
    PROVE  IInv'
  <1>1. TypeOK'
    BY DEF IInv, TypeOK, Return
  <1>2. outcome' # "pending"
    BY DEF Return
  <1>3. QED
    BY <1>1, <1>2 DEF IInv

\* When the loop ends without an error, what it has written is the body.
LEMMA EndStep ==
    ASSUME IInv, outcome = "pending", wire.framing = "chunked",
           \/ read_pos >= total
           \/ Chunk.data > total
           \/ Chunk.hex /\ Chunk.end = Chunk.data,
           Return("Ok")
    PROVE  IInv'
  <1>1. /\ wire \in Wires /\ total \in Nat /\ Progress
        /\ next \in DOMAIN wire.chunks /\ read_pos = Chunk.at
        /\ wire.head <= total
    BY DEF IInv, TypeOK, Progress, Chunk
  <1>2. /\ Chunk.at \in Nat /\ Chunk.data \in Nat /\ Chunk.end \in Nat
        /\ Chunk.at + 2 <= Chunk.data /\ Chunk.data <= Chunk.end
    BY <1>1, LayoutFacts DEF Chunk, CRLF_LEN
  <1>3. \/ Chunk.data > total
        \/ Chunk.hex /\ Chunk.end = Chunk.data
    BY <1>1, <1>2
  <1>4. \A j \in DOMAIN wire.chunks :
           j > next => wire.chunks[j].data > total /\ wire.chunks[j].end > total
    <2>1. TAKE j \in DOMAIN wire.chunks
    <2>2. HAVE j > next
    <2>3. /\ wire.chunks[j].at \in Nat /\ wire.chunks[j].data \in Nat
          /\ wire.chunks[j].end \in Nat
          /\ wire.chunks[j].at + 2 <= wire.chunks[j].data
          /\ wire.chunks[j].data <= wire.chunks[j].end
          /\ wire.chunks[j].at >= Chunk.end + 2
      BY <1>1, <2>2, LayoutFacts DEF Chunk, CRLF_LEN
    <2>4. CASE Chunk.data > total
      BY <1>1, <1>2, <2>3, <2>4
    <2>5. CASE Chunk.hex /\ Chunk.end = Chunk.data
      \* the size 0 is that of the last chunk, so there is no j
      BY <1>1, <2>2, <2>5, LayoutFacts DEF Chunk
    <2>6. QED
      BY <1>3, <2>4, <2>5
  <1>5. ~DechunkFails(wire, total)
    <2>1. SUFFICES ASSUME NEW j \in DOMAIN wire.chunks, wire.chunks[j].data <= total
                   PROVE  wire.chunks[j].hex /\ wire.chunks[j].end <= total
      BY <1>1, LayoutFacts DEF DechunkFails
    <2>2. next \in Nat /\ j \in Nat /\ wire.chunks[j].data \in Nat
      BY <1>1, LayoutFacts
    <2>3. CASE j < next
      BY <1>1, <2>3 DEF Progress, IInv, TypeOK
    <2>4. CASE j = next
      BY <1>1, <1>2, <1>3, <2>1, <2>4 DEF Chunk
    <2>5. CASE j > next
      BY <1>1, <1>4, <2>1, <2>2, <2>5
    <2>6. QED
      BY <2>2, <2>3, <2>4, <2>5
  <1>6. ChunkData(wire, total) = DataBefore(wire, next)
    <2>1. ASSUME NEW j \in DOMAIN wire.chunks, wire.chunks[j].end <= total, ~(j < next)
          PROVE  Bytes(wire.chunks[j].data, wire.chunks[j].end) = {}
      <3>1. j \in Nat /\ next \in Nat /\ wire.chunks[j].end \in Nat
        BY <1>1, LayoutFacts
      <3>2. j = next
        BY <1>1, <1>4, <2>1, <3>1
      <3>3. Chunk.end = Chunk.data
        BY <1>1, <1>2, <1>3, <2>1, <3>2 DEF Chunk
      <3>4. QED
        BY <1>2, <3>2, <3>3 DEF Bytes, Chunk
    <2>2. \A j \in DOMAIN wire.chunks : j < next => wire.chunks[j].end <= total
      BY <1>1 DEF Progress
    <2>3. QED
      BY <2>1, <2>2 DEF ChunkData, DataBefore
  <1>7. DecodesBody' /\ FailsWithCause'
    <2>1. UNCHANGED <<wire, total, buffer, write_pos>> /\ outcome' = "Ok"
      BY DEF Return
    <2>2. { buffer[k] : k \in Written } = Delivered(wire, total)
      BY <1>1, <1>6 DEF Progress, Delivered
    <2>3. \A k, l \in Written : k < l => buffer[k] < buffer[l]
      BY <1>1 DEF Progress
    <2>4. Written' = Written
      BY <2>1 DEF Written
    <2>5. DecodesBody'
      BY <1>5, <2>1, <2>2, <2>3, <2>4 DEF DecodesBody
    <2>6. QED
      BY <2>1, <2>5 DEF FailsWithCause
  <1>8. QED
    BY <1>7, ReturnStep

\* The moved bytes are the data of the chunk.
LEMMA MovedSet ==
    ASSUME NEW to \in Nat, NEW data \in Nat, NEW end \in Nat, data < end,
           NEW g, \A k \in Bytes(to, to + (end - data)) : g[k] = data + (k - to)
    PROVE  { g[k] : k \in Bytes(to, to + (end - data)) } = Bytes(data, end)
  <1>1. ASSUME NEW o \in Bytes(data, end)
        PROVE  \E k \in Bytes(to, to + (end - data)) : g[k] = o
    <2>1. /\ to + (o - data) \in Bytes(to, to + (end - data))
          /\ data + ((to + (o - data)) - to) = o
      BY DEF Bytes
    <2>2. g[to + (o - data)] = data + ((to + (o - data)) - to)
      BY <2>1
    <2>3. QED
      BY <2>1, <2>2
  <1>2. ASSUME NEW k \in Bytes(to, to + (end - data))
        PROVE  g[k] \in Bytes(data, end)
    <2>1. data + (k - to) \in Bytes(data, end)
      BY DEF Bytes
    <2>2. QED
      BY <2>1
  <1>3. QED
    BY <1>1, <1>2

\* Where the moved bytes come to lie, and where they come from.
LEMMA MovedPlaces ==
    ASSUME NEW n \in Nat, NEW to \in Nat, NEW at \in Nat, NEW data \in Nat,
           NEW end \in Nat, to <= at, at <= data, data < end, end <= n,
           NEW k \in Bytes(to, to + (end - data))
    PROVE  /\ k \in Bytes(0, n) /\ k \in Int /\ k >= to
           /\ data + (k - to) \in Bytes(0, n)
           /\ data + (k - to) \in Nat
           /\ data + (k - to) >= at /\ data + (k - to) >= data
           /\ data + (k - to) < end + 2
  BY DEF Bytes

\* They lie behind what is written, and the two are what is written next.
LEMMA MovedBehind ==
    ASSUME NEW head \in Nat, NEW to \in Nat, NEW data \in Nat, NEW end \in Nat,
           head <= to, data < end
    PROVE  /\ Bytes(head, to + (end - data))
                = Bytes(head, to) \cup Bytes(to, to + (end - data))
           /\ \A k, l \in Bytes(to, to + (end - data)) :
                 k < l => data + (k - to) < data + (l - to)
  BY DEF Bytes

\* Neither the header block nor what follows the chunk is among them.
LEMMA MovedElsewhere ==
    ASSUME NEW head \in Nat, NEW to \in Nat, NEW at \in Nat, NEW data \in Nat,
           NEW end \in Nat, head <= to, to <= at, at <= data, data < end,
           NEW k \in Int, k < head \/ k >= end + 2
    PROVE  (k < head \/ k >= at) /\ k \notin Bytes(to, to + (end - data))
  BY DEF Bytes

\* A chunk is moved: the next one is the one after it, and its data are added
\* to what is written.
LEMMA MoveStep == ASSUME IInv, Move PROVE IInv'
  <1>0. /\ wire \in Wires /\ total \in Nat /\ Progress
        /\ buffer \in [Bytes(0, total) -> Bytes(0, total)]
        /\ wire.framing = "chunked" /\ outcome = "pending"
        /\ next \in DOMAIN wire.chunks /\ read_pos = Chunk.at
        /\ wire.head \in Nat /\ wire.head <= total
        /\ write_pos \in Nat /\ wire.head <= write_pos /\ write_pos <= Chunk.at
    BY LayoutFacts DEF Move, Sized, AtChunk, IInv, TypeOK, Progress, Chunk
  <1>a. PICK at \in Nat, data \in Nat, end \in Nat :
          /\ at = Chunk.at /\ data = Chunk.data /\ end = Chunk.end
          /\ at + 2 <= data /\ data < end
    BY <1>0, LayoutFacts DEF Move, Sized, Chunk, CRLF_LEN
  <1>b. PICK n \in Nat, head \in Nat, to \in Nat :
          n = total /\ head = wire.head /\ to = write_pos
    BY <1>0
  <1>1. /\ wire \in Wires /\ Progress
        /\ buffer \in [Bytes(0, n) -> Bytes(0, n)]
        /\ wire.framing = "chunked" /\ outcome = "pending"
        /\ next \in DOMAIN wire.chunks /\ read_pos = at
        /\ head <= n /\ head <= to /\ to <= at
    BY <1>0, <1>a, <1>b
  <1>2. Chunk.hex /\ end <= n /\ at <= data
    BY <1>a, <1>b DEF Move, Sized
  <1>d. /\ to <= at /\ at <= data /\ data < end /\ end <= n
        /\ head <= to /\ head <= n
    BY <1>1, <1>2, <1>a
  <1>3. /\ next + 1 \in DOMAIN wire.chunks
        /\ wire.chunks[next + 1].at = end + 2
        /\ next \in Nat
    <2>1. next < Len(wire.chunks) /\ next \in Nat /\ next > 0
      BY <1>1, <1>2, <1>a, LayoutFacts DEF Chunk
    <2>2. next + 1 \in DOMAIN wire.chunks /\ next + 1 > 1 /\ (next + 1) - 1 = next
      BY <1>1, <2>1, LayoutFacts
    <2>3. wire.chunks[next + 1].at = wire.chunks[(next + 1) - 1].end + CRLF_LEN
      BY <1>1, <2>2, LayoutFacts
    <2>4. QED
      BY <1>a, <2>1, <2>2, <2>3 DEF Chunk, CRLF_LEN
  <1>4. /\ write_pos' = to + (end - data)
        /\ read_pos' = end + 2 /\ next' = next + 1
        /\ UNCHANGED <<wire, total, outcome>>
    BY <1>a, <1>b DEF Move, CRLF_LEN
  <1>c. PICK new : new = Bytes(to, to + (end - data))
    OBVIOUS
  <1>5. /\ buffer' \in [Bytes(0, n) -> Bytes(0, n)]
        /\ \A k \in new : k \in Bytes(0, n) /\ buffer'[k] = data + (k - to)
        /\ \A k \in Bytes(0, n) : k \notin new => buffer'[k] = buffer[k]
    <2>1. buffer' = [k \in Bytes(0, n) |->
                        IF k \in Bytes(to, to + (end - data))
                          THEN buffer[data + (k - to)] ELSE buffer[k]]
      <3>1. DOMAIN buffer = Bytes(0, n)
        BY <1>1
      <3>2. QED
        BY <1>a, <1>b, <3>1 DEF Move, CopyWithin
    <2>2. \A k \in Bytes(0, n) : k < head \/ k >= at => buffer[k] = k
      BY <1>0, <1>a, <1>b DEF Progress
    <2>3. ASSUME NEW k \in new
          PROVE  /\ k \in Bytes(0, n)
                 /\ data + (k - to) \in Bytes(0, n)
                 /\ data + (k - to) >= at
      BY <1>c, <1>d, <2>3, MovedPlaces
    <2>4. \A k \in new : k \in Bytes(0, n) /\ buffer'[k] = data + (k - to)
      BY <1>c, <2>1, <2>2, <2>3
    <2>5. \A k \in Bytes(0, n) : k \notin new => buffer'[k] = buffer[k]
      BY <1>c, <2>1
    <2>6. \A k \in Bytes(0, n) : buffer'[k] \in Bytes(0, n)
      BY <1>1, <2>3, <2>4, <2>5
    <2>7. buffer' \in [Bytes(0, n) -> Bytes(0, n)]
      BY <2>1, <2>6
    <2>8. QED
      BY <2>4, <2>5, <2>7
  <1>6. /\ Written' = Written \cup new
        /\ Written \subseteq Bytes(0, n)
        /\ \A k \in Written : k \notin new
        /\ \A k \in Written, l \in new : ~(l < k) /\ l # k
        /\ \A k, l \in new :
              k < l => data + (k - to) < data + (l - to)
        /\ \A k \in new : /\ data + (k - to) \in Nat
                          /\ data + (k - to) >= data
                          /\ data + (k - to) < end + 2
        /\ \A k \in Bytes(0, n) :
              k < head \/ k >= end + 2 =>
                (k < head \/ k >= at) /\ k \notin new
        /\ write_pos' \in Nat /\ write_pos' <= end + 2
        /\ head <= write_pos' /\ write_pos' <= n
    <2>1. Written = Bytes(head, to) /\ Written' = Bytes(head, to + (end - data))
      BY <1>b, <1>4 DEF Written
    <2>2. /\ Written' = Written \cup new
          /\ \A k \in Written : k \notin new
          /\ \A k \in Written, l \in new : ~(l < k) /\ l # k
          /\ \A k, l \in new : k < l => data + (k - to) < data + (l - to)
      <3>1. Bytes(head, to + (end - data)) = Bytes(head, to) \cup new
        BY <1>c, <1>d, MovedBehind
      <3>2. \A k \in Bytes(head, to), l \in new : ~(l < k) /\ l # k
        BY <1>c DEF Bytes
      <3>3. \A k, l \in new : k < l => data + (k - to) < data + (l - to)
        BY <1>c, <1>d, MovedBehind
      <3>4. QED
        BY <2>1, <3>1, <3>2, <3>3
    <2>3. Written \subseteq Bytes(0, n)
      BY <1>d, <2>1 DEF Bytes
    <2>4. \A k \in new : /\ data + (k - to) \in Nat
                         /\ data + (k - to) >= data
                         /\ data + (k - to) < end + 2
      BY <1>c, <1>d, MovedPlaces
    <2>5. \A k \in Bytes(0, n) :
             k < head \/ k >= end + 2 =>
               (k < head \/ k >= at) /\ k \notin new
      <3>1. \A k \in Bytes(0, n) : k \in Int
        BY DEF Bytes
      <3>2. TAKE k \in Bytes(0, n)
      <3>3. HAVE k < head \/ k >= end + 2
      <3>4. k \in Int
        BY <3>1
      <3>5. QED
        BY <1>c, <1>d, <3>3, <3>4, MovedElsewhere
    <2>6. LET p == to + (end - data)
          IN  p \in Nat /\ p <= end + 2 /\ head <= p /\ p <= n
      BY <1>d
    <2>7. QED
      BY <1>4, <2>2, <2>3, <2>4, <2>5, <2>6
  <1>7. TypeOK'
    <2>1. next' \in 1 .. Len(wire.chunks) + 1
      BY <1>1, <1>3, <1>4, LayoutFacts
    <2>2. total \in Nat /\ total <= wire.sent
      BY DEF IInv, TypeOK
    <2>3. QED
      BY <1>b, <1>1, <1>4, <1>5, <1>6, <2>1, <2>2 DEF TypeOK
  <1>8. \A k \in Written : buffer'[k] = buffer[k]
    BY <1>5, <1>6
  <1>9. { buffer'[k] : k \in new } = Bytes(data, end)
    BY <1>a, <1>b, <1>c, <1>5, MovedSet
  <1>10. DataBefore(wire, next + 1) = DataBefore(wire, next) \cup Bytes(data, end)
    <2>1. { l \in DOMAIN wire.chunks : l < next + 1 }
            = { l \in DOMAIN wire.chunks : l < next } \cup {next}
      BY <1>1, <1>3, LayoutFacts
    <2>2. QED
      BY <1>a, <2>1 DEF DataBefore, Chunk
  <1>11. \A k \in Written : buffer[k] \in Nat /\ buffer[k] < at
    BY <1>1, <1>6 DEF Progress, Bytes
  <1>12. Progress'
    <2>1. wire.head <= write_pos' /\ write_pos' <= read_pos'
      BY <1>b, <1>4, <1>6
    <2>2. next' \in DOMAIN wire.chunks /\ read_pos' = wire.chunks[next'].at
      BY <1>3, <1>4
    <2>3. \A j \in DOMAIN wire.chunks :
             j < next' => wire.chunks[j].hex /\ wire.chunks[j].end <= total
      <3>1. TAKE j \in DOMAIN wire.chunks
      <3>2. HAVE j < next'
      <3>3. j < next \/ j = next
        BY <1>1, <1>3, <1>4, <3>2, LayoutFacts
      <3>4. QED
        BY <1>a, <1>b, <1>1, <1>2, <3>3 DEF Progress, Chunk
    <2>4. \A k \in Written' : buffer'[k] < read_pos'
      <3>1. \A k \in Written : buffer'[k] < read_pos'
        BY <1>a, <1>4, <1>8, <1>11
      <3>2. \A k \in new : buffer'[k] < read_pos'
        BY <1>4, <1>5, <1>6
      <3>3. QED
        BY <1>6, <3>1, <3>2
    <2>5. { buffer'[k] : k \in Written' } = DataBefore(wire, next')
      <3>1. { buffer'[k] : k \in Written } = DataBefore(wire, next)
        BY <1>1, <1>8 DEF Progress
      <3>2. { buffer'[k] : k \in Written' }
              = { buffer'[k] : k \in Written } \cup { buffer'[k] : k \in new }
        BY <1>6
      <3>3. QED
        BY <1>4, <1>9, <1>10, <3>1, <3>2
    <2>6. \A k, l \in Written' : k < l => buffer'[k] < buffer'[l]
      <3>1. TAKE k, l \in Written'
      <3>2. HAVE k < l
      <3>3. CASE k \in Written /\ l \in Written
        BY <1>1, <1>8, <3>2, <3>3 DEF Progress
      <3>4. CASE k \in Written /\ l \in new
        BY <1>a, <1>5, <1>6, <1>8, <1>11, <3>4
      <3>5. CASE k \in new /\ l \in new
        BY <1>5, <1>6, <3>2, <3>5
      <3>6. CASE k \in new /\ l \in Written
        BY <1>6, <3>2, <3>6
      <3>7. QED
        BY <1>6, <3>3, <3>4, <3>5, <3>6
    <2>7. \A k \in Bytes(0, total) :
             k < wire.head \/ k >= read_pos' => buffer'[k] = k
      <3>1. TAKE k \in Bytes(0, total)
      <3>2. HAVE k < wire.head \/ k >= read_pos'
      <3>3. (k < head \/ k >= at) /\ k \notin new /\ k \in Bytes(0, n)
        BY <1>b, <1>4, <1>6, <3>2
      <3>4. buffer[k] = k
        BY <1>b, <1>1, <3>3 DEF Progress
      <3>5. QED
        BY <1>5, <3>3, <3>4
    <2>8. QED
      BY <1>b, <1>1, <1>4, <2>1, <2>2, <2>3, <2>4, <2>5, <2>6, <2>7 DEF Progress
  <1>13. DecodesBody' /\ FailsWithCause'
    BY <1>1, <1>4 DEF DecodesBody, FailsWithCause
  <1>14. QED
    BY <1>7, <1>12, <1>13 DEF IInv

\* An error is one that ResponseReader knows of, or an overflow.
LEMMA FailStep == ASSUME IInv, BadSize \/ TooLong \/ Overflow PROVE IInv'
  <1>1. /\ wire \in Wires /\ total \in Nat /\ wire.head \in Nat /\ wire.head <= total
        /\ wire.framing = "chunked" /\ outcome = "pending"
        /\ next \in DOMAIN wire.chunks /\ Chunk.data <= total
        /\ Chunk.data \in Nat /\ Chunk.end \in Nat
    BY LayoutFacts DEF BadSize, TooLong, Overflow, Sized, AtChunk, IInv, TypeOK,
                       Progress, Chunk
  <1>2. total <= MaxUsize
    BY <1>1, WiresAssumption, LayoutFacts DEF IInv, TypeOK
  <1>3. ~Chunk.hex \/ Chunk.end > total
    BY <1>1, <1>2, WiresAssumption DEF BadSize, TooLong, Overflow, Sized
  <1>4. DechunkFails(wire, total)
    BY <1>1, <1>3 DEF DechunkFails, HeadersEnded, Chunk
  <1>5. PICK o \in {"Err", "panic"} :
          Return(o) /\ (o = "panic" => Chunk.end > MaxUsize)
    BY DEF BadSize, TooLong, Overflow
  <1>6. DecodesBody' /\ FailsWithCause'
    BY <1>1, <1>4, <1>5 DEF Return, DecodesBody, FailsWithCause, Chunk
  <1>7. QED
    BY <1>1, <1>5, <1>6, ReturnStep

\* A response that is not chunked is left as it is.
LEMMA UnchunkedStep == ASSUME IInv, Unchunked PROVE IInv'
  <1>1. /\ wire \in Wires /\ wire.head \in Nat /\ total \in Nat
        /\ outcome' = "Ok" /\ write_pos' = total /\ wire.framing # "chunked"
        /\ UNCHANGED <<wire, total, buffer, read_pos, next>>
    BY LayoutFacts DEF IInv, TypeOK, Unchunked
  <1>2. TypeOK'
    BY <1>1 DEF IInv, TypeOK
  <1>3. \A k \in Written' : buffer[k] = k
    BY <1>1 DEF IInv, Progress, Unchunked, Written, Bytes
  <1>4. { buffer[k] : k \in Written' } = Bytes(wire.head, total)
    <2>1. Written' = Bytes(wire.head, total)
      BY <1>1 DEF Written
    <2>2. QED
      BY <1>3, <2>1
  <1>5. ~DechunkFails(wire, total) /\ Delivered(wire, total) = Bytes(wire.head, total)
    BY <1>1 DEF DechunkFails, Delivered
  <1>6. DecodesBody' /\ FailsWithCause'
    BY <1>1, <1>3, <1>4, <1>5 DEF DecodesBody, FailsWithCause
  <1>7. QED
    BY <1>1, <1>2, <1>6 DEF IInv

\* Every step keeps the inductive invariant.
LEMMA StepIInv == IInv /\ [Next]_vars => IInv'
  <1> SUFFICES ASSUME IInv, [Next]_vars PROVE IInv'
    OBVIOUS
  <1>1. CASE Unchunked
    BY <1>1, UnchunkedStep
  <1>2. CASE OutOfBytes
    BY <1>2, EndStep DEF OutOfBytes
  <1>3. CASE LastChunk
    BY <1>3, EndStep DEF LastChunk, AtChunk
  <1>4. CASE BadSize \/ TooLong \/ Overflow
    BY <1>4, FailStep
  <1>5. CASE Move
    BY <1>5, MoveStep
  <1>6. CASE UNCHANGED vars
    BY <1>6 DEF vars, IInv, TypeOK, Progress, DecodesBody, FailsWithCause, Written
  <1>7. QED
    BY <1>1, <1>2, <1>3, <1>4, <1>5, <1>6 DEF Next, Step, Returned

\* IInv holds in every state of every walk.
THEOREM Inductive == Spec => []IInv
  BY InitIInv, StepIInv, PTL DEF Spec

\* dechunk writes nothing outside the bytes that were read.
THEOREM TypeCorrect == Spec => []TypeOK
  BY Inductive, PTL DEF IInv

\* dechunk, in place and byte by byte, leaves exactly the data of the chunks,
\* in order: what ResponseReader takes dechunk to deliver.
THEOREM DechunkDecodes == Spec => []DecodesBody
  BY Inductive, PTL DEF IInv

\* dechunk fails when ResponseReader takes it to fail, and panics only on a
\* size that overflows.
THEOREM DechunkFailsWithCause == Spec => []FailsWithCause
  BY Inductive, PTL DEF IInv

\* What the invariant says of the bytes the loop has not read.
LEMMA UnreadKept == IInv => UnreadIntact
  BY DEF IInv, Progress, UnreadIntact

\* copy_within never destroys a byte the loop has still to read, nor the header
\* block that parse_resp reads afterwards.
THEOREM MovesInPlace == Spec => []UnreadIntact
  BY Inductive, UnreadKept, PTL
=============================================================================
