---------------------------- MODULE ChunkDecoder ----------------------------
(***************************************************************************)
(* dechunk (codec.rs): the loop that walks the chunks of a response and    *)
(* moves their data together, in the buffer it reads them from.            *)
(*                                                                         *)
(* The buffer maps each position to the stream offset whose byte it holds; *)
(* a step is one turn of the loop.                                         *)
(***************************************************************************)
EXTENDS HttpWire

CONSTANTS
    Wires,     \* the responses, messages of HttpWire
    MaxUsize   \* usize::MAX

\* A buffer is no longer than isize::MAX, and a size parsed as a usize is at
\* most usize::MAX; only their sum may exceed it.
ASSUME WiresAssumption ==
    /\ MaxUsize \in Nat
    /\ \A w \in Wires :
          /\ IsResponse(w)
          /\ w.sent <= MaxUsize
          /\ \A i \in DOMAIN w.chunks : w.chunks[i].end - w.chunks[i].data <= MaxUsize

VARIABLES
    wire,       \* the response
    total,      \* total_read
    buffer,     \* what the buffer holds, by stream offset
    read_pos, write_pos,
    next,       \* the chunk whose size line starts at read_pos
    outcome     \* "pending", "Ok", "Err", or "panic"

vars == <<wire, total, buffer, read_pos, write_pos, next, outcome>>

\* The client calls dechunk on what complete() accepted, or on a response
\* without a length whose stream has ended.
Init ==
    /\ wire \in Wires
    /\ total \in { n \in 0 .. wire.sent :
                     \/ Complete(wire, n)
                     \/ wire.framing = "none" /\ n = wire.sent }
    /\ buffer = [k \in Bytes(0, total) |-> k]
    /\ read_pos = wire.head /\ write_pos = wire.head
    /\ next = 1
    /\ outcome = "pending"

Return(o) ==
    /\ outcome' = o
    /\ UNCHANGED <<wire, total, buffer, read_pos, write_pos, next>>

\* Not chunked: the buffer stays as it is, all of it.
Unchunked ==
    /\ outcome = "pending" /\ wire.framing # "chunked"
    /\ outcome' = "Ok" /\ write_pos' = total
    /\ UNCHANGED <<wire, total, buffer, read_pos, next>>

\* The chunk the loop is at, when its size line is in the buffer.
Chunk == wire.chunks[next]
AtChunk ==
    /\ outcome = "pending" /\ wire.framing = "chunked"
    /\ read_pos < total /\ Chunk.data <= total

\* The loop ends without the size line of a last chunk.
OutOfBytes ==
    /\ outcome = "pending" /\ wire.framing = "chunked"
    /\ read_pos >= total \/ Chunk.data > total
    /\ Return("Ok")

BadSize == AtChunk /\ ~Chunk.hex /\ Return("Err")

\* A chunk with data.
Sized == AtChunk /\ Chunk.hex /\ Chunk.end > Chunk.data

\* chunk_data_start + chunk_size overflows: the sum panics where it is checked;
\* where it wraps, a range that passes the test starts after its end, and
\* copy_within panics.
Overflow ==
    /\ Sized /\ Chunk.end > MaxUsize
    /\ \E o \in {"panic",
                 IF Chunk.end % (MaxUsize + 1) > total THEN "Err" ELSE "panic"} :
          Return(o)

\* buffer.copy_within(start .. end, write_pos)
CopyWithin(start, end, to) ==
    [k \in DOMAIN buffer |->
        IF k \in Bytes(to, to + (end - start)) THEN buffer[start + (k - to)]
        ELSE buffer[k]]

\* Mutants of Move: the size line is moved with the data; the data are moved
\* to the place of the next chunk; the end of the data is taken for their size.
MoveWithLine ==
    /\ Sized /\ Chunk.end <= MaxUsize /\ Chunk.end <= total
    /\ buffer' = CopyWithin(Chunk.at, Chunk.end, write_pos)
    /\ write_pos' = write_pos + (Chunk.end - Chunk.at)
    /\ read_pos' = Chunk.end + CRLF_LEN
    /\ next' = next + 1
    /\ UNCHANGED <<wire, total, outcome>>

MoveAhead ==
    /\ Sized /\ Chunk.end <= MaxUsize /\ Chunk.end <= total
    /\ buffer' = CopyWithin(Chunk.data, Chunk.end, Chunk.end)
    /\ write_pos' = write_pos + (Chunk.end - Chunk.data)
    /\ read_pos' = Chunk.end + CRLF_LEN
    /\ next' = next + 1
    /\ UNCHANGED <<wire, total, outcome>>

MoveByEnd ==
    /\ Sized /\ Chunk.end <= MaxUsize /\ Chunk.end <= total
    /\ buffer' = CopyWithin(Chunk.data, Chunk.end, write_pos)
    /\ write_pos' = write_pos + Chunk.end
    /\ read_pos' = Chunk.end + CRLF_LEN
    /\ next' = next + 1
    /\ UNCHANGED <<wire, total, outcome>>

\* Mutants of TooLong and of LastChunk: a chunk that fills the buffer is too
\* long; the last chunk is looked for again.
TooLongByOne ==
    /\ Sized /\ Chunk.end <= MaxUsize /\ Chunk.end >= total
    /\ Return("Err")

LastChunkAgain ==
    AtChunk /\ Chunk.hex /\ Chunk.end = Chunk.data /\ UNCHANGED vars

LastChunk == AtChunk /\ Chunk.hex /\ Chunk.end = Chunk.data /\ Return("Ok")

TooLong ==
    /\ Sized /\ Chunk.end <= MaxUsize /\ Chunk.end > total
    /\ Return("Err")

Move ==
    /\ Sized /\ Chunk.end <= MaxUsize /\ Chunk.end <= total
    /\ buffer' = CopyWithin(Chunk.data, Chunk.end, write_pos)
    /\ write_pos' = write_pos + (Chunk.end - Chunk.data)
    /\ read_pos' = Chunk.end + CRLF_LEN
    /\ next' = next + 1
    /\ UNCHANGED <<wire, total, outcome>>

\* The function has returned.
Returned == outcome # "pending" /\ UNCHANGED vars

Step == Unchunked \/ OutOfBytes \/ BadSize \/ LastChunk \/ Overflow \/ TooLong \/ Move
Next == Step \/ Returned

Spec == Init /\ [][Next]_vars /\ WF_vars(Step)
-----------------------------------------------------------------------------
(* Properties.                                                              *)

\* The body the loop has put together: positions head, ..., write_pos - 1.
Written == Bytes(wire.head, write_pos)

\* Every variable keeps to its type; nothing is written outside the bytes read.
TypeOK ==
    /\ wire \in Wires
    /\ total \in Nat /\ total <= wire.sent
    /\ buffer \in [Bytes(0, total) -> Bytes(0, total)]
    /\ read_pos \in Nat
    /\ write_pos \in Nat
    /\ wire.framing = "chunked" \/ outcome = "Ok" => write_pos <= total
    /\ next \in 1 .. Len(wire.chunks) + 1
    /\ outcome \in {"pending", "Ok", "Err", "panic"}

\* The in-place move (copy_within) never overwrites a byte the loop has still
\* to read, nor the header block.
UnreadIntact ==
    outcome = "pending" =>
        \A k \in Bytes(0, total) :
            k < wire.head \/ k >= read_pos => buffer[k] = k

\* A success leaves, in their order, exactly the data of the chunks that had
\* arrived; what ResponseReader says of dechunk is what its loop computes.
DecodesBody ==
    outcome = "Ok" =>
        /\ ~DechunkFails(wire, total)
        /\ { buffer[k] : k \in Written } = Delivered(wire, total)
        /\ \A k, l \in Written : k < l => buffer[k] < buffer[l]

\* dechunk fails only as ResponseReader has it, on a size line without a size
\* or a chunk cut short; it panics only when a size overflows a usize, where the
\* docs promise an error (see NeverPanics).
FailsWithCause ==
    /\ outcome = "Err" => DechunkFails(wire, total)
    /\ outcome = "panic" =>
          \E i \in DOMAIN wire.chunks : wire.chunks[i].end > MaxUsize

\* "This function will return an error if ... The response cannot be parsed"
\* (EmbassyHttpClient::request): no size line makes dechunk panic.
NeverPanics == outcome # "panic"

\* The loop ends.
Terminates == <>(outcome # "pending")

-----------------------------------------------------------------------------
(* The strengthening that makes the invariants above inductive.             *)

\* The data of the chunks before the one the loop is at.
DataBefore(w, i) ==
    UNION { Bytes(w.chunks[j].data, w.chunks[j].end) :
              j \in { l \in DOMAIN w.chunks : l < i } }

\* The chunks behind the loop are there whole; what is written is their data,
\* in order, behind the place where the loop reads.
Progress ==
    /\ wire.framing # "chunked" => \A k \in Bytes(0, total) : buffer[k] = k
    /\ wire.framing = "chunked" =>
        /\ wire.head <= total
        /\ next \in DOMAIN wire.chunks /\ read_pos = wire.chunks[next].at
        /\ \A j \in DOMAIN wire.chunks :
              j < next => wire.chunks[j].hex /\ wire.chunks[j].end <= total
        /\ wire.head <= write_pos /\ write_pos <= read_pos
        /\ \A k \in Written : buffer[k] < read_pos
        /\ { buffer[k] : k \in Written } = DataBefore(wire, next)
        /\ \A k, l \in Written : k < l => buffer[k] < buffer[l]
        /\ \A k \in Bytes(0, total) :
              k < wire.head \/ k >= read_pos => buffer[k] = k

IInv == TypeOK /\ (outcome = "pending" => Progress) /\ DecodesBody /\ FailsWithCause
=============================================================================
