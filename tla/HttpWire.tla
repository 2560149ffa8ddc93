------------------------------ MODULE HttpWire ------------------------------
(***************************************************************************)
(* The HTTP/1.1 message as the codec of nanofish sees it.                  *)
(*                                                                         *)
(* The code asks of a buffer only WHERE things are: where the header block *)
(* ends, how the body is framed, where each chunk lies, where the five     *)
(* bytes "0\r\n\r\n" end.  So a message is the record of those offsets     *)
(* (byte counts from the start of the stream) and a received body is the   *)
(* set of the stream offsets that are in it.                               *)
(*                                                                         *)
(*   head     length of the header block, its CRLF CRLF included           *)
(*   framing  "chunked" | "length" | "none": what chunked() and            *)
(*            content_length() answer once the header block is there       *)
(*   clen     the value of Content-Length (framing "length")               *)
(*   chunks   the chunk layout (framing "chunked"), see IsChunk            *)
(*   marks    the offsets at which "0\r\n\r\n" ends in the stream          *)
(*   full     length of the complete message                               *)
(*   sent     how many bytes the peer sends: fewer than full when it stops *)
(*            early, more when something follows the message               *)
(*   closes   whether the peer closes after that, or keeps silent          *)
(*   parses   whether the start line and the header block are well formed  *)
(*   bare     whether the header block is a start line and nothing else    *)
(***************************************************************************)
EXTENDS Integers, Sequences

CRLF_LEN == 2

\* The bytes at offsets a, ..., b - 1.
Bytes(a, b) == a .. (b - 1)

(***************************************************************************)
(* A chunk: its size line starts at `at' and its data are the offsets      *)
(* data, ..., end - 1; the next size line is CRLF_LEN further.  `hex' says *)
(* whether the size is a hexadecimal number.                               *)
(***************************************************************************)
IsChunk(c) ==
    /\ c.at \in Nat /\ c.data \in Nat /\ c.end \in Nat
    /\ c.hex \in BOOLEAN
    /\ c.at + CRLF_LEN <= c.data /\ c.data <= c.end

\* Chunks follow one another; the walk of the code stops at the first one
\* that has no size or the size 0, which is the last one here.
IsLayout(head, chunks) ==
    \A i \in DOMAIN chunks :
        /\ IsChunk(chunks[i])
        /\ i = 1 => chunks[i].at = head
        /\ i > 1 => chunks[i].at = chunks[i - 1].end + CRLF_LEN
        /\ \A j \in DOMAIN chunks :
              j > i => chunks[j].at >= chunks[i].end + CRLF_LEN
        /\ i < Len(chunks) <=> chunks[i].hex /\ chunks[i].data < chunks[i].end

IsMessage(w) ==
    /\ w.head \in Nat /\ w.clen \in Nat /\ w.full \in Nat /\ w.sent \in Nat
    /\ w.framing \in {"chunked", "length", "none"}
    /\ w.closes \in BOOLEAN /\ w.parses \in BOOLEAN /\ w.bare \in BOOLEAN
    /\ w.bare => w.framing = "none"
    /\ 0 < w.head /\ w.head <= w.full
    /\ w.marks \subseteq Nat /\ \A m \in w.marks : m >= w.head
    /\ w.chunks \in Seq([at : Nat, data : Nat, end : Nat, hex : BOOLEAN])
    /\ w.framing = "chunked" => w.chunks # <<>>
    /\ IsLayout(w.head, w.chunks)
    /\ \A i \in DOMAIN w.chunks : w.chunks[i].end <= w.full

\* A response; full = head when it has no body whatever it declares (the
\* answer to HEAD), and without a length the end of the stream is its end.
IsResponse(w) ==
    /\ IsMessage(w)
    /\ w.framing = "length" => w.full \in {w.head, w.head + w.clen}
    /\ w.framing = "none" => w.full = w.sent \/ w.sent < w.head

\* A request; without a length it has no body.
IsRequestMessage(w) ==
    /\ IsMessage(w)
    /\ w.framing = "length" => w.full = w.head + w.clen
    /\ w.framing = "none" => w.full = w.head

-----------------------------------------------------------------------------
(* What the codec answers about the first n bytes of the stream.            *)

\* find_double_crlf(data).is_some()
HeadersEnded(w, n) == n >= w.head

\* declares_length(data)
DeclaresLength(w, n) == HeadersEnded(w, n) /\ w.framing # "none"

\* complete(data): the marker is looked for in ALL the bytes received, the
\* header block and the chunk data included.
Complete(w, n) ==
    /\ HeadersEnded(w, n)
    /\ \/ w.framing = "chunked" /\ \E m \in w.marks : m <= n
       \/ w.framing = "length" /\ n - w.head >= w.clen

\* dechunk(buffer, n) is an error: a size line that has arrived has no size,
\* or announces more data than there are (ChunkDecoder has the loop, and what
\* becomes of a size that overflows a usize).
DechunkFails(w, n) ==
    /\ HeadersEnded(w, n) /\ w.framing = "chunked"
    /\ \E i \in DOMAIN w.chunks :
          /\ w.chunks[i].data <= n
          /\ ~w.chunks[i].hex \/ w.chunks[i].end > n

\* The data of the chunks that lie in the first n bytes.
ChunkData(w, n) ==
    UNION { Bytes(w.chunks[i].data, w.chunks[i].end) :
              i \in { j \in DOMAIN w.chunks : w.chunks[j].end <= n } }

\* The body that dechunk and parse_resp leave of the first n bytes.
Delivered(w, n) ==
    IF w.framing = "chunked" THEN ChunkData(w, n) ELSE Bytes(w.head, n)

-----------------------------------------------------------------------------
(* What the peer meant, for the properties.                                 *)

\* The body of the message.
Body(w) ==
    IF w.framing = "chunked" THEN ChunkData(w, w.full) ELSE Bytes(w.head, w.full)

\* What a server must have read of a request: the headers only of a chunked
\* one, for read_request knows no length but Content-Length.
Awaited(w) == IF w.framing = "chunked" THEN w.head ELSE w.full

\* "0\r\n\r\n" ends nowhere before the message does.
CleanMarks(w) == w.framing = "chunked" => \A m \in w.marks : m >= w.full

\* The code can see where the message ends: not so for an answer to HEAD with
\* a Content-Length, nor when the last chunk has an extension or trailers.
Delimited(w) ==
    \/ w.framing = "length" /\ w.full = w.head + w.clen
    \/ w.framing = "chunked" /\ w.full \in w.marks

\* The marker ends at the end of the message and nowhere else, what a response
\* without a body declares is not followed by bytes that fill it, and there is
\* a header.
Unambiguous(w) ==
    /\ ~w.bare
    /\ w.framing = "chunked" => w.marks \subseteq {w.full}
    /\ w.framing = "length" => w.full = w.head + w.clen \/ w.sent <= w.full
=============================================================================
