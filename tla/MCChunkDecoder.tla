--------------------------- MODULE MCChunkDecoder ---------------------------
(***************************************************************************)
(* Small instances of ChunkDecoder: every list of up to three chunks of at *)
(* most MostData bytes, a last line that is no size or one that overflows, *)
(* every prefix of the response that complete() may have accepted.         *)
(***************************************************************************)
EXTENDS ChunkDecoder, SequencesExt

HeadLen == 6
MostData == 3

(* The chunk layout of a list of sizes, each on a line of one digit.         *)
LayoutOf(sizes) ==
    FoldLeft(LAMBDA chunks, size :
        LET at == IF chunks = <<>> THEN HeadLen
                  ELSE chunks[Len(chunks)].end + CRLF_LEN
        IN  Append(chunks, [at |-> at, data |-> at + 3,
                            end |-> at + 3 + size, hex |-> TRUE]),
        <<>>, sizes)

DataSizes == UNION { [1 .. n -> 1 .. MostData] : n \in 0 .. 2 }
Layouts   == { LayoutOf(Append(s, 0)) : s \in DataSizes }
Spoilt    == { [l EXCEPT ![Len(l)].hex = FALSE] : l \in Layouts }

Wire(framing, chunks, marks, full, sent) ==
    [head |-> HeadLen, framing |-> framing, clen |-> 0, chunks |-> chunks,
     marks |-> marks, full |-> full, sent |-> sent, closes |-> TRUE,
     parses |-> TRUE, bare |-> FALSE]

EndOf(chunks) == chunks[Len(chunks)].end + CRLF_LEN

\* The marker may end anywhere: complete() accepts any prefix.
ChunkedWires ==
    { Wire("chunked", l, HeadLen .. EndOf(l), EndOf(l), EndOf(l)) :
        l \in Layouts \cup Spoilt }

\* After one chunk, sizes around usize::MAX = 31, of which little is sent.
HugeWires ==
    { LET l == LayoutOf(<<1, size>>) \o <<[at |-> 17 + size, data |-> 20 + size,
                                           end |-> 20 + size, hex |-> TRUE]>>
      IN  Wire("chunked", l, HeadLen .. EndOf(l), EndOf(l), 18) : size \in 14 .. 31 }

PlainWires ==
    { Wire("none", <<>>, {}, IF s < HeadLen THEN HeadLen ELSE s, s) : s \in 0 .. 10 }

AllWires == ChunkedWires \cup HugeWires \cup PlainWires
=============================================================================
