-------------------------- MODULE MCResponseReader --------------------------
(***************************************************************************)
(* Small instances of ResponseReader: real byte counts with a header block *)
(* of six bytes and chunks of one or two bytes of data.                    *)
(***************************************************************************)
EXTENDS ResponseReader, SequencesExt

HeadLen == 6

(* The chunk layout of a list of sizes; a size line is one digit long, its   *)
(* CRLF follows, and the last one may be that of the size 0.                 *)
LayoutOf(sizes) ==
    FoldLeft(LAMBDA chunks, size :
        LET at == IF chunks = <<>> THEN HeadLen
                  ELSE chunks[Len(chunks)].end + CRLF_LEN
        IN  Append(chunks, [at |-> at, data |-> at + 3,
                            end |-> at + 3 + size, hex |-> TRUE]),
        <<>>, sizes)

Wire(framing, clen, chunks, marks, full, sent, closes, parses) ==
    [head |-> HeadLen, framing |-> framing, clen |-> clen, chunks |-> chunks,
     marks |-> marks, full |-> full, sent |-> sent, closes |-> closes,
     parses |-> parses, bare |-> FALSE]

EndOf(chunks) == chunks[Len(chunks)].end + CRLF_LEN

\* Up to Extra bytes may follow a message.
Extra == 2

LengthWires(clens) ==
    { w \in { Wire("length", c, <<>>, {}, HeadLen + c, s, k, p) :
                 c \in clens, s \in 0 .. 20, k \in BOOLEAN, p \in BOOLEAN } :
        /\ w.sent <= w.full + Extra
        /\ w.parses \/ w.sent = w.full }

\* Answers to HEAD: a length is declared, no body comes.
HeadWires ==
    { Wire("length", c, <<>>, {}, HeadLen, HeadLen, k, TRUE) :
        c \in 1 .. 2, k \in BOOLEAN }

CloseWires ==
    { Wire("none", 0, <<>>, {}, IF s < HeadLen THEN HeadLen ELSE s, s, TRUE, p) :
        s \in 0 .. 18, p \in BOOLEAN }

ChunkedOf(layouts, marksOf(_)) ==
    UNION { { Wire("chunked", 0, l, marksOf(l), EndOf(l), s, k, TRUE) :
                s \in 0 .. (EndOf(l) + Extra), k \in BOOLEAN } : l \in layouts }

Layouts == { LayoutOf(<<0>>), LayoutOf(<<1, 0>>), LayoutOf(<<2, 1, 0>>) }

\* The first size line is no number; the message goes on to its end.
SpoiltWires ==
    { Wire("chunked", 0, <<[at |-> HeadLen, data |-> 9, end |-> 9, hex |-> FALSE]>>,
           {17}, 17, s, k, TRUE) : s \in 0 .. 18, k \in BOOLEAN }

TheEnd(l)     == { EndOf(l) }
\* Trailers after the last chunk: the marker never shows.
Trailers(l)   == {}
\* A last header such as "Age: 0".
ZeroHeader(l) == { HeadLen, EndOf(l) }
\* The data of the first chunk end in "0\r\n".
ZeroData(l)   == { l[1].end + CRLF_LEN, EndOf(l) }

AllKinds ==
    LengthWires({0, 2, 11, 12}) \cup HeadWires \cup CloseWires
    \cup ChunkedOf(Layouts, TheEnd) \cup ChunkedOf(Layouts, Trailers)
    \cup SpoiltWires

\* With headers, or with none: "HTTP/1.1 204 No Content" and no more.
CleanWires == { [w EXCEPT !.bare = FALSE] : w \in AllKinds }
BareWires  == { [w EXCEPT !.bare = TRUE] : w \in { v \in CloseWires : v.sent <= 8 } }

\* Whole responses that the reader takes for something else: answers to HEAD,
\* the buffer filled to its end, no header, trailers behind the chunks.
PuzzlingWires ==
    { w \in HeadWires \cup CloseWires \cup BareWires \cup ChunkedOf(Layouts, Trailers) :
        w.sent = w.full /\ w.parses }

\* What the theorem about the contract assumes of its wires.
ASSUME CleanUnambiguous == \A w \in CleanWires : Unambiguous(w)

MarkedWires ==
    ChunkedOf({ LayoutOf(<<1, 0>>) }, ZeroHeader)
    \cup ChunkedOf({ LayoutOf(<<4, 1, 0>>) }, ZeroData)

\* The capacities that matter: 4 bytes of request head, bodies below 3 bytes.
\* Two requests are sent, with a body and without; two are refused.
SomeRequests ==
    { [head |-> 2, body |-> 3, hasBody |-> TRUE, declares |-> TRUE],
      [head |-> 4, body |-> 0, hasBody |-> FALSE, declares |-> FALSE],
      [head |-> 5, body |-> 1, hasBody |-> TRUE, declares |-> TRUE],
      [head |-> 2, body |-> 3, hasBody |-> TRUE, declares |-> FALSE] }

OneRequest == { [head |-> 2, body |-> 1, hasBody |-> TRUE, declares |-> FALSE] }
=============================================================================
