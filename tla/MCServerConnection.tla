------------------------- MODULE MCServerConnection -------------------------
(***************************************************************************)
(* Small instances of ServerConnection: requests with a header block of    *)
(* six bytes, bodies around the capacity of the buffer, and a length next  *)
(* to usize::MAX.                                                          *)
(***************************************************************************)
EXTENDS ServerConnection

HeadLen == 6
\* Up to Extra bytes may follow a request.
Extra == 2
\* The most bytes a peer sends.
SentLimit == 14

Request(framing, clen, full, sent, closes, parses) ==
    [head |-> HeadLen, framing |-> framing, clen |-> clen, chunks |-> <<>>,
     marks |-> {}, full |-> full, sent |-> sent, closes |-> closes,
     parses |-> parses, bare |-> FALSE]

Sendings(full) == { s \in 0 .. SentLimit : s <= full + Extra }

LengthRequests(clens) ==
    UNION { { Request("length", c, HeadLen + c, s, k, p) :
                s \in Sendings(HeadLen + c), k \in BOOLEAN, p \in BOOLEAN } :
              c \in clens }

BareRequests ==
    { Request("none", 0, HeadLen, s, k, p) :
        s \in Sendings(HeadLen), k \in BOOLEAN, p \in BOOLEAN }

\* "POST ... Transfer-Encoding: chunked", then "1\r\nx\r\n0\r\n\r\n".
ChunkedRequests ==
    { [Request("chunked", 0, 17, s, TRUE, TRUE) EXCEPT
         !.chunks = <<[at |-> 6, data |-> 9, end |-> 10, hex |-> TRUE],
                      [at |-> 12, data |-> 15, end |-> 15, hex |-> TRUE]>>,
         !.marks = {17}] : s \in 0 .. 17 }

\* Bodies that fit, fit exactly, do not fit, and usize::MAX = 31.
PlainRequests == LengthRequests({0, 2, 6, 7, 31}) \cup BareRequests

AllRequests == PlainRequests \cup ChunkedRequests
=============================================================================
