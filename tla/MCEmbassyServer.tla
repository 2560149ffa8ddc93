--------------------------- MODULE MCEmbassyServer ---------------------------
(***************************************************************************)
(* Small instances of EmbassyServer: requests with a header block of two   *)
(* bytes, with and without a body, well formed or not.                     *)
(***************************************************************************)
EXTENDS EmbassyServer

HeadLen == 2

Request(framing, clen, sent, closes, parses) ==
    [head |-> HeadLen, framing |-> framing, clen |-> clen, chunks |-> <<>>,
     marks |-> {}, full |-> HeadLen + clen, sent |-> sent, closes |-> closes,
     parses |-> parses, bare |-> FALSE]

\* Without a body, with one that fits and with one that does not.
SomeRequests ==
    { Request("none", 0, s, k, p) : s \in {0, 2}, k \in BOOLEAN, p \in BOOLEAN }
    \cup { Request("length", c, s, k, TRUE) :
             c \in {1, 2}, s \in {1, 2, 3}, k \in BOOLEAN }
=============================================================================
