--------------------------- MODULE MCEmbassyClient ---------------------------
(***************************************************************************)
(* Small instances of EmbassyClient: answers with a header block of two    *)
(* bytes, delimited by a length or by the close, whole or cut short.       *)
(***************************************************************************)
EXTENDS EmbassyClient, XorShift32

HeadLen == 2

Answer(framing, clen, full, sent, closes) ==
    [head |-> HeadLen, framing |-> framing, clen |-> clen, chunks |-> <<>>,
     marks |-> {}, full |-> full, sent |-> sent, closes |-> closes, parses |-> TRUE, bare |-> FALSE]

SomeAnswers ==
    { Answer("length", c, HeadLen + c, s, k) :
        c \in {1, 2}, s \in {0, 2, 3}, k \in BOOLEAN }
    \cup { Answer("none", 0, IF s = 1 THEN HeadLen ELSE s, s, TRUE) : s \in {1, 3} }

\* Without a body, with one, and one that build_req refuses.
SomeRequests ==
    { [head |-> 2, body |-> 0, hasBody |-> FALSE, declares |-> FALSE],
      [head |-> 2, body |-> 1, hasBody |-> TRUE, declares |-> FALSE],
      [head |-> 3, body |-> 0, hasBody |-> FALSE, declares |-> FALSE] }

\* The first draws from 1: 0x0004_2021, 0x0408_0601, 0x9DCC_A8C5.
ASSUME FirstDraws ==
    /\ next_u32({0}) = {0, 5, 13, 18}
    /\ next_u32({0, 5, 13, 18}) = {0, 9, 10, 19, 26}
    /\ next_u32({0, 9, 10, 19, 26}) =
          {0, 2, 6, 7, 11, 13, 15, 18, 19, 22, 23, 24, 26, 27, 28, 31}
=============================================================================
