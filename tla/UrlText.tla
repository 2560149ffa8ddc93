------------------------------ MODULE UrlText ------------------------------
(***************************************************************************)
(* What nanofish does with the text of a URL: parse_endpoint on the        *)
(* client's side, the query accessors and percent_decode on the server's.  *)
(* A text is a sequence of bytes.                                          *)
(***************************************************************************)
EXTENDS Integers, SequencesExt

Byte == 0 .. 255
Text == Seq(Byte)

Space == 32
Pct == 37
Amp == 38
Plus == 43
Slash == 47
Colon == 58
Eq == 61
Quest == 63
Open == 91
Close == 93

-----------------------------------------------------------------------------
(* Of the standard library (core::str).                                     *)

Find(text, byte) == SelectInSeq(text, LAMBDA b : b = byte)
RFind(text, byte) == SelectLastInSeq(text, LAMBDA b : b = byte)

Before(text, i) == SubSeq(text, 1, i - 1)
After(text, i) == SubSeq(text, i + 1, Len(text))

\* The two sides of the first such byte; the text and nothing without one.
SplitOnce(text, byte) ==
    LET i == Find(text, byte)
    IN  IF i = 0 THEN <<text, <<>>>> ELSE <<Before(text, i), After(text, i)>>

\* str::parse of an unsigned number: a sign "+" and leading zeros are allowed;
\* NaN when it is no number, or greater than max.
NaN == -1
ParseNumber(text, max) ==
    LET digits == IF text # <<>> /\ Head(text) = Plus THEN Tail(text) ELSE text
        number[i \in 0 .. Len(digits)] ==
            IF i = 0 THEN 0 ELSE 10 * number[i - 1] + digits[i] - 48
    IN  IF digits # <<>> /\ ToSet(digits) \subseteq 48 .. 57 /\ number[Len(digits)] <= max
          THEN number[Len(digits)] ELSE NaN

\* Iterator::find.
FirstSuch(seq, Test(_)) ==
    LET i == SelectInSeq(seq, Test) IN IF i = 0 THEN <<>> ELSE <<seq[i]>>

\* str::from_utf8 over bytes whose sequences are of one or two bytes.
Utf8(bytes) ==
    \A i \in DOMAIN bytes :
        \/ bytes[i] < 128
        \/ /\ bytes[i] \in 194 .. 223
           /\ i < Len(bytes) /\ bytes[i + 1] \in 128 .. 191
        \/ /\ bytes[i] \in 128 .. 191
           /\ i > 1 /\ bytes[i - 1] \in 194 .. 223

-----------------------------------------------------------------------------
(* The client.                                                              *)

MaxU16 == 65535
Schemes == {"http", "https", "other"}
DefaultPort(scheme) == IF scheme = "https" THEN 443 ELSE 80

\* Mutant of parse_endpoint: the host ends at its first colon.
parse_endpoint_first_colon(url) ==
    LET slash == Find(url.rest, Slash)
        authority == IF slash = 0 THEN url.rest ELSE Before(url.rest, slash)
        path == After(url.rest, Len(authority))
        colon == Find(authority, Colon)
        port == IF colon = 0 THEN NaN ELSE ParseNumber(After(authority, colon), MaxU16)
    IN  [scheme |-> url.scheme,
         host |-> IF port = NaN THEN authority ELSE Before(authority, colon),
         port |-> IF port = NaN THEN DefaultPort(url.scheme) ELSE port,
         path |-> IF path = <<>> THEN <<Slash>> ELSE path]

\* A URL is its scheme and the rest.  What stands behind the last colon of the
\* authority is a port only when it is a number; the path begins at the first
\* slash, wherever the query may be.
parse_endpoint(url) ==
    LET slash == Find(url.rest, Slash)
        authority == IF slash = 0 THEN url.rest ELSE Before(url.rest, slash)
        path == After(url.rest, Len(authority))
        colon == RFind(authority, Colon)
        port == IF colon = 0 THEN NaN ELSE ParseNumber(After(authority, colon), MaxU16)
    IN  [scheme |-> url.scheme,
         host |-> IF port = NaN THEN authority ELSE Before(authority, colon),
         port |-> IF port = NaN THEN DefaultPort(url.scheme) ELSE port,
         path |-> IF path = <<>> THEN <<Slash>> ELSE path]

-----------------------------------------------------------------------------
(* The server.                                                              *)

route_path(target) == SplitOnce(target, Quest)[1]
query_string(target) == SplitOnce(target, Quest)[2]

\* The lookups, over the pairs that QueryPairs yields.
query_first(pairs, name) == FirstSuch(pairs, LAMBDA p : p.name = name)
query_all(pairs, name) ==
    LET all[i \in 0 .. Len(pairs)] ==
            IF i = 0 THEN <<>>
            ELSE all[i - 1] \o (IF pairs[i].name = name THEN <<pairs[i]>> ELSE <<>>)
    IN  all[Len(pairs)]
query_last(pairs, name) ==
    LET all == query_all(pairs, name)
    IN  IF all = <<>> THEN <<>> ELSE <<Last(all)>>

MaxIndex == 99999
query_name_matches_index(queryName, name, index) ==
    LET rest == SubSeq(queryName, Len(name) + 1, Len(queryName))
    IN  /\ IsPrefix(name, queryName)
        /\ Len(rest) >= 2 /\ Head(rest) = Open /\ Last(rest) = Close
        /\ ParseNumber(SubSeq(rest, 2, Len(rest) - 1), MaxIndex) = index

query_indexed(pairs, name, index) ==
    FirstSuch(pairs, LAMBDA p : query_name_matches_index(p.name, name, index))

HexDigit(byte) == byte \in (48 .. 57) \cup (97 .. 102) \cup (65 .. 70)
hex_value(byte) ==
    IF byte <= 57 THEN byte - 48 ELSE IF byte <= 70 THEN byte - 55 ELSE byte - 87
=============================================================================
