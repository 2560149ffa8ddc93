--------------------------- MODULE MCHttpExchange ---------------------------
(***************************************************************************)
(* Small instances of HttpExchange: header blocks of two bytes, messages   *)
(* around the capacities of the buffers, pipes narrower than a message.    *)
(***************************************************************************)
EXTENDS HttpExchange

Ask(head, body, hasBody, parses) ==
    [head |-> head, body |-> body, hasBody |-> hasBody, declares |-> FALSE,
     parses |-> parses]

\* Without a body, with an empty one, with bodies that the server's buffer
\* takes and one it does not, one the server cannot parse, and one the client
\* cannot build.
SomeRequests ==
    { Ask(2, 0, FALSE, TRUE), Ask(2, 0, TRUE, TRUE), Ask(2, 1, TRUE, TRUE),
      Ask(2, 2, TRUE, TRUE), Ask(2, 4, TRUE, TRUE), Ask(2, 2, TRUE, FALSE),
      Ask(3, 0, FALSE, TRUE) }
=============================================================================
