----------------------------- MODULE XorShift32 -----------------------------
(***************************************************************************)
(* The random numbers of the TLS handshake (client/embassy.rs): a word of  *)
(* 32 bits, as the set of the places of its ones, the exclusive or being   *)
(* the symmetric difference.                                               *)
(***************************************************************************)
EXTENDS Integers

Places == 0 .. 31

ShiftedLeft(x, n) == {i \in Places : i - n \in x}
ShiftedRight(x, n) == {i \in Places : i + n \in x}
Xor(x, y) == {i \in Places : (i \in x) # (i \in y)}

\* 0x9E37_79B9.
ZeroStateFallback ==
    {0, 3, 4, 5, 7, 8, 11, 12, 13, 14, 16, 17, 18, 20, 21, 25, 26, 27, 28, 31}

\* The low half of the ticks, unless it is zero.
tls_seed(ticks) ==
    IF ticks \cap Places = {} THEN ZeroStateFallback ELSE ticks \cap Places

\* The state after next_u32, and its result.
Mixed13(x) == Xor(x, ShiftedLeft(x, 13))
Mixed17(x) == Xor(x, ShiftedRight(x, 17))
Mixed5(x) == Xor(x, ShiftedLeft(x, 5))
next_u32(x) == Mixed5(Mixed17(Mixed13(x)))
=============================================================================
