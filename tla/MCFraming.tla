------------------------------ MODULE MCFraming ------------------------------
(***************************************************************************)
(* Payloads that look like magic bytes, alone and together, and an empty   *)
(* one; chunks of two bytes, so that a cut falls inside the header, the    *)
(* payload and before the checksum, which is a polynomial in the bytes.    *)
(***************************************************************************)
EXTENDS Framing, SequencesExt

Polynomial(bytes) == FoldLeft(LAMBDA acc, b : (3 * acc + b) % ByteLimit, 0, bytes)
SomePayloads == {<<>>, <<1, 2>>, <<2, 1>>, <<0>>}
===============================================================================
