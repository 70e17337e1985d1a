----------------------------- MODULE NonceSource -----------------------------
(***************************************************************************)
(* What the AEAD nonce derivation needs of the device's sequence counter.  *)
(* The cipher builds its nonce from `seq` alone, so under one key a number *)
(* may be drawn at most once; the counter promises the stronger and        *)
(* simpler fact that every number drawn exceeds all those drawn before it. *)
(* A draw may skip any amount forward.                                     *)
(***************************************************************************)
EXTENDS Integers

VARIABLES last,    \* the last number drawn, -1 before the first
          drawn    \* how many numbers have been drawn

vars == <<last, drawn>>

TypeOK == /\ last \in Int
          /\ last >= -1
          /\ drawn \in Nat

Init == /\ last = -1
        /\ drawn = 0

Draw == /\ last' \in Int
        /\ last' > last
        /\ drawn' = drawn + 1

Spec == Init /\ [][Draw]_vars

(***************************************************************************)
(* The pigeonhole consequence the cipher relies on: no more numbers have   *)
(* been drawn than there are numbers up to the last one, so each was used  *)
(* for one nonce only.                                                     *)
(***************************************************************************)
DistinctSoFar == drawn <= last + 1
==============================================================================
