---------------------------- MODULE MCSeqCounter ----------------------------
(***************************************************************************)
(* Instances of SeqCounter for TLC, with two readings of what flash holds  *)
(* after an operation was cut short.                                       *)
(***************************************************************************)
EXTENDS SeqCounter, Bitwise

MCAnd(a, b) == a & b

(* Settled: the operation reached a word entirely or not at all.           *)
SettledWrite(old, new) == {old, old & new}
SettledErase(old) == {old, Erased}

(* Partial: any of the bits the operation flips may have flipped.          *)
PartialWrite(old, new) ==
    {w \in Word : w & old = w /\ w & (old & new) = old & new}
PartialErase(old) == {w \in Word : w & old = old}

==============================================================================
