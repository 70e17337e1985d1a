--------------------------- MODULE MCDeviceRegistry ---------------------------
(***************************************************************************)
(* Instances of DeviceRegistry for TLC.                                    *)
(***************************************************************************)
EXTENDS DeviceRegistry, TLC

CONSTANTS k1, k2, k3, kekA, kekB, kekC

ThreeKeys == {k1, k2, k3}
KeySymmetry == Permutations(Keys)

OneClock == {0}

(* The file of the first deploy, one with a second generation promoted,    *)
(* another installation's file, and one promoted before its key was added. *)
Current(g) == [field |-> "current", gen |-> g]
Key(g, kek) == [field |-> "key", gen |-> g, kek |-> kek]
SomeKekFiles ==
    {<<Current(1), Key(1, kekA)>>, <<Current(2), Key(1, kekA), Key(2, kekB)>>,
     <<Current(1), Key(1, kekC)>>, <<Current(2), Key(1, kekA)>>}
===============================================================================
