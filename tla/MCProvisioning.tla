---------------------------- MODULE MCProvisioning ----------------------------
(***************************************************************************)
(* Instances of Provisioning for TLC.                                      *)
(***************************************************************************)
EXTENDS Provisioning, TLC

CONSTANTS k1, k2, k3, a, b, fe

ThreeKeys == {k1, k2, k3}
TwoImages == {a, b}
OneImage == {a}
KeySymmetry == Permutations(Keys)

(* Every image built for one board keeps its counter on the same pages.    *)
OneLayout == {fe}
SameRegion == [i \in Images |-> fe]
===============================================================================
