------------------------------ MODULE MCReceiver ------------------------------
(***************************************************************************)
(* Instances of Receiver for TLC.                                          *)
(***************************************************************************)
EXTENDS Receiver, TLC

CONSTANTS s1, s2, s3

ThreeSensors == {s1, s2, s3}
===============================================================================
