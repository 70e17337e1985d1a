------------------------------ MODULE MCDelivery ------------------------------
(***************************************************************************)
(* Two gateways, one of which hears nothing but two devices nobody         *)
(* registered; there is an entry for one of them.                          *)
(***************************************************************************)
EXTENDS Delivery

CONSTANTS g1, g2, d1, d2
TwoGateways == {g1, g2}
TwoAndTwo == (g1 :> 2) @@ (g2 :> 2)
TwoStrangers == {d1, d2}
NotRegistered == {[gateway |-> g2, n |-> n] : n \in 1 .. 2}
Senders == [e \in NotRegistered |-> IF e.n = 1 THEN d1 ELSE d2]
DoNotOpen == {[gateway |-> g1, n |-> 2]}
===============================================================================
