-------------------------- MODULE MCCredentialStore --------------------------
(***************************************************************************)
(* The built-in profile name and another, an API over https, one on the    *)
(* loopback and one over plain http, two shells; two firmware names and    *)
(* three builds: one for a bare 1 MB part, one for a board whose bootloader *)
(* keeps both ends of the flash, and one whose linker script lost a symbol. *)
(***************************************************************************)
EXTENDS ToolFiles, TLC

CONSTANTS dev, prod, u1, u2, u3, s1, s2, b1, b2, b3
TwoNames == {dev, prod}
ThreeUrls == {u1, u2, u3}
Transports == (u1 :> "https") @@ (u2 :> "loopback") @@ (u3 :> "plain")
TwoShells == {s1, s2}
TwoFwNames == 1 .. 2
ThreeBuilds == {b1, b2, b3}
Elves ==
    (b1 :> [segments |-> {0, 5000}, start |-> 1040384, end |-> 1048576])
    @@ (b2 :> [segments |-> {159744}, start |-> 991232, end |-> 999424])
    @@ (b3 :> [segments |-> {0}, start |-> None, end |-> 1048576])
Interchangeable == Permutations(TwoShells)
===============================================================================
