------------------------------- MODULE Consent -------------------------------
(***************************************************************************)
(* What the tool asks before it destroys something, and what it takes for  *)
(* a yes.                                                                  *)
(***************************************************************************)

(* Lines an operator may type; a closed stdin reads as the empty one.      *)
Lines == {"", "n", "y", "YES", "yeah", "erase", "ERASE"}
Replies == [assume_yes : BOOLEAN, terminal : BOOLEAN, line : Lines]

(* --yes answers; without it and without a terminal the tool refuses.      *)
Policy(reply) ==
    CASE reply.assume_yes -> "granted"
      [] ~reply.assume_yes /\ reply.terminal -> "ask"
      [] OTHER -> "refuse"

YesNo(reply) ==
    \/ Policy(reply) = "granted"
    \/ Policy(reply) = "ask" /\ reply.line \in {"y", "YES"}

Typed(reply, expected) ==
    \/ Policy(reply) = "granted"
    \/ Policy(reply) = "ask" /\ reply.line = expected

(* confirm_record: a blank record has nothing to destroy and is not asked  *)
(* about; everything else is, whatever the command.                        *)
ConfirmRecord(record, reply) == record = "blank" \/ YesNo(reply)
===============================================================================
