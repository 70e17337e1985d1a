---------------------------- MODULE UnknownDevices ----------------------------
(***************************************************************************)
(* The ingestion task's account of devices nobody registered               *)
(* (api/src/ingest/unknown_devices.rs): one entry each up to a limit, one  *)
(* counter for all others, and a log line for either when it is the first  *)
(* or the last one is an interval old: `due` says that it is.              *)
(***************************************************************************)
EXTENDS Naturals, FiniteSets, TLC

CONSTANT MaxTracked     \* MAX_TRACKED

ASSUME TrackedAssumption == MaxTracked \in Nat

NoUnknown == [count |-> <<>>, overflow |-> 0]

Full(u) == Cardinality(DOMAIN u.count) >= MaxTracked

(* Mutant: a full table makes room for the newcomer.                       *)
RecordEvicting(u, addr) ==
    [u EXCEPT !.count = (addr :> IF addr \in DOMAIN @ THEN @[addr] + 1 ELSE 1)
                        @@ IF Full(u) /\ addr \notin DOMAIN @ THEN <<>> ELSE @]

(* record, of a device that has an entry, that gets one, that gets none.   *)
Record(u, addr) ==
    IF addr \in DOMAIN u.count THEN [u EXCEPT !.count[addr] = @ + 1]
    ELSE IF ~ Full(u)
    THEN [u EXCEPT !.count = [a \in DOMAIN @ \cup {addr} |-> IF a = addr THEN 1 ELSE @[a]]]
    ELSE [u EXCEPT !.overflow = @ + 1]

(* Whom the line logged for it is about, if there is one.                  *)
Report(u, addr, due) ==
    IF addr \in DOMAIN u.count THEN IF due THEN {addr} ELSE {}
    ELSE IF ~ Full(u) THEN {addr}
    ELSE IF due \/ u.overflow = 0 THEN {"others"} ELSE {}
===============================================================================
