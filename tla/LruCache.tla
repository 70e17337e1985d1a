------------------------------- MODULE LruCache -------------------------------
(***************************************************************************)
(* The receiver's cache (firmware/receiver/src/lru_cache.rs): an array     *)
(* packed at the front, a tick that stamps every use, and a scan for the   *)
(* smallest stamp when a new key finds the array full.                     *)
(***************************************************************************)
EXTENDS Naturals, Sequences

CONSTANT Size       \* N, slots of the array

(* The struct: the occupied slots and the tick.                            *)
New == [items |-> <<>>, tick |-> 0]

Find(c, k) == {i \in DOMAIN c.items : c.items[i].key = k}
Found(c, k) == {c.items[i].value : i \in Find(c, k)}

(* Mutant of Victim: the freshest slot is displaced.                       *)
FreshestSlot(c) == CHOOSE i \in DOMAIN c.items :
                      \A j \in DOMAIN c.items : c.items[i].last_tick >= c.items[j].last_tick

(* The slot a new key takes: the next free one, else the stalest.          *)
Victim(c) == CHOOSE i \in DOMAIN c.items :
                 \A j \in DOMAIN c.items : c.items[i].last_tick <= c.items[j].last_tick
SlotFor(c) == IF Len(c.items) >= Size THEN Victim(c) ELSE Len(c.items) + 1

AfterGet(c, k) ==
    [tick |-> c.tick + 1,
     items |-> [i \in DOMAIN c.items |->
                   IF i \in Find(c, k) THEN [c.items[i] EXCEPT !.last_tick = c.tick + 1]
                                       ELSE c.items[i]]]

AfterInsert(c, k, v) ==
    LET item == [key |-> k, value |-> v, last_tick |-> c.tick + 1]
        at == IF Find(c, k) # {} THEN Find(c, k) ELSE {SlotFor(c)} IN
    [tick |-> c.tick + 1,
     items |-> [i \in DOMAIN c.items \cup at |-> IF i \in at THEN item ELSE c.items[i]]]
===============================================================================
