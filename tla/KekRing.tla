-------------------------------- MODULE KekRing --------------------------------
(***************************************************************************)
(* The key-encryption keys of the API (api/src/devices/keys.rs): the file  *)
(* it reads them from at start, and what sealing and opening a device's    *)
(* key under them comes to.  The AEAD is ideal: what was sealed under a    *)
(* generation opens under the same key and no other.                       *)
(***************************************************************************)
EXTENDS Naturals, FiniteSets

(* Lines of a kind; the keys by their generation.                          *)
Of(lines, field) == {i \in DOMAIN lines : lines[i].field = field}
KeyOf(lines) ==
    [g \in {lines[i].gen : i \in Of(lines, "key")} |->
        lines[CHOOSE i \in Of(lines, "key") : lines[i].gen = g].kek]

(* KekRing::parse of a file's lines, comments and blank ones left out: no  *)
(* malformed line, one `current`, no generation twice, and a key for the   *)
(* current one; anything else is refused.                                  *)
WellFormed(lines) ==
    /\ Of(lines, "malformed") = {}
    /\ \A i, j \in Of(lines, "key") : lines[i].gen = lines[j].gen => i = j
    /\ \A i, j \in Of(lines, "current") : i = j
Parse(lines) ==
    {[current |-> lines[i].gen, keks |-> KeyOf(lines)] :
        i \in {c \in Of(lines, "current") : WellFormed(lines) /\ lines[c].gen \in DOMAIN KeyOf(lines)}}

(* Mutant: the number of one generation beside the key of another.         *)
SealUnderFirst(ring) ==
    [gen |-> ring.current,
     kek |-> ring.keks[CHOOSE g \in DOMAIN ring.keks : \A h \in DOMAIN ring.keks : g <= h]]

(* seal: the wrap of a key sealed under the current generation.            *)
Seal(ring) == [gen |-> ring.current, kek |-> ring.keks[ring.current]]

(* open_key_column and its fault as the summary words it.                  *)
KeyStatus(wrap, ring) ==
    IF wrap.gen \notin DOMAIN ring.keks THEN "kek_unavailable"
    ELSE IF ring.keks[wrap.gen] # wrap.kek THEN "unopenable" ELSE "ok"
===============================================================================
