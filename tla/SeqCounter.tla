------------------------------ MODULE SeqCounter ------------------------------
(***************************************************************************)
(* The sensor's flash-checkpointed packet counter                          *)
(* (firmware/sensor/src/seq_counter.rs) and the task that draws from it.   *)
(*                                                                         *)
(* Two flash pages form one circular append log of "reserved until"        *)
(* ceilings.  A boot resumes at the highest ceiling the scan finds, and    *)
(* numbers are handed out only below a ceiling that is in flash.  Flash is *)
(* NOR: an erase sets every bit of a page, a write only clears bits, and   *)
(* both can be cut short by a power loss or return an error part way.      *)
(***************************************************************************)
EXTENDS Integers

CONSTANTS
    WordsPerPage,        \* words, i.e. records, per flash page
    ReservationBlock,    \* numbers reserved by one record
    Modulus,             \* 2^32 in the firmware: a word, and `seq`, is below it
    Lifetime,            \* bound: the counter is followed up to this ceiling
    AndWords(_, _),           \* bitwise and of two words: what a write leaves
    TornWrite(_, _),     \* TornWrite(old, new): words a cut-short write may leave
    TornErase(_)         \* TornErase(old): words a cut-short erase may leave

Word == 0 .. (Modulus - 1)
Erased == Modulus - 1
TotalSlots == 2 * WordsPerPage
Slot == 0 .. (TotalSlots - 1)

ASSUME SizeAssumption ==
    /\ WordsPerPage \in Nat \ {0}
    /\ ReservationBlock \in Nat \ {0}
    /\ Modulus \in Nat
    /\ Modulus > ReservationBlock
    /\ Lifetime \in Nat

ASSUME FlashAssumption ==
    \A old, new \in Word : /\ AndWords(old, new) \in Word
                           /\ TornWrite(old, new) \subseteq Word
                           /\ TornErase(old) \subseteq Word

(* What NOR flash promises of a write, cut short or not: it only clears    *)
(* bits, and none that the word to be written has.                         *)
WritesClearBits ==
    \A old, new \in Word :
        /\ AndWords(Erased, new) = new
        /\ AndWords(AndWords(old, new), new) = AndWords(old, new)
        /\ \A w \in TornWrite(old, new) : AndWords(w, new) = AndWords(old, new)

(* A cut-short erase that reaches a word entirely or not at all.           *)
ErasesWholeWords == \A old \in Word : TornErase(old) \subseteq {old, Erased}

VARIABLES
    flash,             \* [Slot -> Word], survives a power loss
    pc,                \* "off", "idle", "erase", "write", "panic"
    next_seq,          \* the SeqCounter struct in RAM ...
    reserved_until,
    next_slot,
    last,              \* history: the last number drawn, -1 before the first
    drawn              \* history: how many numbers have been drawn

ram == <<next_seq, reserved_until, next_slot>>
history == <<last, drawn>>
vars == <<flash, pc, ram, history>>

IsValidRecord(w) == w # 0 /\ w % ReservationBlock = 0
BlankIsNoRecord == ~IsValidRecord(Erased)

(* Mutant of NextSlot: the circular log does not wrap.                     *)
NextSlotUnwrapped(s) == s + 1
NextSlot(s) == (s + 1) % TotalSlots
PageStart(s) == IF s < WordsPerPage THEN 0 ELSE WordsPerPage
(* Mutant of StartsPage: only the first page is erased before its reuse.   *)
StartsFirstPage(s) == s = 0
StartsPage(s) == PageStart(s) = s
(* Mutant of PageSlots: the erase range spans both pages.                  *)
BothPages(s) == Slot
PageSlots(s) == PageStart(s) .. (PageStart(s) + WordsPerPage - 1)

(* The scan leaves a page at its first invalid record, so it reads a slot  *)
(* only when every slot of the page up to it holds a valid one.            *)
Scanned(s) == \A t \in PageStart(s) .. s : IsValidRecord(flash[t])

(* Mutant of Newest: the last valid record of the scan, not the highest.   *)
LastScanned(s) == Scanned(s) /\ \A t \in Slot : Scanned(t) => t <= s

(* The scan's strict comparison keeps the first slot of the highest ceiling. *)
Newest(s) ==
    /\ Scanned(s)
    /\ \A t \in Slot : Scanned(t) => \/ flash[t] < flash[s]
                                     \/ flash[t] = flash[s] /\ s <= t

NewCeiling == (reserved_until + ReservationBlock) % Modulus

-------------------------------------------------------------------------------
Init ==
    /\ flash = [s \in Slot |-> Erased]
    /\ pc = "off"
    /\ next_seq = 0 /\ reserved_until = 0 /\ next_slot = 0
    /\ last = -1 /\ drawn = 0

(* SeqCounter::load, on every boot. *)
Load ==
    /\ pc = "off"
    /\ pc' = "idle"
    /\ \/ /\ \A s \in Slot : ~Scanned(s)
          /\ next_seq' = 0 /\ reserved_until' = 0 /\ next_slot' = 0
       \/ \E s \in Slot : /\ Newest(s)
                          /\ next_seq' = flash[s]
                          /\ reserved_until' = flash[s]
                          /\ next_slot' = NextSlot(s)
    /\ UNCHANGED <<flash, history>>

(* The end of `next`: the number goes to the packet builder as its nonce. *)
Draw ==
    /\ last' = next_seq
    /\ drawn' = drawn + 1
    /\ next_seq' = (next_seq + 1) % Modulus

(* `next` inside a reservation: no flash access. *)
DrawReserved ==
    /\ pc = "idle"
    /\ next_seq < reserved_until
    /\ Draw
    /\ UNCHANGED <<flash, pc, reserved_until, next_slot>>

(* `next` at the end of a reservation enters advance_reservation. *)
AdvanceReservation ==
    /\ pc = "idle"
    /\ next_seq >= reserved_until
    /\ reserved_until + ReservationBlock <= Lifetime
    /\ pc' = IF StartsPage(next_slot) THEN "erase" ELSE "write"
    /\ UNCHANGED <<flash, ram, history>>

Erase ==
    /\ pc = "erase"
    /\ pc' = "write"
    /\ flash' = [s \in Slot |-> IF s \in PageSlots(next_slot) THEN Erased ELSE flash[s]]
    /\ UNCHANGED <<ram, history>>

(* The write, the read-back, and with no await left the rest of `next`. *)
WriteCeiling ==
    /\ pc = "write"
    /\ flash' = [flash EXCEPT ![next_slot] = AndWords(flash[next_slot], NewCeiling)]
    /\ IF flash'[next_slot] = NewCeiling
       THEN /\ pc' = "idle"
            /\ reserved_until' = NewCeiling
            /\ next_slot' = NextSlot(next_slot)
            /\ Draw
       ELSE /\ pc' = "panic"
            /\ UNCHANGED <<ram, history>>

(* What an interrupted flash operation leaves in flash. *)
CutShort ==
    CASE pc = "erase" ->
           LET page == PageSlots(next_slot) IN
           \E torn \in [page -> UNION {TornErase(flash[s]) : s \in page}] :
               /\ \A s \in page : torn[s] \in TornErase(flash[s])
               /\ flash' = [s \in Slot |-> IF s \in page THEN torn[s] ELSE flash[s]]
      [] pc = "write" ->
           \E w \in TornWrite(flash[next_slot], NewCeiling) :
               flash' = [flash EXCEPT ![next_slot] = w]
      [] OTHER -> flash' = flash

(* FlashError from the erase or the write: `?` returns, the packet is      *)
(* skipped, and the struct is as it was.                                   *)
FlashFails ==
    /\ pc \in {"erase", "write"}
    /\ CutShort
    /\ pc' = "idle"
    /\ UNCHANGED <<ram, history>>

(* Battery out, brown-out or reset, at any moment. *)
PowerLoss ==
    /\ pc # "off"
    /\ CutShort
    /\ pc' = "off"
    /\ next_seq' = 0 /\ reserved_until' = 0 /\ next_slot' = 0
    /\ UNCHANGED history

Next == Load \/ DrawReserved \/ AdvanceReservation \/ Erase \/ WriteCeiling
            \/ FlashFails \/ PowerLoss

Spec == Init /\ [][Next]_vars

(* Power comes back, the task keeps drawing, and neither flash operation   *)
(* is cut short every time it is tried.                                    *)
Fairness == /\ WF_vars(Load)
            /\ SF_vars(DrawReserved) /\ SF_vars(AdvanceReservation)
            /\ SF_vars(Erase) /\ SF_vars(WriteCeiling)

FairSpec == Spec /\ Fairness
-------------------------------------------------------------------------------
TypeOK ==
    /\ flash \in [Slot -> Word]
    /\ pc \in {"off", "idle", "erase", "write", "panic"}
    /\ next_seq \in Word
    /\ reserved_until \in Word
    /\ next_slot \in Slot
    /\ last \in Word \cup {-1}
    /\ drawn \in Nat

(***************************************************************************)
(* A number once drawn lies below a ceiling that the boot scan will find,  *)
(* at every moment: in the middle of an erase, of a write, after a failed  *)
(* or cut-short one.  This is the jump-ahead the module's header calls a   *)
(* security property; only a scan that can lose sight of the newest record *)
(* (an erase of its page, a record overwritten) breaks it.                 *)
(***************************************************************************)
DrawnBelowCheckpoint ==
    last >= 0 => \E s \in Slot : Scanned(s) /\ flash[s] > last

(***************************************************************************)
(* No number is drawn twice and none is drawn out of order, across every   *)
(* reboot: a draw is a step of the abstract nonce source, all other steps  *)
(* leave it alone (`next` and `load`).                                     *)
(***************************************************************************)
Source == INSTANCE NonceSource
ImplementsNonceSource == Source!Spec

(***************************************************************************)
(* The read-back assertion of advance_reservation never fires: whatever    *)
(* was cut short before, the slot a boot resumes at takes the ceiling the  *)
(* boot computes.                                                          *)
(***************************************************************************)
ReadbackMatches == pc # "panic"

(***************************************************************************)
(* The counter never wedges: numbers go on being drawn as long as ceilings *)
(* are left, however often the power fails (`advance_reservation` retried  *)
(* from any state of the log).                                             *)
(***************************************************************************)
NeverWedged ==
    \/ []<><<last' > last>>_vars
    \/ []<>(reserved_until + ReservationBlock > Lifetime)
===============================================================================
