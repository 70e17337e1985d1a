--------------------------- MODULE SeqCounterProofs ---------------------------
(***************************************************************************)
(* The sequence counter never hands out a number twice, for every page     *)
(* size, block size, word width and every outcome of a cut-short flash     *)
(* operation, as long as the ceiling stays below the word's range          *)
(* (Lifetime < Modulus): the counter implements the abstract nonce source. *)
(***************************************************************************)
EXTENDS SeqCounter, TLAPS

(* The reservation arithmetic: ceilings stay multiples of the block.       *)
LEMMA MultipleMod == ASSUME NEW n \in Nat \ {0}, NEW k \in Nat
                     PROVE  (n * k) % n = 0
  BY Z3T(20)

LEMMA NextMultiple ==
    ASSUME NEW n \in Nat \ {0}, NEW a \in Nat, a % n = 0
    PROVE  (a + n) % n = 0
<1> DEFINE q == a \div n
<1>1. a = (n * q) + (a % n)
  BY SMT
<1>2. q \in Nat
  BY SMT
<1>3. a + n = n * (q + 1)
  BY <1>1, <1>2, SMT
<1>4. q + 1 \in Nat
  BY <1>2
<1> HIDE DEF q
<1> QED
  BY <1>3, <1>4, MultipleMod

LEMMA SmallMod == ASSUME NEW n \in Nat \ {0}, NEW a \in 0 .. (n - 1)
                  PROVE  a % n = a
  BY SMT

LEMMA ModRange == ASSUME NEW n \in Nat \ {0}, NEW a \in Nat
                  PROVE  a % n \in 0 .. (n - 1)
  BY SMT

-------------------------------------------------------------------------------
(* Where the struct in RAM stands with respect to the log in flash.        *)
AtNewestRecord ==
    \/ reserved_until = 0 /\ last = -1 /\ next_slot = 0
    \/ \E m \in Slot : /\ Scanned(m)
                       /\ flash[m] = reserved_until
                       /\ next_slot = NextSlot(m)

InRam ==
    pc # "off" =>
        /\ last < next_seq
        /\ next_seq <= reserved_until
        /\ AtNewestRecord
        /\ pc = "erase" => StartsPage(next_slot)
        /\ pc \in {"erase", "write"} => /\ next_seq >= reserved_until
                                        /\ reserved_until + ReservationBlock <= Lifetime

(* The inductive invariant of the specification.                           *)
IInv == TypeOK /\ DrawnBelowCheckpoint /\ InRam

-------------------------------------------------------------------------------
(* Layout: the slot after m never lies among the slots the scan reads to   *)
(* reach m, and if it opens a page, m is in the other page.                *)
LEMMA NextSlotLayout ==
    ASSUME NEW m \in Slot
    PROVE  /\ NextSlot(m) \in Slot
           /\ NextSlot(m) \notin PageStart(m) .. m
           /\ StartsPage(NextSlot(m)) =>
                  PageSlots(NextSlot(m)) \cap (PageStart(m) .. m) = {}
<1> USE SizeAssumption DEF Slot, TotalSlots
<1>1. CASE m + 1 < TotalSlots
  <2>1. NextSlot(m) = m + 1
    BY <1>1, SmallMod DEF NextSlot
  <2> QED
    BY <1>1, <2>1 DEF PageStart, StartsPage, PageSlots
<1>2. CASE m + 1 = TotalSlots
  <2>1. NextSlot(m) = 0
    BY <1>2, SMT DEF NextSlot
  <2> QED
    BY <1>2, <2>1 DEF PageStart, StartsPage, PageSlots
<1> QED
  BY <1>1, <1>2

(* A flash change outside the scanned prefix keeps the record in the scan. *)
LEMMA RecordKept ==
    ASSUME NEW m \in Slot, Scanned(m),
           \A t \in PageStart(m) .. m : flash'[t] = flash[t]
    PROVE  Scanned(m)' /\ flash'[m] = flash[m]
<1>1. m \in PageStart(m) .. m
  BY SizeAssumption DEF PageStart, Slot, TotalSlots
<1> QED
  BY <1>1 DEF Scanned

(* A cut-short erase or write touches no slot the scan needs to find the   *)
(* newest record.                                                          *)
LEMMA CutShortKeeps ==
    ASSUME IInv, pc \in {"erase", "write"}, CutShort
    PROVE  /\ flash' \in [Slot -> Word]
           /\ \A m \in Slot : next_slot = NextSlot(m) =>
                  \A t \in PageStart(m) .. m : flash'[t] = flash[t]
<1>0. /\ flash \in [Slot -> Word] /\ next_slot \in Slot
      /\ reserved_until \in Word /\ pc # "off"
  BY DEF IInv, TypeOK
<1>1. CASE pc = "erase"
  <2> DEFINE page == PageSlots(next_slot)
  <2>1. PICK torn \in [page -> UNION {TornErase(flash[s]) : s \in page}] :
            /\ \A s \in page : torn[s] \in TornErase(flash[s])
            /\ flash' = [s \in Slot |-> IF s \in page THEN torn[s] ELSE flash[s]]
    BY <1>1 DEF CutShort
  <2>2. \A s \in Slot : TornErase(flash[s]) \subseteq Word
    BY <1>0, FlashAssumption
  <2>3. flash' \in [Slot -> Word]
    BY <1>0, <2>1, <2>2
  <2>4. StartsPage(next_slot)
    BY <1>0, <1>1 DEF IInv, InRam
  <2>5. \A m \in Slot : PageStart(m) .. m \subseteq Slot
    BY SizeAssumption DEF PageStart, Slot, TotalSlots
  <2> QED
    BY <2>1, <2>3, <2>4, <2>5, NextSlotLayout
<1>2. CASE pc = "write"
  <2>1. NewCeiling \in Word
    BY <1>0, SizeAssumption, ModRange DEF NewCeiling, Word
  <2>2. PICK w \in TornWrite(flash[next_slot], NewCeiling) :
            flash' = [flash EXCEPT ![next_slot] = w]
    BY <1>2 DEF CutShort
  <2>3. w \in Word
    BY <1>0, <2>1, <2>2, FlashAssumption
  <2>4. flash' \in [Slot -> Word]
    BY <1>0, <2>2, <2>3
  <2>5. \A m \in Slot : PageStart(m) .. m \subseteq Slot
    BY SizeAssumption DEF PageStart, Slot, TotalSlots
  <2> QED
    BY <1>0, <2>2, <2>4, <2>5, NextSlotLayout
<1> QED
  BY <1>1, <1>2

(* While the RAM state stands at the newest record, that record is what    *)
(* the next boot will find above every number drawn.                       *)
LEMMA NewestCoversDrawn ==
    ASSUME TypeOK, pc # "off", InRam, last >= 0
    PROVE  \E m \in Slot : /\ Scanned(m) /\ flash[m] = reserved_until
                           /\ next_slot = NextSlot(m) /\ flash[m] > last
  BY SizeAssumption DEF TypeOK, InRam, AtNewestRecord, Word

(* FlashFails and the power loss in mid-operation, as far as flash goes.   *)
LEMMA CutShortInv ==
    ASSUME IInv, pc \in {"erase", "write"}, CutShort, UNCHANGED history
    PROVE  /\ flash' \in [Slot -> Word]
           /\ DrawnBelowCheckpoint'
           /\ next_slot' = next_slot /\ reserved_until' = reserved_until
                => AtNewestRecord'
<1>1. /\ TypeOK /\ pc # "off" /\ InRam
  BY DEF IInv
<1>2. flash' \in [Slot -> Word]
  BY CutShortKeeps
<1>3. \A m \in Slot : next_slot = NextSlot(m) /\ Scanned(m)
                       => Scanned(m)' /\ flash'[m] = flash[m]
  BY CutShortKeeps, RecordKept
<1>4. DrawnBelowCheckpoint'
  BY <1>1, <1>3, NewestCoversDrawn DEF DrawnBelowCheckpoint, history
<1>5. ASSUME next_slot' = next_slot, reserved_until' = reserved_until
      PROVE  AtNewestRecord'
  BY <1>1, <1>3, <1>5 DEF InRam, AtNewestRecord, history, NextSlot
<1> QED
  BY <1>2, <1>4, <1>5

-------------------------------------------------------------------------------
LEMMA InitInv == Init => IInv
<1> USE SizeAssumption DEF Init, Slot, TotalSlots, Word, Erased
<1>1. Init => TypeOK
  BY DEF TypeOK
<1>2. Init => DrawnBelowCheckpoint
  BY DEF DrawnBelowCheckpoint
<1>3. Init => InRam
  BY DEF InRam
<1> QED
  BY <1>1, <1>2, <1>3 DEF IInv

(* A boot finds a ceiling above every number drawn: the one the invariant  *)
(* names or a higher one.                                                  *)
LEMMA LoadInv == ASSUME IInv, Load PROVE IInv'
<1>1. TypeOK /\ flash' = flash /\ last' = last /\ drawn' = drawn /\ pc' = "idle"
  BY DEF IInv, Load, history
<1>2. DrawnBelowCheckpoint'
  BY <1>1 DEF IInv, DrawnBelowCheckpoint, Scanned
<1>3. CASE /\ \A s \in Slot : ~Scanned(s)
           /\ next_seq' = 0 /\ reserved_until' = 0 /\ next_slot' = 0
  <2>1. last = -1
    BY <1>1, <1>3 DEF IInv, DrawnBelowCheckpoint, TypeOK, Word
  <2>2. TypeOK'
    BY <1>1, <1>3, SizeAssumption DEF TypeOK, Word, Slot, TotalSlots
  <2>3. InRam'
    BY <1>1, <1>3, <2>1 DEF InRam, AtNewestRecord
  <2> QED
    BY <1>2, <2>2, <2>3 DEF IInv
<1>4. CASE \E s \in Slot : /\ Newest(s) /\ next_seq' = flash[s]
                            /\ reserved_until' = flash[s]
                            /\ next_slot' = NextSlot(s)
  <2>1. PICK s \in Slot : /\ Newest(s) /\ next_seq' = flash[s]
                           /\ reserved_until' = flash[s]
                           /\ next_slot' = NextSlot(s)
    BY <1>4
  <2>2. flash[s] \in Word
    BY <1>1 DEF TypeOK
  <2>3. TypeOK'
    BY <1>1, <2>1, <2>2, NextSlotLayout DEF TypeOK
  <2>4. last < flash[s]
    <3>1. CASE last >= 0
      <4>1. PICK t \in Slot : Scanned(t) /\ flash[t] > last
        BY <3>1 DEF IInv, DrawnBelowCheckpoint
      <4>2. flash[t] <= flash[s] /\ flash[t] \in Word
        BY <1>1, <2>1, <2>2, <4>1 DEF Newest, TypeOK, Word
      <4> QED
        BY <1>1, <2>2, <4>1, <4>2, SizeAssumption DEF TypeOK, Word
    <3>2. CASE last = -1
      BY <2>2, <3>2, SizeAssumption DEF Word
    <3> QED
      BY <1>1, <3>1, <3>2, SizeAssumption DEF TypeOK, Word
  <2>5. Scanned(s)'
    BY <1>1, <2>1 DEF Newest, Scanned
  <2>6. AtNewestRecord'
    BY <1>1, <2>1, <2>5 DEF AtNewestRecord, NextSlot
  <2>7. InRam'
    BY <1>1, <2>1, <2>2, <2>4, <2>6, SizeAssumption DEF InRam, Word
  <2> QED
    BY <1>2, <2>3, <2>7 DEF IInv
<1> QED
  BY <1>3, <1>4 DEF Load

LEMMA DrawReservedInv ==
    ASSUME IInv, DrawReserved
    PROVE  IInv' /\ last' > last /\ drawn' = drawn + 1
<1>1. /\ TypeOK /\ InRam /\ pc = "idle" /\ next_seq < reserved_until
      /\ UNCHANGED <<flash, pc, reserved_until, next_slot>>
      /\ last' = next_seq /\ drawn' = drawn + 1
  BY DEF IInv, DrawReserved, Draw
<1>2. next_seq' = next_seq + 1 /\ next_seq' \in Word
  <2>1. next_seq' = (next_seq + 1) % Modulus
    BY DEF DrawReserved, Draw
  <2>2. next_seq \in Nat /\ reserved_until \in Nat /\ reserved_until < Modulus
    BY <1>1, SizeAssumption DEF TypeOK, Word
  <2>3. next_seq + 1 \in 0 .. Modulus - 1 /\ Modulus \in Nat \ {0}
    BY <1>1, <2>2, SizeAssumption
  <2>4. (next_seq + 1) % Modulus = next_seq + 1
    BY <2>3, SmallMod
  <2> QED
    BY <2>1, <2>3, <2>4 DEF Word
<1>3. TypeOK'
  BY <1>1, <1>2 DEF TypeOK, Word
<1>4. last < next_seq /\ last' > last
  BY <1>1, SizeAssumption DEF InRam, TypeOK, Word
<1>5. /\ AtNewestRecord
      /\ reserved_until # 0
  BY <1>1, SizeAssumption DEF InRam, TypeOK, Word
<1>6. PICK m \in Slot : /\ Scanned(m) /\ flash[m] = reserved_until
                         /\ next_slot = NextSlot(m)
  BY <1>5 DEF AtNewestRecord
<1>7. Scanned(m)' /\ flash'[m] = reserved_until' /\ next_slot' = NextSlot(m)
  BY <1>1, <1>6 DEF Scanned
<1>8. InRam'
  BY <1>1, <1>2, <1>7, SizeAssumption DEF InRam, AtNewestRecord, NextSlot, TypeOK, Word
<1>9. DrawnBelowCheckpoint'
  BY <1>1, <1>7 DEF DrawnBelowCheckpoint
<1> QED
  BY <1>1, <1>3, <1>4, <1>8, <1>9 DEF IInv

LEMMA AdvanceReservationInv == ASSUME IInv, AdvanceReservation PROVE IInv'
<1>1. /\ TypeOK /\ InRam /\ pc = "idle" /\ next_seq >= reserved_until
      /\ reserved_until + ReservationBlock <= Lifetime
      /\ UNCHANGED <<flash, next_seq, reserved_until, next_slot, last, drawn>>
      /\ pc' \in {"erase", "write"}
      /\ pc' = "erase" => StartsPage(next_slot)
  BY DEF IInv, AdvanceReservation, ram, history
<1>2. TypeOK'
  BY <1>1 DEF TypeOK
<1>3. DrawnBelowCheckpoint'
  BY <1>1 DEF IInv, DrawnBelowCheckpoint, Scanned
<1>4. AtNewestRecord'
  BY <1>1 DEF InRam, AtNewestRecord, Scanned, NextSlot
<1>5. InRam'
  BY <1>1, <1>4 DEF InRam, StartsPage, PageStart
<1> QED
  BY <1>2, <1>3, <1>5 DEF IInv

LEMMA EraseInv == ASSUME IInv, Erase PROVE IInv'
<1> DEFINE page == PageSlots(next_slot)
<1>1. /\ TypeOK /\ InRam /\ pc = "erase" /\ pc' = "write"
      /\ flash' = [s \in Slot |-> IF s \in page THEN Erased ELSE flash[s]]
      /\ UNCHANGED <<next_seq, reserved_until, next_slot, last, drawn>>
  BY DEF IInv, Erase, ram, history
<1>2. TypeOK'
  BY <1>1, SizeAssumption DEF TypeOK, Word, Erased
<1>3. \A m \in Slot : next_slot = NextSlot(m) /\ Scanned(m)
                       => Scanned(m)' /\ flash'[m] = flash[m]
  <2> SUFFICES ASSUME NEW m \in Slot, next_slot = NextSlot(m), Scanned(m)
               PROVE  Scanned(m)' /\ flash'[m] = flash[m]
    OBVIOUS
  <2>1. page \cap (PageStart(m) .. m) = {}
    BY <1>1, NextSlotLayout DEF InRam
  <2>2. PageStart(m) .. m \subseteq Slot
    BY SizeAssumption DEF PageStart, Slot, TotalSlots
  <2>3. \A t \in PageStart(m) .. m : flash'[t] = flash[t]
    BY <1>1, <2>1, <2>2
  <2> QED
    BY <2>3, RecordKept
<1>4. AtNewestRecord'
  BY <1>1, <1>3 DEF InRam, AtNewestRecord, NextSlot
<1>5. DrawnBelowCheckpoint'
  BY <1>1, <1>3, NewestCoversDrawn DEF DrawnBelowCheckpoint
<1>6. InRam'
  BY <1>1, <1>4 DEF InRam
<1> QED
  BY <1>2, <1>5, <1>6 DEF IInv

(* The one step that both moves the log and draws.                         *)
LEMMA WriteCeilingInv ==
    ASSUME IInv, WriteCeiling, Lifetime < Modulus
    PROVE  /\ IInv'
           /\ \/ last' > last /\ drawn' = drawn + 1
              \/ UNCHANGED <<last, drawn>>
<1> DEFINE word == AndWords(flash[next_slot], NewCeiling)
<1>1. /\ TypeOK /\ InRam /\ pc = "write"
      /\ flash' = [flash EXCEPT ![next_slot] = word]
      /\ flash \in [Slot -> Word] /\ next_slot \in Slot
  BY DEF IInv, WriteCeiling, TypeOK
<1>2. /\ NewCeiling = reserved_until + ReservationBlock
      /\ NewCeiling \in Word /\ NewCeiling > reserved_until
      /\ reserved_until \in Word
  <2>1. reserved_until + ReservationBlock \in 0 .. (Modulus - 1)
    BY <1>1, SizeAssumption DEF InRam, TypeOK, Word
  <2>2. NewCeiling = reserved_until + ReservationBlock
    BY <2>1, SmallMod, SizeAssumption DEF NewCeiling
  <2> QED
    BY <1>1, <2>1, <2>2, SizeAssumption DEF TypeOK, Word
<1>3. flash' \in [Slot -> Word]
  BY <1>1, <1>2, FlashAssumption
<1>4. \A m \in Slot : next_slot = NextSlot(m) /\ Scanned(m)
                       => Scanned(m)' /\ flash'[m] = flash[m]
  <2> SUFFICES ASSUME NEW m \in Slot, next_slot = NextSlot(m), Scanned(m)
               PROVE  Scanned(m)' /\ flash'[m] = flash[m]
    OBVIOUS
  <2>1. \A t \in PageStart(m) .. m : flash'[t] = flash[t]
    <3>1. PageStart(m) .. m \subseteq Slot
      BY SizeAssumption DEF PageStart, Slot, TotalSlots
    <3> QED
      BY <1>1, <3>1, NextSlotLayout
  <2> QED
    BY <2>1, RecordKept
<1>5. CASE flash'[next_slot] = NewCeiling
  <2>1. /\ pc' = "idle" /\ reserved_until' = NewCeiling
        /\ next_slot' = NextSlot(next_slot)
        /\ last' = next_seq /\ drawn' = drawn + 1
        /\ next_seq' = (next_seq + 1) % Modulus
    BY <1>5 DEF WriteCeiling, Draw
  <2>2. next_seq = reserved_until /\ last < next_seq
    BY <1>1 DEF InRam, TypeOK, Word
  <2>3. next_seq' = next_seq + 1 /\ next_seq' \in Word
    BY <1>2, <2>1, <2>2, SmallMod, SizeAssumption DEF Word
  <2>4. TypeOK'
    BY <1>1, <1>2, <1>3, <2>1, <2>3, NextSlotLayout DEF TypeOK
  <2>5. IsValidRecord(NewCeiling)
    <3>1. reserved_until % ReservationBlock = 0
      <4>1. CASE reserved_until = 0
        BY <4>1, SmallMod, SizeAssumption
      <4>2. CASE reserved_until # 0
        <5>1. PICK m \in Slot : Scanned(m) /\ flash[m] = reserved_until
          BY <1>1, <4>2 DEF InRam, AtNewestRecord
        <5>2. m \in PageStart(m) .. m
          BY SizeAssumption DEF PageStart, Slot, TotalSlots
        <5> QED
          BY <5>1, <5>2 DEF Scanned, IsValidRecord
      <4> QED
        BY <4>1, <4>2
    <3>2. reserved_until \in Nat /\ NewCeiling # 0
      BY <1>2, SizeAssumption DEF Word
    <3>3. (reserved_until + ReservationBlock) % ReservationBlock = 0
      BY <3>1, <3>2, NextMultiple, SizeAssumption
    <3> QED
      BY <1>2, <3>2, <3>3 DEF IsValidRecord
  <2> PICK k \in Slot : k = next_slot
    BY <1>1
  <2>6. Scanned(k)' /\ flash'[k] = NewCeiling
    <3>1. flash'[k] = NewCeiling
      BY <1>5
    <3>2. CASE StartsPage(k)
      <4>1. PageStart(k) .. k = {k}
        BY <3>2 DEF StartsPage, Slot
      <4> QED
        BY <2>5, <3>1, <4>1 DEF Scanned
    <3>3. CASE ~StartsPage(k)
      <4>1. PICK m \in Slot : Scanned(m) /\ k = NextSlot(m)
        BY <1>1, <3>3, SizeAssumption DEF InRam, AtNewestRecord, StartsPage, PageStart
      <4>2. PageStart(k) .. k = (PageStart(m) .. m) \cup {k}
        <5>1. CASE m + 1 < TotalSlots
          <6>1. k = m + 1
            BY <4>1, <5>1, SmallMod, SizeAssumption DEF NextSlot, Slot, TotalSlots
          <6>2. PageStart(k) = PageStart(m) /\ PageStart(m) \in 0 .. m
            BY <3>3, <6>1, SizeAssumption DEF StartsPage, PageStart, Slot, TotalSlots
          <6> QED
            BY <6>1, <6>2 DEF Slot
        <5>2. CASE m + 1 = TotalSlots
          <6>1. NextSlot(m) = 0
            BY <5>2, SizeAssumption, SMT DEF NextSlot, Slot, TotalSlots
          <6> QED
            BY <3>3, <4>1, <6>1, SizeAssumption DEF StartsPage, PageStart
        <5> QED
          BY <5>1, <5>2, SizeAssumption DEF Slot, TotalSlots
      <4>3. Scanned(m)'
        BY <1>4, <4>1
      <4> QED
        BY <2>5, <3>1, <4>2, <4>3 DEF Scanned
    <3> QED
      BY <3>1, <3>2, <3>3
  <2>7. DrawnBelowCheckpoint'
    <3>1. flash'[k] > last'
      BY <1>2, <2>1, <2>2, <2>6 DEF Word
    <3> QED
      BY <2>6, <3>1 DEF DrawnBelowCheckpoint
  <2>8. AtNewestRecord'
    BY <2>1, <2>6 DEF AtNewestRecord, NextSlot
  <2>9. InRam'
    BY <1>1, <1>2, <2>1, <2>2, <2>3, <2>8, SizeAssumption DEF InRam, Word
  <2>10. last' > last
    BY <1>1, <2>1, <2>2 DEF TypeOK, Word
  <2> QED
    BY <2>1, <2>4, <2>7, <2>9, <2>10 DEF IInv
<1>6. CASE flash'[next_slot] # NewCeiling
  <2>1. /\ pc' = "panic"
        /\ UNCHANGED <<next_seq, reserved_until, next_slot, last, drawn>>
    BY <1>6 DEF WriteCeiling, ram, history
  <2>2. TypeOK'
    BY <1>1, <1>3, <2>1 DEF TypeOK
  <2>3. AtNewestRecord'
    BY <1>1, <1>4, <2>1 DEF InRam, AtNewestRecord, NextSlot
  <2>4. InRam'
    BY <1>1, <2>1, <2>3 DEF InRam
  <2>5. DrawnBelowCheckpoint'
    BY <1>1, <1>4, <2>1, NewestCoversDrawn DEF DrawnBelowCheckpoint
  <2> QED
    BY <2>1, <2>2, <2>4, <2>5 DEF IInv
<1> QED
  BY <1>5, <1>6

LEMMA FlashFailsInv == ASSUME IInv, FlashFails PROVE IInv'
<1>1. /\ TypeOK /\ InRam /\ pc \in {"erase", "write"} /\ CutShort /\ pc' = "idle"
      /\ UNCHANGED <<next_seq, reserved_until, next_slot, last, drawn>>
  BY DEF IInv, FlashFails, ram, history
<1>2. /\ flash' \in [Slot -> Word] /\ DrawnBelowCheckpoint' /\ AtNewestRecord'
  BY <1>1, CutShortInv DEF history
<1>3. TypeOK'
  BY <1>1, <1>2 DEF TypeOK
<1>4. InRam'
  BY <1>1, <1>2 DEF InRam
<1> QED
  BY <1>2, <1>3, <1>4 DEF IInv

LEMMA PowerLossInv == ASSUME IInv, PowerLoss PROVE IInv'
<1>1. /\ TypeOK /\ pc # "off" /\ CutShort /\ pc' = "off"
      /\ next_seq' = 0 /\ reserved_until' = 0 /\ next_slot' = 0
      /\ UNCHANGED <<last, drawn>>
  BY DEF IInv, PowerLoss, history
<1>2. flash' \in [Slot -> Word] /\ DrawnBelowCheckpoint'
  <2>1. CASE pc \in {"erase", "write"}
    BY <1>1, <2>1, CutShortInv DEF history
  <2>2. CASE pc \notin {"erase", "write"}
    <3>1. flash' = flash
      BY <1>1, <2>2 DEF CutShort
    <3> QED
      BY <1>1, <3>1 DEF IInv, TypeOK, DrawnBelowCheckpoint, Scanned
  <2> QED
    BY <2>1, <2>2
<1>3. TypeOK'
  BY <1>1, <1>2, SizeAssumption DEF TypeOK, Word, Slot, TotalSlots
<1>4. InRam'
  BY <1>1 DEF InRam
<1> QED
  BY <1>2, <1>3, <1>4 DEF IInv

LEMMA StutterInv == ASSUME IInv, UNCHANGED vars PROVE IInv'
  BY DEF IInv, vars, ram, history, TypeOK, DrawnBelowCheckpoint, InRam,
         AtNewestRecord, Scanned, NextSlot, StartsPage, PageStart

LEMMA NextInv == ASSUME IInv, [Next]_vars, Lifetime < Modulus
                 PROVE  IInv' /\ [Source!Draw]_<<last, drawn>>
<1>1. CASE Load
  BY <1>1, LoadInv DEF Load, history
<1>2. CASE DrawReserved
  <2>1. IInv' /\ last' > last /\ drawn' = drawn + 1
    BY <1>2, DrawReservedInv
  <2>2. last' \in Int
    BY <2>1 DEF IInv, TypeOK, Word
  <2> QED
    BY <2>1, <2>2 DEF Source!Draw
<1>3. CASE AdvanceReservation
  BY <1>3, AdvanceReservationInv DEF AdvanceReservation, history
<1>4. CASE Erase
  BY <1>4, EraseInv DEF Erase, history
<1>5. CASE WriteCeiling
  <2>1. /\ IInv'
        /\ \/ last' > last /\ drawn' = drawn + 1
           \/ UNCHANGED <<last, drawn>>
    BY <1>5, WriteCeilingInv
  <2>2. last' \in Int
    BY <2>1 DEF IInv, TypeOK, Word
  <2>3. CASE last' > last /\ drawn' = drawn + 1
    BY <2>1, <2>2, <2>3 DEF Source!Draw
  <2>4. CASE UNCHANGED <<last, drawn>>
    BY <2>1, <2>4
  <2> QED
    BY <2>1, <2>3, <2>4
<1>6. CASE FlashFails
  BY <1>6, FlashFailsInv DEF FlashFails, history
<1>7. CASE PowerLoss
  BY <1>7, PowerLossInv DEF PowerLoss, history
<1>8. CASE UNCHANGED vars
  BY <1>8, StutterInv DEF vars, history
<1> QED
  BY <1>1, <1>2, <1>3, <1>4, <1>5, <1>6, <1>7, <1>8 DEF Next

-------------------------------------------------------------------------------
(* Type correctness of the counter and of its log, at every size.          *)
THEOREM TypeCorrect == Lifetime < Modulus => (Spec => []TypeOK)
<1> SUFFICES ASSUME Lifetime < Modulus PROVE Spec => []TypeOK
  OBVIOUS
<1>1. IInv /\ [Next]_vars => IInv'
  BY NextInv
<1>2. IInv => TypeOK
  BY DEF IInv
<1> QED
  BY InitInv, <1>1, <1>2, PTL DEF Spec

(* At every moment, power loss included, the boot scan would resume above  *)
(* every number drawn: `load` jumps forward, never back.                   *)
THEOREM NeverRewinds == Lifetime < Modulus => (Spec => []DrawnBelowCheckpoint)
<1> SUFFICES ASSUME Lifetime < Modulus PROVE Spec => []DrawnBelowCheckpoint
  OBVIOUS
<1>1. IInv /\ [Next]_vars => IInv'
  BY NextInv
<1>2. IInv => DrawnBelowCheckpoint
  BY DEF IInv
<1> QED
  BY InitInv, <1>1, <1>2, PTL DEF Spec

(* The counter implements the nonce source: no number is drawn twice.      *)
THEOREM NonceUnique == Lifetime < Modulus => (Spec => ImplementsNonceSource)
<1> SUFFICES ASSUME Lifetime < Modulus PROVE Spec => ImplementsNonceSource
  OBVIOUS
<1>1. IInv /\ [Next]_vars => IInv' /\ [Source!Draw]_<<last, drawn>>
  BY NextInv
<1>2. Init => Source!Init
  BY DEF Init, Source!Init
<1> QED
  BY InitInv, <1>1, <1>2, PTL DEF Spec, ImplementsNonceSource, Source!Spec, Source!vars

(* What the next write finds.  A slot takes a ceiling if writing it there  *)
(* leaves exactly that, and nothing was written behind it since the page   *)
(* was erased; a slot that opens a page is erased first.                   *)
Takes(s, c) ==
    /\ c \in Word => AndWords(flash[s], c) = c
    /\ \A t \in PageSlots(s) : t > s => flash[t] = Erased
Fits(s, c) == StartsPage(s) \/ Takes(s, c)

Outranks(m, t) == flash[t] < flash[m] \/ (flash[t] = flash[m] /\ m <= t)

(* ... were the power to fail now ...                                      *)
BootFits == \A s \in Slot : Newest(s) => Fits(NextSlot(s), flash[s] + ReservationBlock)

(* ... and with the struct in RAM: the record it stands behind is the      *)
(* newest, but for what a cut-short write may have left in the next slot.  *)
NewestButNext ==
    \/ reserved_until = 0 /\ next_slot = 0 /\ \A t \in Slot : Scanned(t) => t = 0
    \/ \E m \in Slot : /\ Scanned(m)
                       /\ flash[m] = reserved_until
                       /\ next_slot = NextSlot(m)
                       /\ \A t \in Slot : Scanned(t) => t = next_slot \/ Outranks(m, t)
RamFits ==
    pc # "off" =>
        /\ pc # "panic"
        /\ NewestButNext
        /\ IF pc = "write" THEN Takes(next_slot, reserved_until + ReservationBlock)
                           ELSE Fits(next_slot, reserved_until + ReservationBlock)

SoundFlash == WritesClearBits /\ ErasesWholeWords /\ BlankIsNoRecord

(* The inductive invariant behind the read-back.                           *)
FitInv == IInv /\ BootFits /\ RamFits

(* Two slots of one page, and the slot after one.                          *)
LEMMA PageLayout ==
    ASSUME NEW m \in Slot
    PROVE  /\ m \in PageStart(m) .. m /\ PageStart(m) .. m \subseteq Slot
           /\ ~StartsPage(NextSlot(m)) => /\ NextSlot(m) \in PageSlots(m)
                                          /\ NextSlot(m) > m
                                          /\ PageSlots(NextSlot(m)) = PageSlots(m)
           /\ \A n \in Slot : n \in PageStart(m) .. m => m \in PageSlots(n) /\ n <= m
<1> USE SizeAssumption DEF Slot, TotalSlots
<1>1. m \in PageStart(m) .. m /\ PageStart(m) .. m \subseteq Slot
  BY DEF PageStart
<1>2. ASSUME ~StartsPage(NextSlot(m))
      PROVE  /\ NextSlot(m) \in PageSlots(m)
             /\ NextSlot(m) > m
             /\ PageSlots(NextSlot(m)) = PageSlots(m)
  <2>1. CASE m + 1 < TotalSlots
    <3>1. NextSlot(m) = m + 1
      BY <2>1, SmallMod DEF NextSlot
    <3>2. PageStart(m + 1) = PageStart(m)
      BY <1>2, <2>1, <3>1 DEF PageStart, StartsPage
    <3> QED
      BY <1>2, <2>1, <3>1, <3>2 DEF PageStart, StartsPage, PageSlots
  <2>2. CASE m + 1 = TotalSlots
    <3>1. NextSlot(m) = 0
      BY <2>2, SMT DEF NextSlot
    <3> QED
      BY <1>2, <3>1 DEF PageStart, StartsPage
  <2> QED
    BY <2>1, <2>2
<1>3. ASSUME NEW n \in Slot, n \in PageStart(m) .. m
      PROVE  m \in PageSlots(n) /\ n <= m
  BY <1>3 DEF PageStart, PageSlots
<1> QED
  BY <1>1, <1>2, <1>3

(* The ceiling the RAM state leads to, as long as there is one.            *)
LEMMA CeilingIsNext ==
    ASSUME TypeOK, InRam, pc = "write", Lifetime < Modulus
    PROVE  NewCeiling = reserved_until + ReservationBlock /\ NewCeiling \in Word
<1>1. reserved_until + ReservationBlock \in 0 .. (Modulus - 1)
  BY SizeAssumption DEF InRam, TypeOK, Word
<1> QED
  BY <1>1, SmallMod, SizeAssumption DEF NewCeiling, Word

(* What a write, cut short or not, may bring into the scan is the slot     *)
(* written: behind it the page is blank.                                   *)
LEMMA WriteScan ==
    ASSUME TypeOK, BlankIsNoRecord, NEW w,
           flash' = [flash EXCEPT ![next_slot] = w],
           \A t \in PageSlots(next_slot) : t > next_slot => flash[t] = Erased,
           NEW t \in Slot, t # next_slot, Scanned(t)'
    PROVE  Scanned(t) /\ flash'[t] = flash[t]
<1>1. flash \in [Slot -> Word] /\ next_slot \in Slot
  BY DEF TypeOK
<1>2. t \in PageStart(t) .. t /\ PageStart(t) .. t \subseteq Slot
  BY PageLayout
<1>3. \A s \in PageStart(t) .. t : IsValidRecord(flash'[s])
  BY DEF Scanned
<1>4. flash'[t] = flash[t]
  BY <1>1
<1>5. next_slot \notin PageStart(t) .. t
  <2> SUFFICES ASSUME next_slot \in PageStart(t) .. t PROVE FALSE
    OBVIOUS
  <2>1. t \in PageSlots(next_slot) /\ next_slot <= t
    BY <1>1, PageLayout
  <2>2. t > next_slot
    BY <1>1, <2>1, SizeAssumption DEF Slot, TotalSlots
  <2>3. flash[t] = Erased
    BY <2>1, <2>2
  <2> QED
    BY <1>2, <1>3, <1>4, <2>3 DEF BlankIsNoRecord
<1>6. \A s \in PageStart(t) .. t : flash'[s] = flash[s]
  BY <1>1, <1>2, <1>5
<1> QED
  BY <1>3, <1>4, <1>6 DEF Scanned

(* A write that leaves every bit of the ceiling, whatever else it leaves:  *)
(* the slot still takes the ceiling, and a boot finds either the record    *)
(* before it, and this slot next, or this slot, and a blank one next.      *)
LEMMA WriteFits ==
    ASSUME FitInv, SoundFlash, Lifetime < Modulus, pc = "write",
           NEW w \in Word, flash' = [flash EXCEPT ![next_slot] = w],
           AndWords(w, NewCeiling) = NewCeiling
    PROVE  /\ BootFits'
           /\ \A t \in PageSlots(next_slot) : t > next_slot => flash'[t] = Erased
<1>1. /\ TypeOK /\ InRam /\ NewestButNext
      /\ Takes(next_slot, reserved_until + ReservationBlock)
      /\ flash \in [Slot -> Word] /\ next_slot \in Slot
  BY DEF FitInv, IInv, RamFits, TypeOK
<1>2. NewCeiling = reserved_until + ReservationBlock /\ NewCeiling \in Word
  BY <1>1, CeilingIsNext
<1>3. PageSlots(next_slot) \subseteq Slot
  BY <1>1, SizeAssumption DEF PageSlots, PageStart, Slot, TotalSlots
<1>4. \A t \in PageSlots(next_slot) : t > next_slot => flash[t] = Erased
  BY <1>1 DEF Takes
<1>5. \A t \in PageSlots(next_slot) : t > next_slot => flash'[t] = Erased
  BY <1>1, <1>3, <1>4, SizeAssumption DEF Slot, TotalSlots
<1>6. flash'[next_slot] = w
  BY <1>1
<1>7. \A t \in Slot : Scanned(t)' /\ t # next_slot => Scanned(t) /\ flash'[t] = flash[t]
  BY <1>1, <1>4, WriteScan DEF SoundFlash
<1>8. ASSUME NEW s \in Slot, Newest(s)'
      PROVE  Fits(NextSlot(s), flash[s] + ReservationBlock)'
  <2>1. CASE s = next_slot
    <3>1. CASE StartsPage(NextSlot(s))
      BY <3>1 DEF Fits, StartsPage, PageStart, NextSlot
    <3>2. CASE ~StartsPage(NextSlot(s))
      <4>1. NextSlot(s) \in PageSlots(s) /\ NextSlot(s) > s
            /\ PageSlots(NextSlot(s)) = PageSlots(s) /\ NextSlot(s) \in Slot
        BY <3>2, PageLayout, NextSlotLayout
      <4>2. flash'[NextSlot(s)] = Erased
        BY <1>5, <2>1, <4>1
      <4>3. \A t \in PageSlots(NextSlot(s)) : t > NextSlot(s) => flash'[t] = Erased
        <5> SUFFICES ASSUME NEW t \in PageSlots(s), t > NextSlot(s)
                     PROVE  t > s
          BY <1>5, <2>1, <4>1
        <5>1. t \in Int /\ s \in Int /\ NextSlot(s) \in Int
          BY <1>3, <2>1, <4>1, SizeAssumption DEF Slot, TotalSlots
        <5> QED
          BY <4>1, <5>1
      <4>4. \A c \in Word : AndWords(Erased, c) = c
        BY DEF SoundFlash, WritesClearBits
      <4> QED
        BY <4>2, <4>3, <4>4 DEF Fits, Takes, PageSlots, PageStart, NextSlot
    <3> QED
      BY <3>1, <3>2
  <2>2. CASE s # next_slot
    <3>1. Scanned(s) /\ flash'[s] = flash[s]
      BY <1>7, <1>8, <2>2 DEF Newest
    <3>2. CASE \A t \in Slot : Scanned(t) => t = 0 /\ next_slot = 0
      BY <2>2, <3>1, <3>2
    <3>3. CASE \E m \in Slot : /\ Scanned(m) /\ flash[m] = reserved_until
                               /\ next_slot = NextSlot(m)
                               /\ \A t \in Slot : Scanned(t) => t = next_slot \/ Outranks(m, t)
      <4>1. PICK m \in Slot : /\ Scanned(m) /\ flash[m] = reserved_until
                              /\ next_slot = NextSlot(m)
                              /\ \A t \in Slot : Scanned(t) => t = next_slot \/ Outranks(m, t)
        BY <3>3
      <4>2. \A t \in PageStart(m) .. m : flash'[t] = flash[t]
        BY <1>1, <4>1, PageLayout, NextSlotLayout
      <4>3. Scanned(m)' /\ flash'[m] = flash[m]
        BY <4>1, <4>2, RecordKept
      <4>4. flash[m] < flash[s] \/ (flash[m] = flash[s] /\ s <= m)
        BY <1>8, <3>1, <4>3 DEF Newest
      <4>5. flash[s] < flash[m] \/ (flash[s] = flash[m] /\ m <= s)
        BY <2>2, <3>1, <4>1 DEF Outranks
      <4>6. s = m
        BY <1>1, <4>4, <4>5, SizeAssumption DEF Word, Slot, TotalSlots
      <4>7. NextSlot(s) = next_slot /\ flash'[s] + ReservationBlock = NewCeiling
        BY <1>2, <3>1, <4>1, <4>6
      <4>8. flash'[NextSlot(s)] = w
        BY <1>6, <4>7
      <4> QED
        BY <1>5, <4>7, <4>8 DEF Fits, Takes, PageSlots, PageStart, NextSlot
    <3> QED
      BY <1>1, <3>2, <3>3 DEF NewestButNext
  <2> QED
    BY <2>1, <2>2
<1>9. BootFits'
  BY <1>8 DEF BootFits, NextSlot
<1> QED
  BY <1>5, <1>9

(* An erase, cut short or not, that takes whole words of the page it is    *)
(* about to reuse: nothing new enters the scan and the record the RAM      *)
(* state stands behind, which is in the other page, stays the newest.      *)
LEMMA EraseFits ==
    ASSUME FitInv, SoundFlash, pc = "erase",
           flash' \in [Slot -> Word],
           \A s \in Slot : flash'[s] # flash[s] =>
               s \in PageSlots(next_slot) /\ flash'[s] = Erased
    PROVE  /\ BootFits'
           /\ next_slot' = next_slot /\ reserved_until' = reserved_until
                => NewestButNext'
<1>1. /\ TypeOK /\ InRam /\ NewestButNext /\ BootFits
      /\ StartsPage(next_slot)
      /\ flash \in [Slot -> Word] /\ next_slot \in Slot
  BY DEF FitInv, IInv, RamFits, InRam, TypeOK
<1>2. \A t \in Slot : Scanned(t)' => Scanned(t) /\ flash'[t] = flash[t]
  <2> SUFFICES ASSUME NEW t \in Slot, Scanned(t)'
               PROVE  Scanned(t) /\ flash'[t] = flash[t]
    OBVIOUS
  <2>1. t \in PageStart(t) .. t /\ PageStart(t) .. t \subseteq Slot
    BY PageLayout
  <2>2. \A s \in PageStart(t) .. t : IsValidRecord(flash'[s])
    BY DEF Scanned
  <2>3. \A s \in PageStart(t) .. t : flash'[s] = flash[s]
    BY <2>1, <2>2 DEF SoundFlash, BlankIsNoRecord
  <2> QED
    BY <2>1, <2>2, <2>3 DEF Scanned
<1>3. ASSUME NEW m \in Slot, Scanned(m), next_slot = NextSlot(m)
      PROVE  Scanned(m)' /\ flash'[m] = flash[m]
  <2>1. PageSlots(next_slot) \cap (PageStart(m) .. m) = {}
    BY <1>1, <1>3, NextSlotLayout
  <2>2. \A t \in PageStart(m) .. m : flash'[t] = flash[t]
    BY <2>1, PageLayout
  <2> QED
    BY <1>3, <2>2, RecordKept
<1>4. ASSUME NEW s \in Slot, Newest(s)'
      PROVE  Fits(NextSlot(s), flash[s] + ReservationBlock)'
  <2>1. Scanned(s) /\ flash'[s] = flash[s]
    BY <1>2, <1>4 DEF Newest
  <2>2. CASE StartsPage(NextSlot(s))
    BY <2>2 DEF Fits, StartsPage, PageStart, NextSlot
  <2>3. CASE Newest(s) /\ ~StartsPage(NextSlot(s))
    <3>1. Takes(NextSlot(s), flash[s] + ReservationBlock)
      BY <1>1, <2>3 DEF BootFits, Fits
    <3>2. NextSlot(s) \in Slot /\ PageSlots(NextSlot(s)) \subseteq Slot
      <4>1. NextSlot(s) \in Slot
        BY NextSlotLayout
      <4> QED
        BY <4>1, SizeAssumption DEF PageSlots, PageStart, Slot, TotalSlots
    <3>3. \A t \in PageSlots(NextSlot(s)) : t > NextSlot(s) => flash'[t] = Erased
      BY <3>1, <3>2 DEF Takes
    <3>4. flash'[NextSlot(s)] = flash[NextSlot(s)] \/ flash'[NextSlot(s)] = Erased
      BY <3>2
    <3>5. \A c \in Word : AndWords(Erased, c) = c
      BY DEF SoundFlash, WritesClearBits
    <3>6. flash'[s] + ReservationBlock \in Word =>
              AndWords(flash'[NextSlot(s)], flash'[s] + ReservationBlock)
                  = flash'[s] + ReservationBlock
      BY <2>1, <3>1, <3>4, <3>5 DEF Takes
    <3> QED
      BY <3>3, <3>6 DEF Fits, Takes, PageSlots, PageStart, NextSlot
  <2>4. CASE ~Newest(s)
    <3>1. PICK t \in Slot : Scanned(t) /\ ~Outranks(s, t)
      BY <2>1, <2>4 DEF Newest, Outranks
    <3>2. CASE \A u \in Slot : Scanned(u) => u = 0
      <4>1. s = 0 /\ t = 0
        BY <2>1, <3>1, <3>2
      <4> QED
        BY <3>1, <4>1 DEF Outranks
    <3>3. CASE \E m \in Slot : /\ Scanned(m) /\ flash[m] = reserved_until
                               /\ next_slot = NextSlot(m)
                               /\ \A u \in Slot : Scanned(u) => u = next_slot \/ Outranks(m, u)
      <4>1. PICK m \in Slot : /\ Scanned(m) /\ flash[m] = reserved_until
                              /\ next_slot = NextSlot(m)
                              /\ \A u \in Slot : Scanned(u) => u = next_slot \/ Outranks(m, u)
        BY <3>3
      <4>2. flash[m] < flash[s] \/ (flash[m] = flash[s] /\ s <= m)
        BY <1>3, <1>4, <2>1, <4>1 DEF Newest
      <4>3. /\ flash[m] \in Int /\ flash[s] \in Int /\ flash[t] \in Int
            /\ m \in Int /\ s \in Int /\ t \in Int
        BY <1>1, SizeAssumption DEF Word, Slot, TotalSlots
      <4>4. s # next_slot
        <5> SUFFICES ASSUME s = next_slot PROVE FALSE
          OBVIOUS
        <5>1. t # next_slot
          BY <3>1, <4>3 DEF Outranks
        <5>2. flash[t] < flash[m] \/ (flash[t] = flash[m] /\ m <= t)
          BY <3>1, <4>1, <5>1 DEF Outranks
        <5>3. flash[t] < flash[s] \/ (flash[t] = flash[s] /\ s <= t)
          BY <4>2, <4>3, <5>2
        <5> QED
          BY <3>1, <5>3 DEF Outranks
      <4>5. flash[s] < flash[m] \/ (flash[s] = flash[m] /\ m <= s)
        BY <2>1, <4>1, <4>4 DEF Outranks
      <4>6. s = m
        BY <4>2, <4>3, <4>5
      <4>7. StartsPage(NextSlot(s))
        BY <1>1, <4>1, <4>6
      <4> QED
        BY <2>2, <4>7
    <3> QED
      BY <1>1, <3>2, <3>3 DEF NewestButNext
  <2> QED
    BY <2>2, <2>3, <2>4
<1>5. ASSUME next_slot' = next_slot, reserved_until' = reserved_until
      PROVE  NewestButNext'
  <2>1. CASE reserved_until = 0 /\ next_slot = 0 /\ \A t \in Slot : Scanned(t) => t = 0
    BY <1>2, <1>5, <2>1 DEF NewestButNext
  <2>2. CASE \E m \in Slot : /\ Scanned(m) /\ flash[m] = reserved_until
                             /\ next_slot = NextSlot(m)
                             /\ \A t \in Slot : Scanned(t) => t = next_slot \/ Outranks(m, t)
    <3>1. PICK m \in Slot : /\ Scanned(m) /\ flash[m] = reserved_until
                            /\ next_slot = NextSlot(m)
                            /\ \A t \in Slot : Scanned(t) => t = next_slot \/ Outranks(m, t)
      BY <2>2
    <3>2. Scanned(m)' /\ flash'[m] = reserved_until' /\ next_slot' = NextSlot(m)
      BY <1>3, <1>5, <3>1
    <3>3. \A t \in Slot : Scanned(t)' => t = next_slot' \/ Outranks(m, t)'
      BY <1>2, <1>3, <1>5, <3>1 DEF Outranks
    <3> QED
      BY <3>2, <3>3 DEF NewestButNext, NextSlot
  <2> QED
    BY <1>1, <2>1, <2>2 DEF NewestButNext
<1> QED
  BY <1>4, <1>5 DEF BootFits, NextSlot

(* What a cut-short operation may leave: whole words of an erase, a word   *)
(* that still takes the ceiling of a write.                                *)
LEMMA CutShortFits ==
    ASSUME FitInv, SoundFlash, Lifetime < Modulus,
           pc \in {"erase", "write"}, CutShort
    PROVE  /\ BootFits'
           /\ UNCHANGED <<next_slot, reserved_until>> /\ pc' = "idle" => RamFits'
<1>1. /\ TypeOK /\ InRam /\ NewestButNext /\ IInv
      /\ flash \in [Slot -> Word] /\ next_slot \in Slot /\ pc # "off"
  BY DEF FitInv, IInv, RamFits, TypeOK
<1>2. flash' \in [Slot -> Word]
  BY <1>1, CutShortKeeps
<1>3. CASE pc = "erase"
  <2> DEFINE page == PageSlots(next_slot)
  <2>1. PICK torn \in [page -> UNION {TornErase(flash[s]) : s \in page}] :
            /\ \A s \in page : torn[s] \in TornErase(flash[s])
            /\ flash' = [s \in Slot |-> IF s \in page THEN torn[s] ELSE flash[s]]
    BY <1>3 DEF CutShort
  <2>2. \A s \in Slot : TornErase(flash[s]) \subseteq {flash[s], Erased}
    BY <1>1 DEF SoundFlash, ErasesWholeWords
  <2>3. \A s \in Slot : flash'[s] # flash[s] => s \in page /\ flash'[s] = Erased
    BY <2>1, <2>2
  <2>4. BootFits'
    BY <1>2, <1>3, <2>3, EraseFits
  <2>5. ASSUME UNCHANGED <<next_slot, reserved_until>>, pc' = "idle"
        PROVE  RamFits'
    <3>1. NewestButNext'
      BY <1>2, <1>3, <2>3, <2>5, EraseFits
    <3>2. StartsPage(next_slot)'
      BY <1>1, <1>3, <2>5 DEF InRam, StartsPage, PageStart
    <3> QED
      BY <2>5, <3>1, <3>2 DEF RamFits, Fits
  <2> QED
    BY <2>4, <2>5
<1>4. CASE pc = "write"
  <2>1. NewCeiling = reserved_until + ReservationBlock /\ NewCeiling \in Word
    BY <1>1, <1>4, CeilingIsNext
  <2>2. PICK w \in TornWrite(flash[next_slot], NewCeiling) :
            flash' = [flash EXCEPT ![next_slot] = w]
    BY <1>4 DEF CutShort
  <2>3. Takes(next_slot, NewCeiling)
    BY <1>1, <1>4, <2>1 DEF FitInv, RamFits
  <2>4. w \in Word /\ AndWords(w, NewCeiling) = NewCeiling
    <3>1. /\ w \in Word
          /\ AndWords(w, NewCeiling) = AndWords(flash[next_slot], NewCeiling)
      <4>1. flash[next_slot] \in Word
        BY <1>1
      <4>2. w \in Word
        BY <2>1, <2>2, <4>1, FlashAssumption
      <4>3. \A old, new \in Word : \A v \in TornWrite(old, new) :
                AndWords(v, new) = AndWords(old, new)
        BY DEF SoundFlash, WritesClearBits
      <4> QED
        BY <2>1, <2>2, <4>1, <4>2, <4>3
    <3> QED
      BY <2>1, <2>3, <3>1 DEF Takes
  <2>5. /\ BootFits'
        /\ \A t \in PageSlots(next_slot) : t > next_slot => flash'[t] = Erased
    BY <1>4, <2>2, <2>4, WriteFits
  <2>6. ASSUME UNCHANGED <<next_slot, reserved_until>>, pc' = "idle"
        PROVE  RamFits'
    <3>1. NewestButNext'
      <4>1. \A t \in Slot : Scanned(t)' /\ t # next_slot => Scanned(t) /\ flash'[t] = flash[t]
        BY <1>1, <2>2, <2>3, WriteScan DEF SoundFlash, Takes
      <4>2. CASE reserved_until = 0 /\ next_slot = 0 /\ \A t \in Slot : Scanned(t) => t = 0
        BY <2>6, <4>1, <4>2 DEF NewestButNext
      <4>3. CASE \E m \in Slot : /\ Scanned(m) /\ flash[m] = reserved_until
                                 /\ next_slot = NextSlot(m)
                                 /\ \A t \in Slot : Scanned(t) => t = next_slot \/ Outranks(m, t)
        <5>1. PICK m \in Slot : /\ Scanned(m) /\ flash[m] = reserved_until
                                /\ next_slot = NextSlot(m)
                                /\ \A t \in Slot : Scanned(t) => t = next_slot \/ Outranks(m, t)
          BY <4>3
        <5>2. \A t \in PageStart(m) .. m : flash'[t] = flash[t]
          BY <1>1, <5>1, CutShortKeeps
        <5>3. Scanned(m)' /\ flash'[m] = flash[m]
          BY <5>1, <5>2, RecordKept
        <5>4. \A t \in Slot : Scanned(t)' => t = next_slot' \/ Outranks(m, t)'
          BY <2>6, <4>1, <5>1, <5>3 DEF Outranks
        <5> QED
          BY <2>6, <5>1, <5>3, <5>4 DEF NewestButNext, NextSlot
      <4> QED
        BY <1>1, <4>2, <4>3 DEF NewestButNext
    <3>2. flash'[next_slot] = w
      BY <1>1, <2>2
    <3>3. Takes(next_slot, reserved_until + ReservationBlock)'
      BY <2>1, <2>4, <2>5, <2>6, <3>2 DEF Takes, PageSlots, PageStart
    <3> QED
      BY <2>6, <3>1, <3>3 DEF RamFits, Fits
  <2> QED
    BY <2>5, <2>6
<1> QED
  BY <1>3, <1>4

(* Steps that leave flash and the place in the log as they are.            *)
LEMMA FlashUntouched ==
    ASSUME FitInv, UNCHANGED flash
    PROVE  /\ BootFits'
           /\ UNCHANGED <<next_slot, reserved_until>> /\ pc # "off" => NewestButNext'
           /\ \A s, c : Takes(s, c)' <=> Takes(s, c)
<1>1. BootFits'
  BY DEF FitInv, BootFits, Newest, Scanned, Fits, Takes, NextSlot, StartsPage,
         PageStart, PageSlots
<1>2. ASSUME UNCHANGED <<next_slot, reserved_until>>, pc # "off"
      PROVE  NewestButNext'
  <2>1. \A t \in Slot : Scanned(t)' <=> Scanned(t)
    BY DEF Scanned
  <2>2. \A m, t \in Slot : Outranks(m, t)' <=> Outranks(m, t)
    BY DEF Outranks
  <2>3. NewestButNext
    BY <1>2 DEF FitInv, RamFits
  <2> QED
    BY <1>2, <2>1, <2>2, <2>3 DEF NewestButNext, NextSlot
<1>3. \A s, c : Takes(s, c)' <=> Takes(s, c)
  BY DEF Takes, PageSlots, PageStart
<1> QED
  BY <1>1, <1>2, <1>3

LEMMA LoadFits ==
    ASSUME FitInv, Load PROVE BootFits' /\ RamFits'
<1>1. flash' = flash /\ pc' = "idle" /\ BootFits
  BY DEF Load, FitInv
<1>2. BootFits' /\ \A s, c : Takes(s, c)' <=> Takes(s, c)
  BY <1>1, FlashUntouched
<1>3. \A t \in Slot : Scanned(t)' <=> Scanned(t)
  BY <1>1 DEF Scanned
<1>4. CASE /\ \A s \in Slot : ~Scanned(s)
           /\ next_seq' = 0 /\ reserved_until' = 0 /\ next_slot' = 0
  <2>1. NewestButNext'
    BY <1>3, <1>4 DEF NewestButNext
  <2>2. Fits(next_slot, reserved_until + ReservationBlock)'
    BY <1>4, SizeAssumption DEF Fits, StartsPage, PageStart
  <2> QED
    BY <1>1, <1>2, <2>1, <2>2 DEF RamFits
<1>5. CASE \E s \in Slot : /\ Newest(s) /\ next_seq' = flash[s]
                           /\ reserved_until' = flash[s]
                           /\ next_slot' = NextSlot(s)
  <2>1. PICK s \in Slot : /\ Newest(s) /\ reserved_until' = flash[s]
                          /\ next_slot' = NextSlot(s)
    BY <1>5
  <2>2. NewestButNext'
    <3>1. Scanned(s)' /\ flash'[s] = reserved_until' /\ next_slot' = NextSlot(s)
      BY <1>1, <1>3, <2>1 DEF Newest
    <3>2. \A t \in Slot : Scanned(t)' => Outranks(s, t)'
      BY <1>1, <1>3, <2>1 DEF Newest, Outranks
    <3> QED
      BY <3>1, <3>2 DEF NewestButNext, NextSlot
  <2>3. Fits(NextSlot(s), flash[s] + ReservationBlock)
    BY <1>1, <2>1 DEF BootFits
  <2>4. Fits(next_slot, reserved_until + ReservationBlock)'
    BY <1>2, <2>1, <2>3 DEF Fits, StartsPage, PageStart
  <2> QED
    BY <1>1, <1>2, <2>2, <2>4 DEF RamFits
<1> QED
  BY <1>4, <1>5 DEF Load

LEMMA EraseStepFits ==
    ASSUME FitInv, SoundFlash, Erase PROVE BootFits' /\ RamFits'
<1>1. /\ TypeOK /\ pc = "erase" /\ pc' = "write"
      /\ flash' = [s \in Slot |-> IF s \in PageSlots(next_slot) THEN Erased ELSE flash[s]]
      /\ UNCHANGED <<reserved_until, next_slot>>
      /\ flash \in [Slot -> Word] /\ next_slot \in Slot
  BY DEF FitInv, IInv, Erase, ram, TypeOK
<1>2. Erased \in Word
  BY SizeAssumption DEF Erased, Word
<1>3. /\ flash' \in [Slot -> Word]
      /\ \A s \in Slot : flash'[s] # flash[s] =>
             s \in PageSlots(next_slot) /\ flash'[s] = Erased
  BY <1>1, <1>2
<1>4. BootFits' /\ NewestButNext'
  BY <1>1, <1>3, EraseFits
<1>5. PageSlots(next_slot) \subseteq Slot /\ next_slot \in PageSlots(next_slot)
  BY <1>1, SizeAssumption DEF PageSlots, PageStart, Slot, TotalSlots
<1>6. \A t \in PageSlots(next_slot) : flash'[t] = Erased
  BY <1>1, <1>5
<1>7. Takes(next_slot, reserved_until + ReservationBlock)'
  <2>1. \A c \in Word : AndWords(Erased, c) = c
    BY <1>2 DEF SoundFlash, WritesClearBits
  <2> QED
    BY <1>1, <1>5, <1>6, <2>1 DEF Takes, PageSlots, PageStart
<1> QED
  BY <1>1, <1>4, <1>7 DEF RamFits

(* The write: its slot takes the ceiling, so the read-back finds it, and   *)
(* the record written is the newest of all.                                *)
LEMMA WriteStepFits ==
    ASSUME FitInv, SoundFlash, Lifetime < Modulus, WriteCeiling
    PROVE  BootFits' /\ RamFits'
<1>1. /\ TypeOK /\ InRam /\ IInv /\ pc = "write" /\ NewestButNext
      /\ Takes(next_slot, reserved_until + ReservationBlock)
      /\ flash \in [Slot -> Word] /\ next_slot \in Slot /\ reserved_until \in Word
  BY DEF FitInv, IInv, RamFits, WriteCeiling, TypeOK
<1>2. NewCeiling = reserved_until + ReservationBlock /\ NewCeiling \in Word
  BY <1>1, CeilingIsNext
<1>3. AndWords(flash[next_slot], NewCeiling) = NewCeiling
  BY <1>1, <1>2 DEF Takes
<1>4. flash' = [flash EXCEPT ![next_slot] = NewCeiling] /\ flash'[next_slot] = NewCeiling
  BY <1>1, <1>3 DEF WriteCeiling
<1>5. /\ pc' = "idle" /\ reserved_until' = NewCeiling
      /\ next_slot' = NextSlot(next_slot)
  BY <1>4 DEF WriteCeiling
<1>6. IInv'
  BY <1>1, WriteCeilingInv
<1>7. AndWords(NewCeiling, NewCeiling) = NewCeiling
  <2>1. \A old, new \in Word : AndWords(AndWords(old, new), new) = AndWords(old, new)
    BY DEF SoundFlash, WritesClearBits
  <2>2. flash[next_slot] \in Word
    BY <1>1
  <2> QED
    BY <1>2, <1>3, <2>1, <2>2
<1>8. BootFits'
  BY <1>1, <1>2, <1>4, <1>7, WriteFits
<1>9. \A t \in Slot : Scanned(t)' /\ t # next_slot =>
          Scanned(t) /\ flash'[t] = flash[t] /\ flash[t] <= reserved_until
  <2> SUFFICES ASSUME NEW t \in Slot, Scanned(t)', t # next_slot
               PROVE  Scanned(t) /\ flash'[t] = flash[t] /\ flash[t] <= reserved_until
    OBVIOUS
  <2>1. Scanned(t) /\ flash'[t] = flash[t]
    BY <1>1, <1>4, WriteScan DEF SoundFlash, Takes
  <2>2. CASE reserved_until = 0 /\ next_slot = 0 /\ \A u \in Slot : Scanned(u) => u = 0
    BY <2>1, <2>2
  <2>3. CASE \E m \in Slot : /\ Scanned(m) /\ flash[m] = reserved_until
                             /\ next_slot = NextSlot(m)
                             /\ \A u \in Slot : Scanned(u) => u = next_slot \/ Outranks(m, u)
    <3>1. flash[t] < reserved_until \/ flash[t] = reserved_until
      BY <2>1, <2>3 DEF Outranks
    <3>2. flash[t] \in Int /\ reserved_until \in Int
      BY <1>1, SizeAssumption DEF Word
    <3> QED
      BY <2>1, <3>1, <3>2
  <2> QED
    BY <1>1, <2>2, <2>3 DEF NewestButNext
<1> PICK k \in Slot : k = next_slot
  BY <1>1
<1>10. Scanned(k)'
  <2>1. NewCeiling # 0 /\ NewCeiling > reserved_until /\ NewCeiling \in Int
    BY <1>1, <1>2, SizeAssumption DEF Word
  <2>2. PICK m \in Slot : Scanned(m)' /\ flash'[m] = NewCeiling
    BY <1>5, <1>6, <2>1 DEF IInv, InRam, AtNewestRecord
  <2>3. CASE m # k
    <3>1. flash'[m] <= reserved_until
      BY <1>9, <2>2, <2>3
    <3> QED
      BY <1>1, <2>1, <2>2, <3>1 DEF Word
  <2> QED
    BY <2>2, <2>3
<1>11. \A t \in Slot : Scanned(t)' => Outranks(k, t)'
  <2> SUFFICES ASSUME NEW t \in Slot, Scanned(t)'
               PROVE  flash'[t] < flash'[k] \/ (flash'[t] = flash'[k] /\ k <= t)
    BY DEF Outranks
  <2>1. CASE t = k
    BY <2>1, SizeAssumption DEF Slot, TotalSlots
  <2>2. CASE t # k
    BY <1>1, <1>2, <1>4, <1>9, <2>2, SizeAssumption DEF Word
  <2> QED
    BY <2>1, <2>2
<1>12. NewestButNext'
  BY <1>4, <1>5, <1>10, <1>11 DEF NewestButNext, NextSlot
<1>13. Newest(k)'
  BY <1>10, <1>11 DEF Newest, Outranks
<1>14. Fits(next_slot, reserved_until + ReservationBlock)'
  <2>1. Fits(NextSlot(k), flash[k] + ReservationBlock)'
    BY <1>8, <1>13 DEF BootFits, NextSlot
  <2> QED
    BY <1>4, <1>5, <2>1 DEF NextSlot, Fits, Takes, StartsPage, PageStart, PageSlots
<1> QED
  BY <1>5, <1>8, <1>12, <1>14 DEF RamFits

LEMMA FitStep ==
    ASSUME FitInv, SoundFlash, Lifetime < Modulus, [Next]_vars PROVE FitInv'
<1>1. IInv'
  BY NextInv DEF FitInv
<1>2. CASE Load
  BY <1>1, <1>2, LoadFits DEF FitInv
<1>3. CASE DrawReserved \/ UNCHANGED vars
  <2>1. UNCHANGED <<flash, pc, reserved_until, next_slot>>
    BY <1>3 DEF DrawReserved, vars, ram
  <2>2. BootFits' /\ \A s, c : Takes(s, c)' <=> Takes(s, c)
    BY <2>1, FlashUntouched
  <2>3. RamFits'
    BY <2>1, <2>2, FlashUntouched DEF FitInv, RamFits, Fits, StartsPage, PageStart
  <2> QED
    BY <1>1, <2>2, <2>3 DEF FitInv
<1>4. CASE AdvanceReservation
  <2>1. /\ UNCHANGED <<flash, reserved_until, next_slot>> /\ pc = "idle"
        /\ pc' = IF StartsPage(next_slot) THEN "erase" ELSE "write"
    BY <1>4 DEF AdvanceReservation, ram
  <2>2. BootFits' /\ NewestButNext' /\ \A s, c : Takes(s, c)' <=> Takes(s, c)
    BY <2>1, FlashUntouched
  <2>3. Fits(next_slot, reserved_until + ReservationBlock)
    BY <2>1 DEF FitInv, RamFits
  <2>4. RamFits'
    BY <2>1, <2>2, <2>3 DEF RamFits, Fits, StartsPage, PageStart
  <2> QED
    BY <1>1, <2>2, <2>4 DEF FitInv
<1>5. CASE Erase
  BY <1>1, <1>5, EraseStepFits DEF FitInv
<1>6. CASE WriteCeiling
  BY <1>1, <1>6, WriteStepFits DEF FitInv
<1>7. CASE FlashFails
  <2>1. /\ pc \in {"erase", "write"} /\ CutShort /\ pc' = "idle"
        /\ UNCHANGED <<next_slot, reserved_until>>
    BY <1>7 DEF FlashFails, ram
  <2> QED
    BY <1>1, <2>1, CutShortFits DEF FitInv
<1>8. CASE PowerLoss
  <2>1. CutShort /\ pc' = "off"
    BY <1>8 DEF PowerLoss
  <2>2. BootFits'
    <3>1. CASE pc \in {"erase", "write"}
      BY <2>1, <3>1, CutShortFits
    <3>2. CASE pc \notin {"erase", "write"}
      <4>1. flash' = flash
        BY <2>1, <3>2 DEF CutShort
      <4> QED
        BY <4>1, FlashUntouched
    <3> QED
      BY <3>1, <3>2
  <2>3. RamFits'
    BY <2>1 DEF RamFits
  <2> QED
    BY <1>1, <2>2, <2>3 DEF FitInv
<1> QED
  BY <1>2, <1>3, <1>4, <1>5, <1>6, <1>7, <1>8 DEF Next

LEMMA InitFits == SoundFlash /\ Init => FitInv
<1> SUFFICES ASSUME SoundFlash, Init PROVE FitInv
  OBVIOUS
<1>1. \A s \in Slot : ~Scanned(s)
  <2> SUFFICES ASSUME NEW s \in Slot, Scanned(s) PROVE FALSE
    OBVIOUS
  <2>1. IsValidRecord(flash[s])
    BY PageLayout DEF Scanned
  <2> QED
    BY <2>1 DEF Init, SoundFlash, BlankIsNoRecord
<1>2. BootFits
  BY <1>1 DEF BootFits, Newest
<1>3. RamFits
  BY DEF Init, RamFits
<1> QED
  BY <1>2, <1>3, InitInv DEF FitInv

(***************************************************************************)
(* The read-back assertion of advance_reservation never fires, for every   *)
(* page and block size and every way of cutting a write short, on flash    *)
(* that clears bits, erases words whole and whose blank word is no record. *)
(***************************************************************************)
THEOREM ReadbackHolds ==
    SoundFlash /\ Lifetime < Modulus => (Spec => []ReadbackMatches)
<1> SUFFICES ASSUME SoundFlash, Lifetime < Modulus PROVE Spec => []ReadbackMatches
  OBVIOUS
<1>1. Init => FitInv
  BY InitFits
<1>2. FitInv /\ [Next]_vars => FitInv'
  BY FitStep
<1>3. FitInv => ReadbackMatches
  BY DEF FitInv, RamFits, ReadbackMatches
<1> QED
  BY <1>1, <1>2, <1>3, PTL DEF Spec

(***************************************************************************)
(* Drawing only upward uses each number at most once (the nonce derivation *)
(* of `packet/cipher.rs` over `SeqCounter::next`).                         *)
(***************************************************************************)
THEOREM UpwardMeansDistinct ==
    Source!Spec => [](Source!TypeOK /\ Source!DistinctSoFar)
<1>1. Source!Init => Source!TypeOK /\ Source!DistinctSoFar
  BY DEF Source!Init, Source!TypeOK, Source!DistinctSoFar
<1>2. ASSUME Source!TypeOK, Source!DistinctSoFar, Source!Draw
      PROVE  Source!TypeOK' /\ Source!DistinctSoFar'
  <2>1. PICK n \in Int : last' = n /\ n > last
    BY <1>2 DEF Source!Draw
  <2>2. drawn \in Int /\ last \in Int /\ drawn <= last + 1 /\ drawn >= 0 /\ last >= -1
    BY <1>2 DEF Source!TypeOK, Source!DistinctSoFar
  <2>3. n >= -1 /\ drawn + 1 <= n + 1 /\ drawn + 1 \in Nat
    BY <2>1, <2>2
  <2> QED
    BY <1>2, <2>1, <2>3 DEF Source!Draw, Source!TypeOK, Source!DistinctSoFar
<1>3. ASSUME Source!TypeOK, Source!DistinctSoFar, UNCHANGED Source!vars
      PROVE  Source!TypeOK' /\ Source!DistinctSoFar'
  BY <1>3 DEF Source!vars, Source!TypeOK, Source!DistinctSoFar
<1>4. Source!TypeOK /\ Source!DistinctSoFar /\ [Source!Draw]_(Source!vars)
          => (Source!TypeOK /\ Source!DistinctSoFar)'
  BY <1>2, <1>3
<1> QED BY <1>1, <1>4, PTL DEF Source!Spec

(* Hence as many nonces were derived as there are numbers up to the last   *)
(* one at most: each number went into one nonce (`next`, cipher.rs).       *)
THEOREM EachNumberOnce == Lifetime < Modulus => (Spec => []Source!DistinctSoFar)
<1> SUFFICES ASSUME Lifetime < Modulus PROVE Spec => []Source!DistinctSoFar
  OBVIOUS
<1>1. Spec => Source!Spec
  BY NonceUnique DEF ImplementsNonceSource
<1>2. Source!Spec => [](Source!TypeOK /\ Source!DistinctSoFar)
  BY UpwardMeansDistinct
<1> QED
  BY <1>1, <1>2, PTL
===============================================================================

