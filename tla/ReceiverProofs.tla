---------------------------- MODULE ReceiverProofs ----------------------------
(***************************************************************************)
(* The dongle's cache and writer, for any number of sensors and packets,   *)
(* any size of cache and backlog and any coming and going of the host:     *)
(* when a burst is forwarded twice or swallowed, what a host that goes     *)
(* away costs, and that nothing is read out of order.                      *)
(***************************************************************************)
EXTENDS Receiver, FiniteSetTheorems, WellFoundedInduction, TLAPS

Item == [key : Sensors, value : 0 .. MaxSeq, last_tick : 0 .. MaxTick]
Occupied == DOMAIN cache.items
WriterStates == [step : {"connect", "dtr", "settle", "receive", "write"},
                 packet : {{}} \cup {{p} : p \in Packet}, interrupted : BOOLEAN]

Typed ==
    /\ cache \in [items : Seq(Item), tick : 0 .. MaxTick]
    /\ Len(cache.items) <= Slots
    /\ backlog \in Seq(Packet) /\ Len(backlog) <= Capacity
    /\ writer \in WriterStates
    /\ host \in {"gone", "closed", "open"}
    /\ forwarded \in Seq(Packet)
    /\ previous \in [Sensors -> {{}} \cup {{n} : n \in 0 .. MaxSeq}]
    /\ delivered \in Seq(Packet) /\ lost \subseteq Packet
    /\ disconnects \in 0 .. MaxDisconnects
    /\ since \in [Sensors -> SUBSET Sensors]

(* One slot per sensor, which holds the number it was last heard with, and *)
(* no stamp ahead of the clock.                                            *)
OneSlotEach == \A i, j \in Occupied : cache.items[i].key = cache.items[j].key => i = j
HoldsPrevious == \A i \in Occupied : previous[cache.items[i].key] = {cache.items[i].value}
StampedBefore == \A i \in Occupied : cache.items[i].last_tick <= cache.tick

(* What is stamped no earlier than a sensor's slot was heard since it was. *)
FresherHeardSince ==
    \A i, j \in Occupied :
        i # j /\ cache.items[i].last_tick <= cache.items[j].last_tick =>
            cache.items[j].key \in since[cache.items[i].key]

(* A sensor heard before and displaced was displaced by as many others as  *)
(* there are slots.                                                        *)
DisplacedByMany ==
    \A s \in Sensors :
        /\ IsFiniteSet(since[s])
        /\ previous[s] # {} /\ (\A i \in Occupied : cache.items[i].key # s) =>
               Cardinality(since[s]) >= Slots

(* The inductive invariant of the scan handler.                            *)
CacheInv == OneSlotEach /\ HoldsPrevious /\ StampedBefore /\ FresherHeardSince /\ DisplacedByMany

-------------------------------------------------------------------------------
(* The cache.                                                              *)

(* A slot taken or stamped for a sensor.                                   *)
Taken(x, s, n, t) ==
    [i \in Occupied \cup {x} |->
        IF i = x THEN [key |-> s, value |-> n, last_tick |-> t] ELSE cache.items[i]]

LEMMA ItemsTyped ==
    ASSUME Typed
    PROVE  /\ cache = [items |-> cache.items, tick |-> cache.tick]
           /\ cache.items \in Seq(Item) /\ Len(cache.items) \in Nat
           /\ Occupied = 1 .. Len(cache.items)
           /\ \A i \in Occupied : cache.items[i] \in Item
           /\ cache.tick \in Nat
  BY ReceiverAssumption DEF Typed, Occupied

(* A full cache has a stalest slot.                                        *)
LEMMA StalestExists ==
    ASSUME Typed, Occupied # {}
    PROVE  \E x \in Occupied : \A j \in Occupied : cache.items[x].last_tick <= cache.items[j].last_tick
<1> DEFINE stamps == {cache.items[i].last_tick : i \in Occupied}
           R == OpToRel(<, Nat)
<1>1. stamps \subseteq Nat /\ stamps # {}
  <2>1. \A item \in Item : item.last_tick \in Nat
    BY ReceiverAssumption DEF Item
  <2>2. \A i \in Occupied : cache.items[i].last_tick \in Nat
    BY <2>1, ItemsTyped
  <2> HIDE DEF R
  <2> QED BY <2>2
<1>2. IsWellFoundedOn(R, Nat)
  BY NatLessThanWellFounded
<1>3. PICK m \in stamps : \A d \in stamps : ~ (<<d, m>> \in R)
  <2> HIDE DEF R, stamps
  <2> QED BY <1>1, <1>2, WFMin
<1>4. \A d \in stamps : m <= d
  <2> HIDE DEF stamps
  <2>1. \A d \in stamps : d \in Nat /\ m \in Nat /\ ~ (d < m)
    BY <1>1, <1>3 DEF OpToRel
  <2> QED BY <2>1
<1>5. PICK x \in Occupied : m = cache.items[x].last_tick
  BY <1>3
<1>6. \A j \in Occupied : cache.items[j].last_tick \in stamps
  OBVIOUS
<1> QED
  BY <1>4, <1>5, <1>6

(* What hearing a sensor does to the cache.                                *)
LEMMA HearTakes ==
    ASSUME Typed, CacheInv, NEW s \in Sensors, NEW n \in 0 .. MaxSeq, Hear(s, n)
    PROVE  \E x \in Nat, t \in 0 .. MaxTick :
               /\ t > cache.tick
               /\ cache' = [items |-> Taken(x, s, n, t), tick |-> t]
               /\ \/ x \in Occupied /\ cache.items[x].key = s
                  \/ /\ \A i \in Occupied : cache.items[i].key # s
                     /\ \/ x = Len(cache.items) + 1 /\ Len(cache.items) < Slots
                        \/ /\ x \in Occupied /\ Len(cache.items) = Slots
                           /\ \A j \in Occupied :
                                  cache.items[x].last_tick <= cache.items[j].last_tick
<1> DEFINE p == [sensor |-> s, seq |-> n]
           looked == SeqCache!AfterGet(cache, s)
<1>1. /\ cache.tick + 1 \in 0 .. MaxTick /\ cache.tick + 2 \in 0 .. MaxTick
      /\ cache.tick + 1 + 1 = cache.tick + 2
  BY ItemsTyped, ReceiverAssumption DEF Hear
<1>2. IF Seen(p) THEN cache' = looked ELSE cache' = SeqCache!AfterInsert(looked, s, n)
  BY DEF Hear
<1>3. /\ looked.tick = cache.tick + 1 /\ DOMAIN looked.items = Occupied
      /\ \A i \in Occupied : looked.items[i].key = cache.items[i].key
  BY ItemsTyped DEF SeqCache!AfterGet, SeqCache!Find, Item, Occupied
<1>4. SeqCache!Find(looked, s) = SeqCache!Find(cache, s)
  BY <1>3 DEF SeqCache!Find, Occupied
<1>5. CASE Seen(p)
  <2>1. PICK x \in Occupied : cache.items[x].key = s /\ cache.items[x].value = n
    BY <1>5 DEF Seen, SeqCache!Found, SeqCache!Find, Occupied
  <2>2. \A i \in Occupied : i \in SeqCache!Find(cache, s) <=> i = x
    BY <2>1 DEF CacheInv, OneSlotEach, SeqCache!Find, Occupied
  <2>3. [cache.items[x] EXCEPT !.last_tick = cache.tick + 1]
          = [key |-> s, value |-> n, last_tick |-> cache.tick + 1]
    BY <2>1, ItemsTyped DEF Item
  <2>4. looked.items = Taken(x, s, n, cache.tick + 1)
    BY <2>1, <2>2, <2>3 DEF SeqCache!AfterGet, Taken, Occupied
  <2>5. cache' = [items |-> Taken(x, s, n, cache.tick + 1), tick |-> cache.tick + 1]
    BY <1>2, <1>5, <2>4 DEF SeqCache!AfterGet
  <2>6. x \in Nat /\ cache.tick + 1 > cache.tick
    BY <2>1, ItemsTyped
  <2> QED
    BY <1>1, <2>1, <2>5, <2>6
<1>6. CASE ~ Seen(p) /\ \E x \in Occupied : cache.items[x].key = s
  <2>1. PICK x \in Occupied : cache.items[x].key = s
    BY <1>6
  <2>2. SeqCache!Find(looked, s) = {x}
    BY <1>4, <2>1 DEF CacheInv, OneSlotEach, SeqCache!Find, Occupied
  <2>3. \A i \in Occupied : i # x => looked.items[i] = cache.items[i]
    BY <1>4, <2>2 DEF SeqCache!AfterGet, Occupied
  <2>4. SeqCache!AfterInsert(looked, s, n)
          = [tick |-> cache.tick + 2, items |-> Taken(x, s, n, cache.tick + 2)]
    BY <1>1, <1>3, <2>1, <2>2, <2>3 DEF SeqCache!AfterInsert, Taken
  <2>5. x \in Nat /\ cache.tick + 2 > cache.tick
    BY <2>1, ItemsTyped
  <2> QED
    BY <1>1, <1>2, <1>6, <2>1, <2>4, <2>5
<1>7. CASE ~ Seen(p) /\ \A x \in Occupied : cache.items[x].key # s
  <2>1. SeqCache!Find(looked, s) = {} /\ SeqCache!Find(cache, s) = {}
    BY <1>4, <1>7 DEF SeqCache!Find, Occupied
  <2>2. looked.items = cache.items
    BY <2>1, ItemsTyped DEF SeqCache!AfterGet, Occupied
  <2> DEFINE x == SeqCache!SlotFor(looked)
  <2>3. SeqCache!AfterInsert(looked, s, n)
          = [tick |-> cache.tick + 2, items |-> Taken(x, s, n, cache.tick + 2)]
    BY <1>1, <1>3, <2>1, <2>2 DEF SeqCache!AfterInsert, Taken, Occupied
  <2>4. \/ x = Len(cache.items) + 1 /\ Len(cache.items) < Slots
        \/ /\ x \in Occupied /\ Len(cache.items) = Slots
           /\ \A j \in Occupied : cache.items[x].last_tick <= cache.items[j].last_tick
    <3>1. CASE Len(cache.items) >= Slots
      <4>1. Len(cache.items) = Slots /\ Occupied # {}
        <5>1. Len(cache.items) <= Slots /\ Len(cache.items) \in Nat
          BY ItemsTyped DEF Typed
        <5>2. Slots \in Nat /\ Slots # 0
          BY ReceiverAssumption
        <5>3. Len(cache.items) = Slots
          BY <3>1, <5>1, <5>2
        <5>4. 1 \in 1 .. Len(cache.items)
          BY <5>2, <5>3
        <5> QED
          BY <5>3, <5>4, ItemsTyped
      <4>2. x = CHOOSE i \in Occupied :
                    \A j \in Occupied : cache.items[i].last_tick <= cache.items[j].last_tick
        BY <2>2, <3>1 DEF SeqCache!SlotFor, SeqCache!Victim, Occupied
      <4> HIDE DEF x
      <4> QED
        BY <4>1, <4>2, StalestExists
    <3>2. CASE ~ Len(cache.items) >= Slots
      <4>1. x = Len(cache.items) + 1
        BY <2>2, <3>2 DEF SeqCache!SlotFor
      <4> HIDE DEF x
      <4> QED
        BY <3>2, <4>1, ItemsTyped, ReceiverAssumption
    <3> QED
      BY <3>1, <3>2
  <2> HIDE DEF x
  <2>5. x \in Nat /\ cache.tick + 2 > cache.tick
    BY <2>4, ItemsTyped
  <2> QED
    BY <1>1, <1>2, <1>7, <2>3, <2>4, <2>5
<1> QED
  BY <1>5, <1>6, <1>7
(* Displacing the stalest slot of a full cache for a new sensor: the       *)
(* others in it and the new one were all heard since the displaced one.    *)
LEMMA CrowdedOut ==
    ASSUME Typed, CacheInv, NEW s \in Sensors, Len(cache.items) = Slots,
           \A i \in Occupied : cache.items[i].key # s,
           NEW x \in Occupied,
           \A j \in Occupied : cache.items[x].last_tick <= cache.items[j].last_tick,
           NEW T, IsFiniteSet(T), since[cache.items[x].key] \cup {s} \subseteq T
    PROVE  Cardinality(T) >= Slots
<1> DEFINE heard == [j \in 1 .. Slots |-> IF j = x THEN s ELSE cache.items[j].key]
<1>1. Occupied = 1 .. Slots
  BY ItemsTyped
<1>2. \A j \in 1 .. Slots : heard[j] \in T
  <2>1. ASSUME NEW j \in 1 .. Slots, j # x PROVE cache.items[j].key \in T
    BY <1>1, <2>1 DEF CacheInv, FresherHeardSince
  <2> QED
    BY <2>1
<1>3. \A i, j \in 1 .. Slots : heard[i] = heard[j] => i = j
  BY <1>1 DEF CacheInv, OneSlotEach
<1>4. heard \in [1 .. Slots -> T]
  BY <1>2
<1>5. IsFiniteSet(1 .. Slots) /\ Cardinality(1 .. Slots) = Slots
  BY FS_Interval, ReceiverAssumption
<1>6. Cardinality(T) \in Nat /\ Slots \in Nat
  BY FS_CardinalityType, ReceiverAssumption
<1> HIDE DEF heard
<1>7. ~ (Cardinality(T) < Cardinality(1 .. Slots))
  BY <1>3, <1>4, <1>5, FS_PigeonHole
<1> QED
  BY <1>5, <1>6, <1>7

LEMMA HearTyped ==
    ASSUME Typed, CacheInv, NEW s \in Sensors, NEW n \in 0 .. MaxSeq, Hear(s, n)
    PROVE  Typed'
<1>1. PICK x \in Nat, t \in 0 .. MaxTick :
          /\ t > cache.tick
          /\ cache' = [items |-> Taken(x, s, n, t), tick |-> t]
          /\ \/ x \in Occupied /\ cache.items[x].key = s
             \/ /\ \A i \in Occupied : cache.items[i].key # s
                /\ \/ x = Len(cache.items) + 1 /\ Len(cache.items) < Slots
                   \/ /\ x \in Occupied /\ Len(cache.items) = Slots
                      /\ \A j \in Occupied :
                             cache.items[x].last_tick <= cache.items[j].last_tick
  BY HearTakes
<1> DEFINE item == [key |-> s, value |-> n, last_tick |-> t]
           items == Taken(x, s, n, t)
           p == [sensor |-> s, seq |-> n]
<1>2. item \in Item /\ p \in Packet
  BY DEF Item, Packet
<1>3. items \in Seq(Item) /\ Len(items) <= Slots
  <2>1. CASE x \in Occupied
    <3>1. Occupied \cup {x} = 1 .. Len(cache.items)
      BY <2>1, ItemsTyped
    <3>2. \A i \in 1 .. Len(cache.items) : items[i] \in Item
      BY <1>2, <3>1, ItemsTyped DEF Taken
    <3>3. items \in [1 .. Len(cache.items) -> Item]
      BY <3>1, <3>2 DEF Taken
    <3> HIDE DEF items
    <3>4. Len(cache.items) \in Nat /\ Len(cache.items) <= Slots
      BY ItemsTyped DEF Typed
    <3> QED
      BY <3>3, <3>4
  <2>2. CASE x = Len(cache.items) + 1 /\ Len(cache.items) < Slots
    <3>1. Occupied \cup {x} = 1 .. Len(cache.items) + 1
      BY <2>2, ItemsTyped
    <3>2. \A i \in 1 .. Len(cache.items) + 1 : items[i] \in Item
      BY <1>2, <2>2, <3>1, ItemsTyped DEF Taken
    <3>3. items \in [1 .. Len(cache.items) + 1 -> Item]
      BY <3>1, <3>2 DEF Taken
    <3> HIDE DEF items
    <3>4. Len(cache.items) + 1 \in Nat /\ Len(cache.items) + 1 <= Slots
      BY <2>2, ItemsTyped, ReceiverAssumption
    <3> QED
      BY <3>3, <3>4
  <2> QED
    BY <1>1, <2>1, <2>2
<1>4. cache' \in [items : Seq(Item), tick : 0 .. MaxTick] /\ Len(cache'.items) <= Slots
  BY <1>1, <1>3
<1>5. /\ backlog' \in Seq(Packet) /\ Len(backlog') <= Capacity
      /\ forwarded' \in Seq(Packet)
  <2>1. CASE backlog' = backlog /\ forwarded' = forwarded
    BY <2>1 DEF Typed
  <2>2. CASE backlog' = Queue(p) /\ forwarded' = Append(forwarded, p)
    BY <1>2, <2>2, ReceiverAssumption DEF Typed, Queue
  <2> QED
    BY <2>1, <2>2 DEF Hear
<1>6. /\ previous' \in [Sensors -> {{}} \cup {{m} : m \in 0 .. MaxSeq}]
      /\ since' \in [Sensors -> SUBSET Sensors]
  BY DEF Typed, Hear
<1> QED
  BY <1>4, <1>5, <1>6 DEF Typed, Hear, usb

LEMMA HearCache ==
    ASSUME Typed, CacheInv, NEW s \in Sensors, NEW n \in 0 .. MaxSeq, Hear(s, n)
    PROVE  CacheInv'
<1>1. PICK x \in Nat, t \in 0 .. MaxTick :
          /\ t > cache.tick
          /\ cache' = [items |-> Taken(x, s, n, t), tick |-> t]
          /\ \/ x \in Occupied /\ cache.items[x].key = s
             \/ /\ \A i \in Occupied : cache.items[i].key # s
                /\ \/ x = Len(cache.items) + 1 /\ Len(cache.items) < Slots
                   \/ /\ x \in Occupied /\ Len(cache.items) = Slots
                      /\ \A j \in Occupied :
                             cache.items[x].last_tick <= cache.items[j].last_tick
  BY HearTakes
<1>2. /\ Occupied' = Occupied \cup {x} /\ cache'.tick = t
      /\ cache'.items[x] = [key |-> s, value |-> n, last_tick |-> t]
      /\ \A i \in Occupied : i # x => cache'.items[i] = cache.items[i]
  BY <1>1 DEF Occupied, Taken
<1>3. /\ cache'.items[x].key = s /\ cache'.items[x].value = n /\ cache'.items[x].last_tick = t
      /\ \A i \in Occupied' : i = x \/ i \in Occupied
  BY <1>2
<1>4. \A i \in Occupied : i # x => cache.items[i].key # s /\ cache.items[i].key \in Sensors
  BY <1>1, ItemsTyped DEF CacheInv, OneSlotEach, Item
<1>5. /\ previous'[s] = {n} /\ since'[s] = {}
      /\ \A r \in Sensors : r # s => previous'[r] = previous[r] /\ since'[r] = since[r] \cup {s}
  BY DEF Hear, Typed
<1>6. \A i \in Occupied : cache.items[i].last_tick < t
  <2>1. \A i \in Occupied : cache.items[i].last_tick \in Nat /\ cache.items[i].last_tick <= cache.tick
    BY ItemsTyped, ReceiverAssumption DEF CacheInv, StampedBefore, Item
  <2>2. t \in Nat /\ cache.tick \in Nat
    BY ItemsTyped, ReceiverAssumption
  <2> QED
    BY <1>1, <2>1, <2>2
<1>7. OneSlotEach'
  BY <1>2, <1>3, <1>4 DEF CacheInv, OneSlotEach
<1>8. HoldsPrevious'
  BY <1>2, <1>3, <1>4, <1>5 DEF CacheInv, HoldsPrevious
<1>9. StampedBefore'
  <2>1. t \in Nat /\ \A i \in Occupied : cache.items[i].last_tick \in Nat
    BY ItemsTyped, ReceiverAssumption DEF Item
  <2> QED
    BY <1>2, <1>3, <1>6, <2>1 DEF StampedBefore
<1>10. FresherHeardSince'
  <2> SUFFICES ASSUME NEW i \in Occupied', NEW j \in Occupied', i # j,
                      cache'.items[i].last_tick <= cache'.items[j].last_tick
               PROVE  cache'.items[j].key \in since'[cache'.items[i].key]
    BY DEF FresherHeardSince
  <2>1. i # x
    <3>1. ASSUME i = x PROVE FALSE
      <4>1. j \in Occupied /\ cache.items[j].last_tick < t /\ cache.items[j].last_tick \in Nat /\ t \in Nat
        BY <1>3, <1>6, <3>1, ItemsTyped, ReceiverAssumption DEF Item
      <4>2. t <= cache.items[j].last_tick
        BY <1>2, <1>3, <3>1, <4>1
      <4> QED
        BY <4>1, <4>2
    <3> QED
      BY <3>1
  <2>2. /\ i \in Occupied /\ cache'.items[i] = cache.items[i]
        /\ since'[cache.items[i].key] = since[cache.items[i].key] \cup {s}
    BY <1>2, <1>3, <1>4, <1>5, <2>1
  <2>3. CASE j = x
    BY <1>3, <2>2, <2>3
  <2>4. CASE j # x
    <3>1. j \in Occupied /\ cache'.items[j] = cache.items[j]
      BY <1>2, <1>3, <2>4
    <3> QED
      BY <2>2, <3>1 DEF CacheInv, FresherHeardSince
  <2> QED
    BY <2>3, <2>4
<1>11. DisplacedByMany'
  <2> SUFFICES ASSUME NEW r \in Sensors
               PROVE  /\ IsFiniteSet(since'[r])
                      /\ previous'[r] # {} /\ (\A i \in Occupied' : cache'.items[i].key # r) =>
                             Cardinality(since'[r]) >= Slots
    BY DEF DisplacedByMany
  <2>1. IsFiniteSet(since[r])
    BY DEF CacheInv, DisplacedByMany
  <2>2. CASE r = s
    BY <1>2, <1>3, <1>5, <2>2, FS_EmptySet
  <2>3. CASE r # s
    <3>1. since'[r] = since[r] \cup {s} /\ previous'[r] = previous[r]
      BY <1>5, <2>3
    <3>2. IsFiniteSet(since'[r]) /\ Cardinality(since[r]) <= Cardinality(since'[r])
      <4>1. IsFiniteSet(since[r] \cup {s})
        BY <2>1, FS_AddElement
      <4>2. Cardinality(since[r]) <= Cardinality(since[r] \cup {s})
        BY <4>1, FS_Subset
      <4> QED
        BY <3>1, <4>1, <4>2
    <3>3. ASSUME previous[r] # {}, \A i \in Occupied' : cache'.items[i].key # r
          PROVE  Cardinality(since'[r]) >= Slots
      <4>1. CASE \A i \in Occupied : cache.items[i].key # r
        <5>1. Cardinality(since[r]) >= Slots
          BY <3>3, <4>1 DEF CacheInv, DisplacedByMany
        <5>2. Cardinality(since[r]) \in Nat /\ Cardinality(since'[r]) \in Nat
          BY <2>1, <3>2, FS_CardinalityType
        <5> QED
          BY <3>2, <5>1, <5>2, ReceiverAssumption
      <4>2. CASE \E i \in Occupied : cache.items[i].key = r
        <5>1. x \in Occupied /\ cache.items[x].key = r
          BY <1>2, <3>3, <4>2
        <5>2. since[cache.items[x].key] \cup {s} \subseteq since'[r]
          BY <3>1, <5>1
        <5>3. /\ \A i \in Occupied : cache.items[i].key # s
              /\ Len(cache.items) = Slots
              /\ \A j \in Occupied : cache.items[x].last_tick <= cache.items[j].last_tick
          BY <1>1, <2>3, <5>1, ItemsTyped
        <5> QED
          BY <3>2, <5>1, <5>2, <5>3, CrowdedOut
      <4> QED
        BY <4>1, <4>2
    <3> QED
      BY <3>1, <3>2, <3>3
  <2> QED
    BY <2>2, <2>3
<1> QED
  BY <1>7, <1>8, <1>9, <1>10, <1>11 DEF CacheInv
-------------------------------------------------------------------------------
(* The writer.                                                             *)

LEMMA InitInv == Init => Typed /\ CacheInv
<1> SUFFICES ASSUME Init PROVE Typed /\ CacheInv
  OBVIOUS
<1>1. cache.items = <<>> /\ cache = [items |-> <<>>, tick |-> 0]
  BY DEF Init, SeqCache!New
<1>2. Len(cache.items) = 0 /\ Occupied = {}
  BY <1>1 DEF Occupied
<1>3. Typed
  BY <1>1, <1>2, ReceiverAssumption DEF Init, Typed, Waiting, WriterStates
<1>4. CacheInv
  BY <1>2, FS_EmptySet
  DEF Init, CacheInv, OneSlotEach, HoldsPrevious, StampedBefore, FresherHeardSince, DisplacedByMany
<1> QED
  BY <1>3, <1>4

LEMMA ReplugInv == Replug => Typed' /\ CacheInv'
<1> SUFFICES ASSUME Replug PROVE Typed' /\ CacheInv'
  OBVIOUS
<1>1. cache'.items = <<>> /\ cache' = [items |-> <<>>, tick |-> 0]
  BY DEF Replug, SeqCache!New
<1>2. Len(cache'.items) = 0 /\ Occupied' = {}
  BY <1>1 DEF Occupied
<1>3. Typed'
  BY <1>1, <1>2, ReceiverAssumption DEF Replug, Typed, Waiting, WriterStates
<1>4. CacheInv'
  BY <1>2, FS_EmptySet
  DEF Replug, CacheInv, OneSlotEach, HoldsPrevious, StampedBefore, FresherHeardSince, DisplacedByMany
<1> QED
  BY <1>3, <1>4

(* What the writer and the host do leaves the cache alone.                 *)
LEMMA UsbCache == ASSUME CacheInv, UNCHANGED radio PROVE CacheInv'
  BY DEF radio, Occupied, CacheInv, OneSlotEach, HoldsPrevious, StampedBefore, FresherHeardSince,
         DisplacedByMany

(* A set of one or none as a sequence.                                     *)
LEMMA SetToSeqOne == SetToSeq({}) = <<>> /\ \A p : SetToSeq({p}) = <<p>>
<1>1. SetToSeq({}) = <<>>
  <2>1. Cardinality({}) = 0 /\ 1 .. 0 = {}
    BY FS_EmptySet
  <2>2. \E f \in [1 .. 0 -> {}] : IsInjective(f)
    <3> DEFINE f == [i \in 1 .. 0 |-> {}]
    <3>1. f \in [1 .. 0 -> {}] /\ IsInjective(f)
      BY <2>1 DEF IsInjective
    <3> QED
      BY <3>1
  <2>3. SetToSeq({}) \in [1 .. 0 -> {}]
    BY <2>1, <2>2 DEF SetToSeq
  <2> QED
    BY <2>1, <2>3
<1>2. ASSUME NEW p PROVE SetToSeq({p}) = <<p>>
  <2>0. Cardinality({p}) = 1
    BY FS_Singleton
  <2>1. Cardinality({p}) = 1 /\ 1 .. 1 = {1}
    <3>1. 1 .. 1 = {1}
      OBVIOUS
    <3> QED
      BY <2>0, <3>1
  <2>2. \E f \in [1 .. 1 -> {p}] : IsInjective(f)
    <3> DEFINE f == [i \in 1 .. 1 |-> p]
    <3>1. f \in [1 .. 1 -> {p}] /\ IsInjective(f)
      BY <2>1 DEF IsInjective
    <3> QED
      BY <3>1
  <2>3. SetToSeq({p}) \in [1 .. 1 -> {p}]
    BY <2>1, <2>2 DEF SetToSeq
  <2> QED
    BY <2>1, <2>3
<1> QED
  BY <1>1, <1>2

(* The writer holds one packet or none, which as a sequence is a packet's. *)
LEMMA HeldTyped ==
    ASSUME Typed PROVE SetToSeq(writer.packet) \in Seq(Packet)
<1>1. CASE writer.packet = {}
  <2>1. <<>> \in Seq(Packet)
    OBVIOUS
  <2> QED
    BY <1>1, <2>1, SetToSeqOne
<1>2. CASE writer.packet # {}
  <2>1. PICK p \in Packet : writer.packet = {p}
    BY <1>2 DEF Typed, WriterStates
  <2>2. <<p>> \in Seq(Packet)
    OBVIOUS
  <2> QED
    BY <2>1, <2>2, SetToSeqOne
<1> QED
  BY <1>1, <1>2

LEMMA WriterSteps ==
    /\ \A step \in {"connect", "dtr", "settle", "receive", "write"} : Waiting(step) \in WriterStates
    /\ \A p \in Packet : [Waiting("write") EXCEPT !.packet = {p}] \in WriterStates
  BY DEF Waiting, WriterStates

LEMMA UsbTyped ==
    ASSUME Typed,
           \/ Connected \/ DtrOn \/ Settled \/ Take \/ Written \/ WriteFails
           \/ Enumerate \/ Open \/ \E to \in {"closed", "gone"} : Disconnect(to)
    PROVE  Typed' /\ UNCHANGED radio
<1>1. CASE Connected \/ DtrOn \/ Settled \/ Enumerate \/ Open
  BY <1>1, WriterSteps DEF Typed, Connected, DtrOn, Settled, Enumerate, Open, radio
<1>2. CASE Take
  <2>1. Head(backlog) \in Packet /\ Tail(backlog) \in Seq(Packet) /\ Len(Tail(backlog)) <= Capacity
    BY <1>2, ReceiverAssumption DEF Typed, Take
  <2>2. writer' \in WriterStates /\ lost' \subseteq Packet
    BY <1>2, <2>1, WriterSteps DEF Typed, Take, Reconnect
  <2> QED
    BY <1>2, <2>1, <2>2 DEF Typed, Take, radio
<1>3. CASE Written \/ WriteFails
  <2>1. delivered' \in Seq(Packet) /\ lost' \subseteq Packet
    <3>1. writer.packet \subseteq Packet
      BY DEF Typed, WriterStates
    <3>2. delivered \o SetToSeq(writer.packet) \in Seq(Packet)
      <4> DEFINE held == SetToSeq(writer.packet)
      <4>1. held \in Seq(Packet) /\ delivered \in Seq(Packet)
        BY HeldTyped DEF Typed
      <4> HIDE DEF held
      <4>2. delivered \o held \in Seq(Packet)
        BY <4>1
      <4> QED
        BY <4>2 DEF held
    <3> QED
      BY <1>3, <3>1, <3>2 DEF Typed, Written, WriteFails
  <2> QED
    BY <1>3, <2>1, WriterSteps DEF Typed, Written, WriteFails, Reconnect, radio
<1>4. ASSUME NEW to \in {"closed", "gone"}, Disconnect(to) PROVE Typed' /\ UNCHANGED radio
  <2>1. disconnects' \in 0 .. MaxDisconnects
    BY <1>4, ReceiverAssumption DEF Typed, Disconnect
  <2>2. writer' \in WriterStates
    BY <1>4 DEF Typed, Disconnect, WriterStates
  <2> QED
    BY <1>4, <2>1, <2>2 DEF Typed, Disconnect, radio
<1> QED
  BY <1>1, <1>2, <1>3, <1>4

LEMMA NextInv == ASSUME Typed, CacheInv, [Next]_vars PROVE Typed' /\ CacheInv'
<1>1. CASE Replug
  BY <1>1, ReplugInv
<1>2. ASSUME NEW s \in Sensors, NEW n \in 0 .. MaxSeq, Hear(s, n) PROVE Typed' /\ CacheInv'
  BY <1>2, HearTyped, HearCache
<1>3. CASE \/ Connected \/ DtrOn \/ Settled \/ Take \/ Written \/ WriteFails
           \/ Enumerate \/ Open \/ \E to \in {"closed", "gone"} : Disconnect(to)
  BY <1>3, UsbTyped, UsbCache
<1>4. CASE UNCHANGED vars
  <2>1. UNCHANGED radio /\ Typed'
    BY <1>4 DEF vars, radio, usb, Typed
  <2> QED
    BY <2>1, UsbCache
<1> QED
  BY <1>1, <1>2, <1>3, <1>4 DEF Next

LEMMA Inductive == Spec => [](Typed /\ CacheInv)
<1>1. (Typed /\ CacheInv) /\ [Next]_vars => (Typed /\ CacheInv)'
  BY NextInv
<1> QED
  BY <1>1, InitInv, PTL DEF Spec

-------------------------------------------------------------------------------
(* A packet the writer is going to lose is a disconnect's, and each of     *)
(* those loses one at most.                                                *)
Owed ==
    \/ writer.step \in {"settle", "receive"} /\ host # "open"
    \/ writer.step = "write" /\ (host # "open" \/ writer.interrupted)
LossPaid == IsFiniteSet(lost) /\ Cardinality(lost) + (IF Owed THEN 1 ELSE 0) <= disconnects

LEMMA LostOneMore ==
    ASSUME IsFiniteSet(lost), NEW S, S = {} \/ \E p : S = {p}
    PROVE  /\ IsFiniteSet(lost \cup S)
           /\ Cardinality(lost) \in Nat /\ Cardinality(lost \cup S) \in Nat
           /\ Cardinality(lost \cup S) <= Cardinality(lost) + 1
<1>1. Cardinality(lost) \in Nat
  BY FS_CardinalityType
<1>2. CASE S = {}
  <2> DEFINE U == lost \cup S
  <2>1. U = lost
    BY <1>2
  <2> HIDE DEF U
  <2>2. IsFiniteSet(U) /\ Cardinality(U) \in Nat /\ Cardinality(U) <= Cardinality(lost) + 1
    BY <1>1, <2>1
  <2> QED
    BY <1>1, <2>2 DEF U
<1>3. CASE \E p : S = {p}
  <2>1. PICK p : S = {p}
    BY <1>3
  <2>2. /\ IsFiniteSet(lost \cup {p})
        /\ Cardinality(lost \cup {p}) = IF p \in lost THEN Cardinality(lost) ELSE Cardinality(lost) + 1
    BY FS_AddElement
  <2> QED
    BY <1>1, <2>1, <2>2
<1> QED
  BY <1>2, <1>3

LEMMA NextLoss == ASSUME Typed, LossPaid, [Next]_vars PROVE LossPaid'
<1> DEFINE card == Cardinality(lost)
<1>1. card \in Nat /\ disconnects \in Nat
  BY FS_CardinalityType, ReceiverAssumption DEF Typed, LossPaid
<1>2. CASE Replug
  BY <1>2, FS_EmptySet DEF Replug, LossPaid, Owed, Waiting
<1>3. ASSUME UNCHANGED lost, disconnects' = disconnects, Owed' => Owed PROVE LossPaid'
  BY <1>1, <1>3 DEF LossPaid
<1>4. ASSUME NEW s \in Sensors, NEW n \in 0 .. MaxSeq, Hear(s, n) PROVE LossPaid'
  BY <1>3, <1>4 DEF Hear, usb, Owed
<1>5. CASE Connected \/ DtrOn \/ Settled \/ Enumerate \/ Open \/ UNCHANGED vars
  BY <1>3, <1>5 DEF Connected, DtrOn, Settled, Enumerate, Open, Owed, Waiting, vars, usb
<1>6. ASSUME Owed, ~ Owed', disconnects' = disconnects, NEW S, S = {} \/ \E p : S = {p},
             lost' = lost \cup S
      PROVE  LossPaid'
  <2>1. IsFiniteSet(lost) /\ card + 1 <= disconnects
    BY <1>6 DEF LossPaid
  <2>2. IsFiniteSet(lost') /\ Cardinality(lost') \in Nat /\ Cardinality(lost') <= card + 1
    BY <1>6, <2>1, LostOneMore
  <2>3. Cardinality(lost') + 0 <= disconnects'
    BY <1>1, <1>6, <2>1, <2>2
  <2> QED
    BY <1>6, <2>2, <2>3 DEF LossPaid
<1>7. CASE Take
  <2>1. CASE host = "open"
    BY <1>3, <1>7, <2>1 DEF Take, Owed, Waiting
  <2>2. CASE host # "open"
    <3>1. /\ Owed /\ ~ Owed' /\ disconnects' = disconnects
          /\ lost' = lost \cup {Head(backlog)}
      BY <1>7, <2>2 DEF Take, Owed, Waiting, Reconnect
    <3> QED
      BY <1>6, <3>1
  <2> QED
    BY <2>1, <2>2
<1>8. writer.packet = {} \/ \E p : writer.packet = {p}
  BY DEF Typed, WriterStates
<1>9. CASE Written
  <2>1. ~ Owed' /\ disconnects' = disconnects
    BY <1>9 DEF Written, Owed, Waiting
  <2>2. CASE UNCHANGED lost
    BY <1>3, <2>1, <2>2
  <2>3. CASE writer.interrupted /\ lost' = lost \cup writer.packet
    <3>1. Owed
      BY <1>9, <2>3 DEF Written, Owed
    <3> QED
      BY <1>6, <1>8, <2>1, <2>3, <3>1
  <2> QED
    BY <1>9, <2>2, <2>3 DEF Written
<1>10. CASE WriteFails
  <2>1. /\ Owed /\ ~ Owed' /\ disconnects' = disconnects
        /\ lost' = lost \cup writer.packet
    BY <1>10 DEF WriteFails, Owed, Waiting, Reconnect
  <2> QED
    BY <1>6, <1>8, <2>1
<1>11. ASSUME NEW to \in {"closed", "gone"}, Disconnect(to) PROVE LossPaid'
  <2>1. UNCHANGED lost /\ disconnects' = disconnects + 1
    BY <1>11 DEF Disconnect
  <2>2. card <= disconnects
    BY <1>1 DEF LossPaid
  <2> QED
    BY <1>1, <2>1, <2>2 DEF LossPaid
<1> QED
  BY <1>2, <1>4, <1>5, <1>7, <1>9, <1>10, <1>11 DEF Next

-------------------------------------------------------------------------------
(* The order of what is queued and read.  A sequence is placed in another  *)
(* by the ascending places its members have there.                         *)
Placed(at, seq, of, bound) ==
    /\ at \in [1 .. Len(seq) -> 1 .. bound]
    /\ \A i \in 1 .. Len(seq) : seq[i] = of[at[i]]
    /\ \A i, j \in 1 .. Len(seq) : i < j => at[i] < at[j]

LEMMA PlacedFurther ==
    ASSUME NEW at, NEW seq, NEW of, NEW more, NEW low \in Nat, NEW high \in Nat, low <= high,
           \A k \in 1 .. low : more[k] = of[k], Placed(at, seq, of, low)
    PROVE  Placed(at, seq, more, high)
<1>1. at \in [1 .. Len(seq) -> 1 .. high]
  <2>1. 1 .. low \subseteq 1 .. high
    OBVIOUS
  <2> QED
    BY <2>1 DEF Placed
<1> QED
  BY <1>1 DEF Placed

LEMMA PlacedPart ==
    ASSUME NEW S, NEW s \in Seq(S), NEW t \in Seq(S), NEW of, NEW bound \in Nat, NEW at,
           Placed(at, s \o t, of, bound)
    PROVE  \E part : Placed(part, s, of, bound)
<1> DEFINE part == [i \in 1 .. Len(s) |-> at[i]]
<1>1. /\ 1 .. Len(s) \subseteq 1 .. Len(s \o t)
      /\ \A i \in 1 .. Len(s) : (s \o t)[i] = s[i]
  OBVIOUS
<1>2. Placed(part, s, of, bound)
  BY <1>1 DEF Placed
<1> QED
  BY <1>2

LEMMA PlacedNext ==
    ASSUME NEW S, NEW s \in Seq(S), NEW p \in S, NEW of, NEW bound \in Nat, NEW at,
           Placed(at, s, of, bound), of[bound + 1] = p
    PROVE  \E next : Placed(next, s \o <<p>>, of, bound + 1)
<1> DEFINE n == Len(s)
           next == [i \in 1 .. n + 1 |-> IF i = n + 1 THEN bound + 1 ELSE at[i]]
<1>1. /\ n \in Nat /\ Len(s \o <<p>>) = n + 1 /\ (s \o <<p>>)[n + 1] = p
      /\ \A i \in 1 .. n : (s \o <<p>>)[i] = s[i]
  OBVIOUS
<1>2. \A i \in 1 .. n + 1 : i # n + 1 => i \in 1 .. n
  BY <1>1
<1>3. \A i \in 1 .. n : at[i] \in 1 .. bound /\ s[i] = of[at[i]]
  BY DEF Placed
<1>4. \A i \in 1 .. n + 1 : next[i] \in 1 .. bound + 1
  BY <1>1, <1>2, <1>3
<1>5. \A i \in 1 .. n + 1 : (s \o <<p>>)[i] = of[next[i]]
  BY <1>1, <1>2, <1>3
<1>6. \A i, j \in 1 .. n + 1 : i < j => next[i] < next[j]
  <2> SUFFICES ASSUME NEW i \in 1 .. n + 1, NEW j \in 1 .. n + 1, i < j
               PROVE  next[i] < next[j]
    OBVIOUS
  <2>1. i \in 1 .. n /\ next[i] = at[i] /\ at[i] \in 1 .. bound
    BY <1>1, <1>2, <1>3
  <2>2. CASE j = n + 1
    BY <2>1, <2>2
  <2>3. CASE j # n + 1
    BY <1>2, <2>1, <2>3 DEF Placed
  <2> QED
    BY <2>2, <2>3
<1> HIDE DEF next, n
<1>7. next \in [1 .. n + 1 -> 1 .. bound + 1]
  BY <1>4 DEF next
<1> QED
  BY <1>1, <1>5, <1>6, <1>7 DEF Placed

LEMMA PlacedAll ==
    ASSUME NEW S, NEW s \in Seq(S), NEW t \in Seq(S), NEW of \in Seq(S), NEW bound \in Nat, NEW at,
           Placed(at, s, of, bound), Len(of) = bound + Len(t),
           \A i \in 1 .. Len(t) : t[i] = of[bound + i]
    PROVE  InOrder(s \o t, of)
<1> DEFINE n == Len(s)
           m == Len(t)
           all == [i \in 1 .. n + m |-> IF i <= n THEN at[i] ELSE bound + (i - n)]
<1>1. /\ n \in Nat /\ m \in Nat /\ DOMAIN (s \o t) = 1 .. n + m /\ DOMAIN of = 1 .. bound + m
      /\ \A i \in 1 .. n : (s \o t)[i] = s[i]
      /\ \A i \in 1 .. n + m : ~ (i <= n) => i - n \in 1 .. m /\ (s \o t)[i] = t[i - n]
  OBVIOUS
<1>2. \A i \in 1 .. n : at[i] \in 1 .. bound /\ s[i] = of[at[i]]
  BY DEF Placed
<1> HIDE DEF n, m
<1>3. ASSUME NEW i \in 1 .. n + m
      PROVE  /\ all[i] \in 1 .. bound + m /\ (s \o t)[i] = of[all[i]]
             /\ i <= n => i \in 1 .. n /\ all[i] = at[i] /\ all[i] <= bound
             /\ ~ (i <= n) => all[i] = bound + (i - n) /\ all[i] > bound
  <2>1. CASE i <= n
    <3>1. i \in 1 .. n
      BY <1>1, <2>1
    <3> QED
      BY <1>1, <1>2, <2>1, <3>1
  <2>2. CASE ~ (i <= n)
    <3>1. i - n \in 1 .. m /\ (s \o t)[i] = t[i - n] /\ all[i] = bound + (i - n)
      BY <1>1, <2>2
    <3>2. t[i - n] = of[bound + (i - n)]
      BY <3>1 DEF m
    <3> QED
      BY <1>1, <2>2, <3>1, <3>2
  <2> QED
    BY <2>1, <2>2
<1>4. \A i, j \in 1 .. n + m : i < j => all[i] < all[j]
  <2> SUFFICES ASSUME NEW i \in 1 .. n + m, NEW j \in 1 .. n + m, i < j
               PROVE  all[i] < all[j]
    OBVIOUS
  <2> HIDE DEF all
  <2>1. all[i] \in Nat /\ all[j] \in Nat
    BY <1>1, <1>3
  <2>2. CASE j <= n
    <3>1. i <= n
      BY <1>1, <2>2
    <3>2. i \in 1 .. n /\ j \in 1 .. n /\ all[i] = at[i] /\ all[j] = at[j]
      BY <1>3, <2>2, <3>1
    <3> QED
      BY <3>2 DEF Placed, n
  <2>3. CASE i <= n /\ ~ (j <= n)
    BY <1>3, <2>1, <2>3
  <2>4. CASE ~ (i <= n) /\ ~ (j <= n)
    BY <1>1, <1>3, <2>4
  <2> QED
    BY <1>1, <2>2, <2>3, <2>4
<1>5. all \in [1 .. n + m -> 1 .. bound + m]
  BY <1>3
<1> HIDE DEF all
<1> QED
  BY <1>1, <1>3, <1>4, <1>5 DEF InOrder

(* A sequence that is the end of another, place by place, is its suffix.   *)
LEMMA EndIsSuffix ==
    ASSUME NEW S, NEW t \in Seq(S), NEW of \in Seq(S), NEW bound \in Nat,
           Len(of) = bound + Len(t), \A i \in 1 .. Len(t) : t[i] = of[bound + i]
    PROVE  IsSuffix(t, of)
<1> DEFINE m == Len(t)
           back == Reverse(t)
           whole == Reverse(of)
<1>1. m \in Nat /\ Len(of) = bound + m
  OBVIOUS
<1>2. /\ back \in Seq(S) /\ Len(back) = m
      /\ \A i \in 1 .. m : back[i] = t[m - i + 1]
  BY DEF Reverse
<1>3. /\ whole \in Seq(S) /\ Len(whole) = bound + m
      /\ \A i \in 1 .. bound + m : whole[i] = of[bound + m - i + 1]
  BY DEF Reverse
<1>4. \A i \in 1 .. m : back[i] = whole[i]
  <2> SUFFICES ASSUME NEW i \in 1 .. m PROVE back[i] = whole[i]
    OBVIOUS
  <2> HIDE DEF m, back, whole
  <2>1. m - i + 1 \in 1 .. m /\ i \in 1 .. bound + m /\ bound + (m - i + 1) = bound + m - i + 1
    BY <1>1
  <2>2. t[m - i + 1] = of[bound + (m - i + 1)]
    BY <2>1 DEF m
  <2> QED
    BY <1>2, <1>3, <2>1, <2>2
<1> HIDE DEF m, back, whole
<1>5. Len(back) <= Len(whole)
  BY <1>1, <1>2, <1>3
<1>6. SubSeq(back, 1, m) = SubSeq(whole, 1, m)
  <2>1. /\ SubSeq(back, 1, m) = [i \in 1 .. m |-> back[i]]
        /\ SubSeq(whole, 1, m) = [i \in 1 .. m |-> whole[i]]
    BY <1>1, <1>2, <1>3
  <2> QED
    BY <1>4, <2>1
<1> QED
  BY <1>2, <1>5, <1>6 DEF IsSuffix, IsPrefix, back, whole

(* What a host has read or is being sent comes before what is queued.      *)
Sent == delivered \o SetToSeq(writer.packet)
Before == Len(forwarded) - Len(backlog)
HoldsWhileWriting == writer.step # "write" => writer.packet = {}
QueuedLast ==
    /\ Len(backlog) <= Len(forwarded)
    /\ \A i \in 1 .. Len(backlog) : backlog[i] = forwarded[Before + i]
SentInOrder == \E at : Placed(at, Sent, forwarded, Before)
OrderInv == HoldsWhileWriting /\ QueuedLast /\ SentInOrder

LEMMA LengthsTyped ==
    ASSUME Typed, QueuedLast
    PROVE  Len(backlog) \in Nat /\ Len(forwarded) \in Nat /\ Before \in Nat
<1>1. Len(backlog) \in Nat /\ Len(forwarded) \in Nat
  BY DEF Typed
<1> QED
  BY <1>1 DEF QueuedLast, Before

LEMMA SentTyped == ASSUME Typed PROVE Sent \in Seq(Packet)
<1> DEFINE held == SetToSeq(writer.packet)
<1>1. held \in Seq(Packet) /\ delivered \in Seq(Packet)
  BY HeldTyped DEF Typed
<1> HIDE DEF held
<1>2. delivered \o held \in Seq(Packet)
  BY <1>1
<1> QED
  BY <1>2 DEF held, Sent

LEMMA EmptyPlaced == \E at : Placed(at, <<>>, <<>>, 0)
<1>1. Placed([i \in 1 .. 0 |-> 0], <<>>, <<>>, 0)
  BY DEF Placed
<1> QED
  BY <1>1

LEMMA InitOrder == Init => OrderInv
<1> SUFFICES ASSUME Init PROVE OrderInv
  OBVIOUS
<1>1. /\ backlog = <<>> /\ forwarded = <<>> /\ delivered = <<>>
      /\ writer.packet = {}
  BY DEF Init, Waiting
<1>2. Sent = <<>> /\ Before = 0
  BY <1>1, SetToSeqOne DEF Sent, Before
<1> QED
  BY <1>1, <1>2, EmptyPlaced DEF OrderInv, HoldsWhileWriting, QueuedLast, SentInOrder

LEMMA ReplugOrder == Replug => OrderInv'
<1> SUFFICES ASSUME Replug PROVE OrderInv'
  OBVIOUS
<1>1. /\ backlog' = <<>> /\ forwarded' = <<>> /\ delivered' = <<>>
      /\ writer'.packet = {}
  BY DEF Replug, Waiting
<1>2. Sent' = <<>> /\ Before' = 0
  BY <1>1, SetToSeqOne DEF Sent, Before
<1> QED
  BY <1>1, <1>2, EmptyPlaced DEF OrderInv, HoldsWhileWriting, QueuedLast, SentInOrder

LEMMA HearOrder ==
    ASSUME Typed, OrderInv, NEW s \in Sensors, NEW n \in 0 .. MaxSeq, Hear(s, n)
    PROVE  OrderInv'
<1> DEFINE p == [sensor |-> s, seq |-> n]
<1>1. UNCHANGED Sent /\ HoldsWhileWriting'
  BY DEF Hear, usb, Sent, OrderInv, HoldsWhileWriting
<1>2. CASE backlog' = backlog /\ forwarded' = forwarded
  BY <1>1, <1>2 DEF OrderInv, QueuedLast, SentInOrder, Before
<1>3. CASE backlog' = Queue(p) /\ forwarded' = Append(forwarded, p)
  <2>1. p \in Packet /\ backlog \in Seq(Packet) /\ forwarded \in Seq(Packet)
    BY DEF Packet, Typed
  <2> HIDE DEF p
  <2> DEFINE f == Len(forwarded)
             b == Len(backlog)
  <2>2. /\ f \in Nat /\ b \in Nat /\ b <= f /\ Before = f - b /\ Before \in Nat
        /\ \A i \in 1 .. b : backlog[i] = forwarded[Before + i]
    BY LengthsTyped DEF OrderInv, QueuedLast, Before
  <2>3. /\ Len(forwarded') = f + 1 /\ forwarded'[f + 1] = p
        /\ \A k \in 1 .. f : forwarded'[k] = forwarded[k]
    BY <1>3, <2>1
  <2>4. CASE b = Capacity
    <3>1. /\ b > 0 /\ b - 1 \in Nat
      BY <2>2, <2>4, ReceiverAssumption
    <3>2. backlog' = Append(Tail(backlog), p)
      BY <1>3, <2>4 DEF Queue
    <3>3. /\ Tail(backlog) \in Seq(Packet) /\ Len(Tail(backlog)) = b - 1
          /\ \A i \in 1 .. b - 1 : Tail(backlog)[i] = backlog[i + 1]
      BY <2>1, <3>1
    <3>4. /\ Len(backlog') = b /\ backlog'[b] = p
          /\ \A i \in 1 .. b - 1 : backlog'[i] = backlog[i + 1]
      BY <2>1, <3>1, <3>2, <3>3
    <3>5. Before' = Before + 1
      BY <2>2, <2>3, <3>4 DEF Before
    <3> HIDE DEF f, b
    <3>6. ASSUME NEW i \in 1 .. b PROVE backlog'[i] = forwarded'[Before' + i]
      <4>1. CASE i = b
        <5>1. Before' + i = f + 1
          BY <2>2, <3>5, <4>1
        <5> QED
          BY <2>3, <3>4, <4>1, <5>1
      <4>2. CASE i # b
        <5>1. /\ i \in 1 .. b - 1 /\ i + 1 \in 1 .. b
              /\ Before + (i + 1) \in 1 .. f /\ Before' + i = Before + (i + 1)
          BY <2>2, <3>1, <3>5, <4>2
        <5> QED
          BY <2>2, <2>3, <3>4, <5>1
      <4> QED
        BY <4>1, <4>2
    <3>7. QueuedLast'
      BY <2>2, <2>3, <3>4, <3>6 DEF QueuedLast
    <3>8. SentInOrder'
      <4>1. Before' \in Nat /\ Before <= Before' /\ \A k \in 1 .. Before : k \in 1 .. f
        BY <2>2, <3>5
      <4>2. PICK at : Placed(at, Sent, forwarded, Before)
        BY DEF OrderInv, SentInOrder
      <4>3. Placed(at, Sent, forwarded', Before')
        BY <2>2, <2>3, <4>1, <4>2, PlacedFurther
      <4> QED
        BY <1>1, <4>3 DEF SentInOrder
    <3> QED
      BY <1>1, <3>7, <3>8 DEF OrderInv
  <2>5. CASE b # Capacity
    <3>1. backlog' = Append(backlog, p)
      BY <1>3, <2>5 DEF Queue
    <3>2. /\ Len(backlog') = b + 1 /\ backlog'[b + 1] = p
          /\ \A i \in 1 .. b : backlog'[i] = backlog[i]
      BY <2>1, <3>1
    <3>3. Before' = Before
      BY <2>2, <2>3, <3>2 DEF Before
    <3> HIDE DEF f, b
    <3>4. ASSUME NEW i \in 1 .. b + 1 PROVE backlog'[i] = forwarded'[Before' + i]
      <4>1. CASE i = b + 1
        <5>1. Before' + i = f + 1
          BY <2>2, <3>3, <4>1
        <5> QED
          BY <2>3, <3>2, <4>1, <5>1
      <4>2. CASE i # b + 1
        <5>1. i \in 1 .. b /\ Before + i \in 1 .. f /\ Before' + i = Before + i
          BY <2>2, <3>3, <4>2
        <5> QED
          BY <2>2, <2>3, <3>2, <5>1
      <4> QED
        BY <4>1, <4>2
    <3>5. QueuedLast'
      BY <2>2, <2>3, <3>2, <3>4 DEF QueuedLast
    <3>6. SentInOrder'
      <4>1. Before <= Before /\ \A k \in 1 .. Before : k \in 1 .. f
        BY <2>2
      <4>2. PICK at : Placed(at, Sent, forwarded, Before)
        BY DEF OrderInv, SentInOrder
      <4>3. Placed(at, Sent, forwarded', Before)
        BY <2>2, <2>3, <4>1, <4>2, PlacedFurther
      <4> QED
        BY <1>1, <3>3, <4>3 DEF SentInOrder
    <3> QED
      BY <1>1, <3>5, <3>6 DEF OrderInv
  <2> QED
    BY <2>4, <2>5
<1> QED
  BY <1>2, <1>3 DEF Hear

LEMMA TakeOrder == ASSUME Typed, OrderInv, Take PROVE OrderInv'
<1>1. /\ backlog \in Seq(Packet) /\ backlog # <<>> /\ backlog' = Tail(backlog)
      /\ UNCHANGED <<forwarded, delivered>> /\ delivered \in Seq(Packet)
  BY DEF Take, Typed, radio
<1> DEFINE f == Len(forwarded)
           b == Len(backlog)
<1>2. /\ f \in Nat /\ b \in Nat /\ b <= f /\ Before = f - b /\ Before \in Nat
      /\ \A i \in 1 .. b : backlog[i] = forwarded[Before + i]
  BY LengthsTyped DEF OrderInv, QueuedLast, Before
<1>3. /\ b > 0 /\ Len(backlog') = b - 1 /\ b - 1 \in Nat
      /\ \A i \in 1 .. b - 1 : backlog'[i] = backlog[i + 1]
      /\ Head(backlog) = backlog[1] /\ Head(backlog) \in Packet
  BY <1>1
<1>4. Before' = Before + 1 /\ forwarded' = forwarded
  BY <1>1, <1>2, <1>3 DEF Before
<1> HIDE DEF f, b
<1>5. Head(backlog) = forwarded[Before + 1]
  BY <1>2, <1>3
<1>6. ASSUME NEW i \in 1 .. b - 1 PROVE backlog'[i] = forwarded'[Before' + i]
  <2>1. i + 1 \in 1 .. b /\ Before' + i = Before + (i + 1)
    BY <1>2, <1>3, <1>4
  <2> QED
    BY <1>2, <1>3, <1>4, <2>1
<1>7. QueuedLast'
  <2>1. b - 1 <= f
    BY <1>2
  <2> QED
    BY <1>3, <1>4, <1>6, <2>1 DEF QueuedLast, f
<1>8. Sent = delivered
  <2>1. writer.packet = {}
    BY DEF Take, OrderInv, HoldsWhileWriting
  <2>2. delivered \o <<>> = delivered
    BY <1>1
  <2> QED
    BY <2>1, <2>2, SetToSeqOne DEF Sent
<1>9. PICK at : Placed(at, delivered, forwarded, Before)
  BY <1>8 DEF OrderInv, SentInOrder
<1>10. CASE host = "open"
  <2>1. writer' = [step |-> "write", packet |-> {Head(backlog)}, interrupted |-> FALSE]
    BY <1>10 DEF Take, Waiting
  <2>2. Sent' = delivered \o <<Head(backlog)>>
    BY <1>1, <2>1, SetToSeqOne DEF Sent
  <2>3. PICK next : Placed(next, delivered \o <<Head(backlog)>>, forwarded, Before + 1)
    BY <1>1, <1>2, <1>3, <1>5, <1>9, PlacedNext
  <2>4. SentInOrder'
    BY <1>4, <2>2, <2>3 DEF SentInOrder
  <2> QED
    BY <1>7, <2>1, <2>4 DEF OrderInv, HoldsWhileWriting
<1>11. CASE host # "open"
  <2>1. writer' = [step |-> "connect", packet |-> {}, interrupted |-> FALSE]
    BY <1>11 DEF Take, Waiting, Reconnect
  <2>2. Sent' = delivered
    <3>1. delivered \o <<>> = delivered
      BY <1>1
    <3> QED
      BY <1>1, <2>1, <3>1, SetToSeqOne DEF Sent
  <2>3. Placed(at, delivered, forwarded, Before + 1)
    <3>1. Before <= Before + 1 /\ Before + 1 \in Nat
      BY <1>2
    <3> QED
      BY <1>2, <1>9, <3>1, PlacedFurther
  <2>4. SentInOrder'
    BY <1>4, <2>2, <2>3 DEF SentInOrder
  <2> QED
    BY <1>7, <2>1, <2>4 DEF OrderInv, HoldsWhileWriting
<1> QED
  BY <1>10, <1>11

(* A frame read whole stays where it is; one that is dropped makes room.   *)
LEMMA EndOrder == ASSUME Typed, OrderInv, Written \/ WriteFails PROVE OrderInv'
<1>1. /\ UNCHANGED <<backlog, forwarded>> /\ writer'.packet = {} /\ writer'.step # "write"
      /\ delivered' = delivered \o SetToSeq(writer.packet) \/ delivered' = delivered
  BY DEF Written, WriteFails, Waiting, Reconnect, radio
<1>2. QueuedLast' /\ HoldsWhileWriting' /\ UNCHANGED <<Before, forwarded>>
  BY <1>1 DEF OrderInv, QueuedLast, HoldsWhileWriting, Before
<1>3. Sent' = delivered'
  <2>1. delivered' \in Seq(Packet)
    BY <1>1, SentTyped DEF Typed, Sent
  <2>2. delivered' \o <<>> = delivered'
    BY <2>1
  <2> QED
    BY <1>1, <2>2, SetToSeqOne DEF Sent
<1>4. PICK at : Placed(at, Sent, forwarded, Before)
  BY DEF OrderInv, SentInOrder
<1>5. \E part : Placed(part, delivered, forwarded, Before)
  <2> DEFINE held == SetToSeq(writer.packet)
  <2>1. held \in Seq(Packet) /\ delivered \in Seq(Packet) /\ Before \in Nat
    BY HeldTyped, LengthsTyped DEF Typed, OrderInv
  <2>2. Placed(at, delivered \o held, forwarded, Before)
    BY <1>4 DEF Sent
  <2> HIDE DEF held
  <2> QED
    BY <2>1, <2>2, PlacedPart
<1>6. SentInOrder'
  BY <1>1, <1>2, <1>3, <1>4, <1>5 DEF SentInOrder, Sent
<1> QED
  BY <1>2, <1>6 DEF OrderInv

LEMMA NextOrder == ASSUME Typed, OrderInv, [Next]_vars PROVE OrderInv'
<1>1. CASE Replug
  BY <1>1, ReplugOrder
<1>2. ASSUME NEW s \in Sensors, NEW n \in 0 .. MaxSeq, Hear(s, n) PROVE OrderInv'
  BY <1>2, HearOrder
<1>3. CASE Connected \/ DtrOn \/ Settled
  <2>1. /\ UNCHANGED <<backlog, forwarded, delivered>>
        /\ writer.step # "write" /\ writer'.step # "write" /\ writer'.packet = {}
    BY <1>3 DEF Connected, DtrOn, Settled, Waiting, radio
  <2> QED
    BY <2>1 DEF OrderInv, HoldsWhileWriting, QueuedLast, SentInOrder, Sent, Before
<1>4. CASE Enumerate \/ Open \/ UNCHANGED vars
  <2>1. UNCHANGED <<backlog, forwarded, delivered, writer>>
    BY <1>4 DEF Enumerate, Open, vars, radio, usb
  <2> QED
    BY <2>1 DEF OrderInv, HoldsWhileWriting, QueuedLast, SentInOrder, Sent, Before
<1>5. ASSUME NEW to \in {"closed", "gone"}, Disconnect(to) PROVE OrderInv'
  <2>1. /\ UNCHANGED <<backlog, forwarded, delivered>>
        /\ writer'.step = writer.step /\ writer'.packet = writer.packet
    BY <1>5 DEF Disconnect, radio, Typed, WriterStates
  <2> QED
    BY <2>1 DEF OrderInv, HoldsWhileWriting, QueuedLast, SentInOrder, Sent, Before
<1>6. CASE Take \/ Written \/ WriteFails
  BY <1>6, TakeOrder, EndOrder
<1> QED
  BY <1>1, <1>2, <1>3, <1>4, <1>5, <1>6 DEF Next

-------------------------------------------------------------------------------
(***************************************************************************)
(* The types of the cache, the backlog and the writer (`LruCache`,         *)
(* `PacketChannel`), for every size of the constants.                      *)
(***************************************************************************)
THEOREM TypeCorrect == Spec => []TypeOK
<1>1. Typed => TypeOK
  <2> SUFFICES ASSUME Typed PROVE TypeOK
    OBVIOUS
  <2>1. \A it \in Range(cache.items) : it.key \in Sensors /\ it.value \in 0 .. MaxSeq
    BY ItemsTyped DEF Range, Item, Occupied
  <2>2. Range(backlog) \subseteq Packet /\ Range(forwarded) \subseteq Packet
        /\ Range(delivered) \subseteq Packet
    BY DEF Typed, Range
  <2> QED
    BY <2>1, <2>2 DEF Typed, TypeOK, WriterStates
<1> QED
  BY <1>1, Inductive, PTL

(***************************************************************************)
(* A burst is forwarded twice only when as many other sensors as the cache *)
(* has slots were heard in between, for any number of sensors and slots    *)
(* (`on_ext_adv_reports`, `LruCache`).                                     *)
(***************************************************************************)
THEOREM RepeatsNeedACrowd == Spec => RepeatedOnlyWhenCrowded
<1>1. ASSUME Typed, CacheInv, NEW s \in Sensors, NEW n \in 0 .. MaxSeq,
             Hear(s, n), forwarded' # forwarded, previous[s] = {n}
      PROVE  Cardinality(since[s]) >= Slots
  <2>1. ~ Seen([sensor |-> s, seq |-> n])
    BY <1>1 DEF Hear
  <2>2. \A i \in Occupied : cache.items[i].key # s
    <3>1. ASSUME NEW i \in Occupied, cache.items[i].key = s PROVE FALSE
      <4>1. cache.items[i].value = n
        BY <1>1, <3>1 DEF CacheInv, HoldsPrevious
      <4>2. n \in SeqCache!Found(cache, s)
        BY <3>1, <4>1 DEF SeqCache!Found, SeqCache!Find, Occupied
      <4> QED
        BY <2>1, <4>2 DEF Seen
    <3> QED
      BY <3>1
  <2> QED
    BY <1>1, <2>2 DEF CacheInv, DisplacedByMany
<1>2. Typed /\ CacheInv /\ [Next]_vars =>
          [\A s \in Sensors, n \in 0 .. MaxSeq :
               Hear(s, n) /\ forwarded' # forwarded /\ previous[s] = {n}
                   => Cardinality(since[s]) >= Slots]_vars
  BY <1>1
<1> QED
  BY <1>2, Inductive, PTL DEF Spec, RepeatedOnlyWhenCrowded

(***************************************************************************)
(* Nothing is swallowed but the number a sensor was last heard with, so no *)
(* sensor is muted by its earlier, higher numbers (`on_ext_adv_reports`).  *)
(***************************************************************************)
THEOREM SwallowsOnlyRepeats == Spec => OnlyRepeatsSwallowed
<1>1. ASSUME Typed, CacheInv, NEW s \in Sensors, NEW n \in 0 .. MaxSeq,
             Hear(s, n), forwarded' = forwarded
      PROVE  previous[s] = {n}
  <2> DEFINE p == [sensor |-> s, seq |-> n]
  <2>1. Len(Append(forwarded, p)) # Len(forwarded)
    BY <1>1 DEF Typed
  <2>2. Seen(p)
    BY <1>1, <2>1 DEF Hear
  <2>3. PICK i \in Occupied : cache.items[i].key = s /\ cache.items[i].value = n
    BY <2>2 DEF Seen, SeqCache!Found, SeqCache!Find, Occupied
  <2> QED
    BY <1>1, <2>3 DEF CacheInv, HoldsPrevious
<1>2. Typed /\ CacheInv /\ [Next]_vars =>
          [\A s \in Sensors, n \in 0 .. MaxSeq :
               Hear(s, n) /\ forwarded' = forwarded => previous[s] = {n}]_vars
  BY <1>1
<1> QED
  BY <1>2, Inductive, PTL DEF Spec, OnlyRepeatsSwallowed

(***************************************************************************)
(* No more packets are lost than hosts went away, whatever step the writer *)
(* was in and however soon the port was open again (`usb_writer_fut`).     *)
(***************************************************************************)
THEOREM LossesPaid == Spec => []OneLossPerDisconnect
<1>1. Init => LossPaid
  BY FS_EmptySet DEF Init, LossPaid, Owed, Waiting
<1>2. (Typed /\ CacheInv) /\ LossPaid /\ [Next]_vars => LossPaid'
  BY NextLoss
<1>3. Typed /\ LossPaid => OneLossPerDisconnect
  <2> SUFFICES ASSUME Typed, LossPaid PROVE OneLossPerDisconnect
    OBVIOUS
  <2>1. Cardinality(lost) \in Nat /\ disconnects \in Nat
    BY FS_CardinalityType, ReceiverAssumption DEF Typed, LossPaid
  <2> QED
    BY <2>1 DEF LossPaid, OneLossPerDisconnect
<1> QED
  BY <1>1, <1>2, <1>3, Inductive, PTL DEF Spec

(***************************************************************************)
(* What waits is the newest of what was forwarded, and what a host reads   *)
(* and what waits for it come in the order they were heard, each once,     *)
(* however often the backlog overflowed and the host went away (the        *)
(* backlog channel, `usb_writer_fut`).                                     *)
(***************************************************************************)
THEOREM OrderKept == Spec => []NewestInOrder
<1>1. Init => OrderInv
  BY InitOrder
<1>2. (Typed /\ CacheInv) /\ OrderInv /\ [Next]_vars => OrderInv'
  BY NextOrder
<1>3. Typed /\ OrderInv => NewestInOrder
  <2> SUFFICES ASSUME Typed, OrderInv PROVE NewestInOrder
    OBVIOUS
  <2>1. /\ backlog \in Seq(Packet) /\ forwarded \in Seq(Packet) /\ Before \in Nat
        /\ Len(forwarded) = Before + Len(backlog)
        /\ \A i \in 1 .. Len(backlog) : backlog[i] = forwarded[Before + i]
    BY LengthsTyped DEF Typed, OrderInv, QueuedLast, Before
  <2>2. IsSuffix(backlog, forwarded)
    BY <2>1, EndIsSuffix
  <2>3. PICK at : Placed(at, Sent, forwarded, Before)
    BY DEF OrderInv, SentInOrder
  <2>4. InOrder(Sent \o backlog, forwarded)
    BY <2>1, <2>3, SentTyped, PlacedAll
  <2> QED
    BY <2>2, <2>4 DEF NewestInOrder, InFlight, Sent
<1> QED
  BY <1>1, <1>2, <1>3, Inductive, PTL DEF Spec
===============================================================================
