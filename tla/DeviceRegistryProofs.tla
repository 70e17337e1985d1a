------------------------- MODULE DeviceRegistryProofs -------------------------
(***************************************************************************)
(* Theorems about DeviceRegistry, for any number of keys, handlers, packets *)
(* KEK files, and, where the clocks matter, for a gateway whose clock is    *)
(* the database's.                                                          *)
(***************************************************************************)
EXTENDS DeviceRegistry, TLAPS, WellFoundedInduction

(* Packets are stamped with the clock that stamps key_valid_from.          *)
SameClock == Skews = {0}

Packets == air \cup ingest \cup readings

(* Some time none of the packets is later than.                            *)
Bounded == \E b \in Nat : \A p \in Packets : p.time <= b

(* A key is generated once: until it is committed nothing else has it.     *)
FreshKeys ==
    /\ {cache, row.key, board.key} \subseteq minted \cup {NoKey}
    /\ \A h \in handlers :
           /\ h.key \in minted
           /\ h.step = "sql" => h.key \notin {cache, row.key, board.key}
           /\ \A g \in handlers : g.key = h.key => g = h
    /\ board.runs => board.key # NoKey

(* While every mint is answered there is one handler at a time, the board  *)
(* is halted under it, and it alone stands between the row and the rest.   *)
OneAtATime ==
    serial =>
        /\ \A g, h \in handlers : g = h
        /\ \A h \in handlers :
               /\ ~board.runs
               /\ h.step = "cache" => row.key = h.key /\ Opened(ring) = h.key
        /\ (\A h \in handlers : h.step = "sql") => cache = Opened(ring) /\ board.key = row.key

(* The inductive invariant on keys.                                        *)
KeyInv == TypeOK /\ Bounded /\ FreshKeys /\ OneAtATime

(* On one clock: no packet is of the future, one after key_valid_from is   *)
(* sealed under the row's key, and a verifier without proof has seen none  *)
(* of them stored since it began.                                          *)
StampedByNow == row.valid_from <= now /\ \A p \in Packets : p.time <= now
SealedUnderRow == serial => \A p \in Packets : p.time > row.valid_from => p.key = row.key
VerifierWaits ==
    serial /\ ~verifier.proof =>
        /\ verifier.step = "waiting"
        /\ \A t \in SeenTimes : t <= verifier.baseline

ClockInv == StampedByNow /\ SealedUnderRow /\ VerifierWaits

-------------------------------------------------------------------------------
(* KekRing::get_current's expectation: a file that parses has a key for    *)
(* its current generation.                                                 *)
LEMMA CurrentLoaded ==
    ASSUME NEW r \in Rings
    PROVE  r.current \in DOMAIN r.keks
<1>1. PICK file \in KekFiles : r \in Parse(file)
  BY DEF Rings
<1>2. PICK i \in DOMAIN file : /\ file[i].gen \in DOMAIN KeyOf(file)
                              /\ r = [current |-> file[i].gen, keks |-> KeyOf(file)]
  BY <1>1 DEF Parse, Of
<1> QED BY <1>2

(* What a ring seals, it opens.                                            *)
LEMMA SealOpens ==
    ASSUME NEW r \in Rings
    PROVE  Seal(r) \in Wraps /\ KeyStatus(Seal(r), r) = "ok"
<1>1. Seal(r).gen = r.current /\ Seal(r).kek = r.keks[r.current]
  BY DEF Seal
<1> QED BY <1>1, CurrentLoaded DEF KeyStatus, Wraps

(* A bounded nonempty set of numbers has a greatest one.                   *)
LEMMA GreatestBelow ==
    ASSUME NEW S \in SUBSET Nat, S # {}, NEW n \in Nat, \A x \in S : x <= n
    PROVE  \E m \in S : \A x \in S : x <= m
<1> DEFINE R == OpToRel(<, Nat)
           D == {n - x : x \in S}
<1>1. IsWellFoundedOn(R, Nat)
  BY NatLessThanWellFounded
<1>2. D \subseteq Nat
  <2> SUFFICES ASSUME NEW x \in S PROVE n - x \in Nat
    OBVIOUS
  <2>1. x \in Nat /\ x <= n
    OBVIOUS
  <2> QED BY <2>1
<1>3. D # {}
  <2>1. PICK x \in S : TRUE
    OBVIOUS
  <2>2. n - x \in D
    BY <2>1
  <2> QED BY <2>2
<1>4. PICK d \in D : \A e \in D : ~ (<<e, d>> \in R)
  <2> HIDE DEF D, R
  <2> QED BY <1>1, <1>2, <1>3, WFMin
<1>5. \A e \in D : ~ (e < d)
  <2> HIDE DEF D
  <2> QED BY <1>2, <1>4 DEF OpToRel
<1>6. PICK m \in S : d = n - m
  OBVIOUS
<1>7. ASSUME NEW x \in S PROVE x <= m
  <2>1. x \in Nat /\ m \in Nat /\ n - x \in D
    OBVIOUS
  <2>2. ~ (n - x < n - m)
    BY <2>1, <1>5, <1>6
  <2> QED BY <2>1, <2>2
<1> QED BY <1>7

(* What the activity query answers: the latest of the seen times.          *)
LEMMA LastSeenLatest ==
    ASSUME TypeOK, Bounded
    PROVE  /\ SeenTimes \subseteq Nat
           /\ LastSeen \in Nat
           /\ SeenTimes # {} => LastSeen \in SeenTimes
           /\ \A t \in SeenTimes : t <= LastSeen /\ 0 < t
<1>1. \A t \in SeenTimes : \E r \in readings : t = r.time /\ r.time > row.valid_from
  BY DEF SeenTimes
<1>2. \A r \in readings : r.time \in Nat
  BY DEF TypeOK, Packet
<1>3. row.valid_from \in Nat
  BY DEF TypeOK
<1>4. SeenTimes \subseteq Nat /\ \A t \in SeenTimes : 0 < t
  BY <1>1, <1>2, <1>3
<1>5. CASE SeenTimes = {}
  BY <1>5, <1>4 DEF LastSeen
<1>6. CASE SeenTimes # {}
  <2>1. PICK b \in Nat : \A r \in readings : r.time <= b
    BY DEF Bounded, Packets
  <2>2. \A t \in SeenTimes : t <= b
    BY <1>1, <2>1
  <2>3. \E m \in SeenTimes : \A t \in SeenTimes : t <= m
    BY <1>4, <1>6, <2>2, GreatestBelow
  <2>4. LastSeen = CHOOSE m \in SeenTimes : \A t \in SeenTimes : t <= m
    BY <1>6 DEF LastSeen
  <2>5. LastSeen \in SeenTimes /\ \A t \in SeenTimes : t <= LastSeen
    BY <2>3, <2>4
  <2> QED BY <2>5, <1>4
<1> QED BY <1>5, <1>6
-------------------------------------------------------------------------------
(* The initial state.                                                      *)
LEMMA KeyInvInit == Init => KeyInv
<1> SUFFICES ASSUME Init PROVE KeyInv
  OBVIOUS
<1>1. TypeOK
  BY DEF Init, TypeOK, Ended, VerifySteps
<1>2. Bounded
  BY DEF Init, Bounded, Packets
<1>3. FreshKeys /\ OneAtATime
  BY DEF Init, FreshKeys, OneAtATime, Opened, Registered
<1> QED BY <1>1, <1>2, <1>3 DEF KeyInv

LEMMA ClockInvInit == Init => ClockInv
  BY DEF Init, Ended, ClockInv, StampedByNow, SealedUnderRow, VerifierWaits, Packets

(* No packet is added: the bound stays.                                    *)
LEMMA BoundedKept ==
    ASSUME Bounded, Packets' \subseteq Packets
    PROVE  Bounded'
  BY DEF Bounded

-------------------------------------------------------------------------------
(* KeyInv through each handler step.                                       *)
LEMMA RequestKeyInv ==
    ASSUME KeyInv, NEW op \in {"provision", "rotate"}, Request(op)
    PROVE  KeyInv'
<1> PICK k \in Keys \ minted :
        /\ minted' = minted \cup {k}
        /\ handlers' = handlers \cup {[op |-> op, key |-> k, step |-> "sql"]}
  BY DEF Request
<1> DEFINE new == [op |-> op, key |-> k, step |-> "sql"]
<1>1. /\ board' = [board EXCEPT !.runs = FALSE]
      /\ serial' = (serial /\ handlers = {})
      /\ UNCHANGED <<now, db, ring, cache, ingest, air, verifier>>
  BY DEF Request
<1>2. TypeOK'
  <2>1. minted' \subseteq Keys /\ serial' \in BOOLEAN
    BY <1>1 DEF KeyInv, TypeOK
  <2>2. handlers' \subseteq [op : {"provision", "rotate"}, key : Keys, step : {"sql", "cache"}]
    BY DEF KeyInv, TypeOK
  <2>3. board' \in [key : Keys \cup {NoKey}, runs : BOOLEAN]
    BY <1>1 DEF KeyInv, TypeOK
  <2> HIDE DEF new
  <2> QED BY <1>1, <2>1, <2>2, <2>3 DEF KeyInv, TypeOK, db
<1>3. Bounded'
  BY <1>1, BoundedKept DEF KeyInv, Packets, db
<1>4. /\ board'.key = board.key /\ ~board'.runs
      /\ cache' = cache /\ row' = row /\ ring' = ring
      /\ Opened(ring)' = Opened(ring)
  BY <1>1 DEF KeyInv, TypeOK, db, Opened, Registered
<1>5. k # NoKey /\ k \notin minted
  BY RegistryAssumption
<1>6. FreshKeys'
  <2>1. k \notin {cache, row.key, board.key} /\ \A h \in handlers : h.key # k
    BY <1>5 DEF KeyInv, FreshKeys
  <2> QED BY <1>4, <2>1 DEF KeyInv, FreshKeys
<1>7. OneAtATime'
  <2> SUFFICES ASSUME serial'
               PROVE  /\ \A g, h \in handlers' : g = h
                      /\ \A h \in handlers' : ~board'.runs /\ h.step = "sql"
                      /\ cache' = Opened(ring)' /\ board'.key = row'.key
    BY DEF OneAtATime
  <2>1. serial /\ handlers = {} /\ handlers' = {new}
    BY <1>1 DEF KeyInv, TypeOK
  <2>2. cache = Opened(ring) /\ board.key = row.key
    BY <2>1 DEF KeyInv, OneAtATime
  <2> QED BY <1>4, <2>1, <2>2
<1> QED BY <1>2, <1>3, <1>6, <1>7 DEF KeyInv

LEMMA CommitRowKeyInv ==
    ASSUME KeyInv, NEW h \in handlers, CommitRow(h)
    PROVE  KeyInv'
<1> DEFINE done == [h EXCEPT !.step = "cache"]
<1>1. /\ h.step = "sql"
      /\ row' = [key |-> h.key, wrap |-> Seal(ring), valid_from |-> now]
      /\ handlers' = (handlers \ {h}) \cup {done}
      /\ UNCHANGED <<now, readings, ring, cache, ingest, board, air, verifier, minted, serial>>
  BY DEF CommitRow, Without, history
<1>2. h \in [op : {"provision", "rotate"}, key : Keys, step : {"sql", "cache"}]
  BY DEF KeyInv, TypeOK
<1>3. TypeOK'
  BY <1>1, <1>2, SealOpens DEF KeyInv, TypeOK
<1>4. Bounded'
  BY <1>1, BoundedKept DEF KeyInv, Packets
<1>5. /\ done.key = h.key /\ done.step = "cache" /\ row'.key = h.key
      /\ Opened(ring)' = h.key
  <2>1. ring' \in Rings /\ row'.wrap = Seal(ring')
    BY <1>1 DEF KeyInv, TypeOK
  <2>2. h.key # NoKey
    BY <1>2, RegistryAssumption
  <2> QED BY <1>1, <1>2, <2>1, <2>2, SealOpens DEF Opened, Registered
<1>6. FreshKeys'
  <2>1. h.key \in minted /\ \A g \in handlers : g.key = h.key => g = h
    BY DEF KeyInv, FreshKeys
  <2>2. {cache', row'.key, board'.key} \subseteq minted' \cup {NoKey}
    BY <1>1, <1>5, <2>1 DEF KeyInv, FreshKeys
  <2>3. ASSUME NEW g \in handlers'
        PROVE  /\ g.key \in minted'
               /\ g.step = "sql" => g.key \notin {cache', row'.key, board'.key}
               /\ \A f \in handlers' : f.key = g.key => f = g
    <3> HIDE DEF done
    <3>1. CASE g = done
      BY <1>1, <1>5, <2>1, <3>1 DEF KeyInv, FreshKeys
    <3>2. CASE g \in handlers /\ g # h
      BY <1>1, <1>5, <2>1, <3>2 DEF KeyInv, FreshKeys
    <3> QED BY <1>1, <3>1, <3>2
  <2>4. board'.runs => board'.key # NoKey
    BY <1>1 DEF KeyInv, FreshKeys
  <2> QED BY <2>2, <2>3, <2>4 DEF FreshKeys
<1>7. OneAtATime'
  <2> SUFFICES ASSUME serial' PROVE OneAtATime'
    BY DEF OneAtATime
  <2>1. handlers = {h}
    BY <1>1 DEF KeyInv, OneAtATime
  <2>2. handlers' = {done} /\ ~board'.runs
    BY <1>1, <2>1 DEF KeyInv, OneAtATime
  <2> QED BY <1>5, <2>2 DEF OneAtATime
<1> QED BY <1>3, <1>4, <1>6, <1>7 DEF KeyInv

LEMMA RefuseKeyInv ==
    ASSUME KeyInv, NEW h \in handlers, Refuse(h)
    PROVE  KeyInv'
<1>1. /\ h.step = "sql"
      /\ handlers' = handlers \ {h}
      /\ minted' = minted \ {h.key}
      /\ board' = [board EXCEPT !.runs = board.key # NoKey]
      /\ UNCHANGED <<now, row, readings, ring, cache, ingest, air, verifier, serial>>
  BY DEF Refuse, Without, Resumed, db
<1>2. TypeOK'
  BY <1>1 DEF KeyInv, TypeOK
<1>3. Bounded'
  BY <1>1, BoundedKept DEF KeyInv, Packets
<1>4. board'.key = board.key /\ board'.runs = (board.key # NoKey)
  BY <1>1 DEF KeyInv, TypeOK
<1>5. FreshKeys'
  BY <1>1, <1>4 DEF KeyInv, FreshKeys
<1>6. OneAtATime'
  <2> SUFFICES ASSUME serial' PROVE OneAtATime'
    BY DEF OneAtATime
  <2>1. handlers = {h} /\ cache = Opened(ring) /\ board.key = row.key
    BY <1>1 DEF KeyInv, OneAtATime
  <2>2. handlers' = {} /\ Opened(ring)' = Opened(ring)
    BY <1>1, <2>1 DEF Opened, Registered
  <2> QED BY <1>1, <1>4, <2>1, <2>2 DEF OneAtATime
<1> QED BY <1>2, <1>3, <1>5, <1>6 DEF KeyInv

LEMMA WriteCacheKeyInv ==
    ASSUME KeyInv, NEW h \in handlers, WriteCache(h)
    PROVE  KeyInv'
<1>1. /\ h.step = "cache"
      /\ cache' = h.key
      /\ handlers' = handlers \ {h}
      /\ board' = [key |-> h.key, runs |-> TRUE]
      /\ UNCHANGED <<now, row, readings, ring, ingest, air, verifier, minted, serial>>
  BY DEF WriteCache, Without, db, history
<1>2. h \in [op : {"provision", "rotate"}, key : Keys, step : {"sql", "cache"}]
  BY DEF KeyInv, TypeOK
<1>3. TypeOK'
  BY <1>1, <1>2 DEF KeyInv, TypeOK
<1>4. Bounded'
  BY <1>1, BoundedKept DEF KeyInv, Packets
<1>5. board'.key = h.key /\ h.key # NoKey
  BY <1>1, <1>2, RegistryAssumption
<1>6. FreshKeys'
  BY <1>1, <1>5 DEF KeyInv, FreshKeys
<1>7. OneAtATime'
  <2> SUFFICES ASSUME serial' PROVE OneAtATime'
    BY DEF OneAtATime
  <2>1. handlers = {h} /\ row.key = h.key /\ Opened(ring) = h.key
    BY <1>1 DEF KeyInv, OneAtATime
  <2>2. handlers' = {} /\ Opened(ring)' = Opened(ring)
    BY <1>1, <2>1 DEF Opened, Registered
  <2> QED BY <1>1, <1>5, <2>1, <2>2 DEF OneAtATime
<1> QED BY <1>3, <1>4, <1>6, <1>7 DEF KeyInv

LEMMA DropKeyInv ==
    ASSUME KeyInv, NEW h \in handlers, Drop(h)
    PROVE  KeyInv'
<1>1. /\ handlers' = handlers \ {h}
      /\ board' = [board EXCEPT !.runs = board.key # NoKey]
      /\ serial' = FALSE
      /\ UNCHANGED <<now, row, readings, ring, cache, ingest, air, verifier, minted>>
  BY DEF Drop, Without, Resumed, db
<1>2. TypeOK'
  BY <1>1 DEF KeyInv, TypeOK
<1>3. Bounded'
  BY <1>1, BoundedKept DEF KeyInv, Packets
<1>4. board'.key = board.key /\ board'.runs = (board.key # NoKey)
  BY <1>1 DEF KeyInv, TypeOK
<1>5. FreshKeys' /\ OneAtATime'
  BY <1>1, <1>4 DEF KeyInv, FreshKeys, OneAtATime
<1> QED BY <1>2, <1>3, <1>5 DEF KeyInv

LEMMA RestartKeyInv ==
    ASSUME KeyInv, Restart
    PROVE  KeyInv'
<1>1. /\ ring' \in Rings /\ cache' = Opened(ring')
      /\ handlers' = {} /\ ingest' = {}
      /\ board' = IF handlers = {} THEN board ELSE [board EXCEPT !.runs = board.key # NoKey]
      /\ serial' = (serial /\ handlers = {})
      /\ UNCHANGED <<now, row, readings, air, verifier, minted>>
  BY DEF Restart, Resumed, db
<1>2. TypeOK'
  BY <1>1 DEF KeyInv, TypeOK, Opened
<1>3. Bounded'
  BY <1>1, BoundedKept DEF KeyInv, Packets
<1>4. /\ board'.key = board.key /\ (board'.runs => board.key # NoKey)
      /\ cache' \in {row.key, NoKey} /\ cache' = Opened(ring)'
  BY <1>1 DEF KeyInv, TypeOK, FreshKeys, Opened, Registered
<1>5. FreshKeys'
  BY <1>1, <1>4 DEF KeyInv, FreshKeys
<1>6. OneAtATime'
  <2> SUFFICES ASSUME serial' PROVE OneAtATime'
    BY DEF OneAtATime
  <2>1. serial /\ handlers = {}
    BY <1>1 DEF KeyInv, TypeOK
  <2> QED BY <1>1, <1>4, <2>1 DEF KeyInv, OneAtATime
<1> QED BY <1>2, <1>3, <1>5, <1>6 DEF KeyInv

-------------------------------------------------------------------------------
(* KeyInv through the steps that touch no handler.                         *)
Bystander == Tick \/ Transmit \/ Insert \/ (\E packet \in air : Open(packet))
             \/ StartVerify \/ PollReported \/ GiveUp

LEMMA TransmitAdds ==
    ASSUME KeyInv, Transmit
    PROVE  \E skew \in Skews :
               /\ air' = air \cup {[time |-> now + skew, key |-> board.key]}
               /\ [time |-> now + skew, key |-> board.key] \in Packet
<1>1. PICK skew \in Skews : air' = air \cup {[time |-> now + skew, key |-> board.key]}
  BY DEF Transmit
<1>2. board.key \in Keys
  BY DEF KeyInv, TypeOK, FreshKeys, Transmit
<1>3. now + skew \in Nat
  BY RegistryAssumption DEF KeyInv, TypeOK
<1> QED BY <1>1, <1>2, <1>3 DEF Packet

(* However a wait ends without a reading, it claims nothing.               *)
LEMMA GivenUp ==
    ASSUME GiveUp
    PROVE  \E says \in {"undecryptable", "timed_out", "unreachable", "refused"} :
               verifier' = [step |-> says, baseline |-> 0, proof |-> TRUE]
<1>1. PICK result \in DevicePolls : \E says \in WaitError(result) : verifier' = Ended(says)
  BY DEF GiveUp
<1>2. PICK says \in WaitError(result) : verifier' = Ended(says)
  BY <1>1
<1>3. says \in {"undecryptable", "timed_out", "unreachable", "refused"}
  BY DEF WaitError
<1> QED BY <1>2, <1>3 DEF Ended

LEMMA BystanderKeyInv ==
    ASSUME KeyInv, Bystander
    PROVE  KeyInv'
<1>1. UNCHANGED <<row, ring, cache, handlers, board, minted, serial>>
  BY DEF Bystander, Tick, Transmit, Insert, Open, StartVerify, PollReported, GiveUp,
         db, api, history
<1>2. FreshKeys' /\ OneAtATime'
  BY <1>1 DEF KeyInv, FreshKeys, OneAtATime, Opened, Registered
<1>3. CASE Tick
  <2>1. TypeOK'
    BY <1>3 DEF KeyInv, TypeOK, Tick, db, api, history
  <2>2. Bounded'
    BY <1>3, BoundedKept DEF KeyInv, Packets, Tick, db, api
  <2> QED BY <1>2, <2>1, <2>2 DEF KeyInv
<1>4. CASE Transmit
  <2>1. PICK skew \in Skews :
            /\ air' = air \cup {[time |-> now + skew, key |-> board.key]}
            /\ [time |-> now + skew, key |-> board.key] \in Packet
    BY <1>4, TransmitAdds
  <2>2. UNCHANGED <<now, readings, ingest, verifier>>
    BY <1>4 DEF Transmit, db, api
  <2>3. TypeOK'
    BY <1>1, <2>1, <2>2 DEF KeyInv, TypeOK
  <2>4. Bounded'
    <3> DEFINE t == now + skew
    <3>1. t \in Nat
      BY RegistryAssumption DEF KeyInv, TypeOK
    <3>2. PICK b \in Nat : \A p \in Packets : p.time <= b
      BY DEF KeyInv, Bounded
    <3>3. \A p \in Packets' : p \in Packets \/ p.time = t
      BY <2>1, <2>2 DEF Packets
    <3>4. \A p \in Packets : p.time \in Nat
      BY DEF Packets, KeyInv, TypeOK, Packet
    <3> HIDE DEF t
    <3>5. b + t \in Nat /\ \A p \in Packets' : p.time <= b + t
      BY <3>1, <3>2, <3>3, <3>4
    <3> QED BY <3>5 DEF Bounded
  <2> QED BY <1>2, <2>3, <2>4 DEF KeyInv
<1>5. CASE Insert
  <2>1. /\ ingest' = {} /\ readings' \in {readings, readings \cup ingest}
        /\ UNCHANGED <<now, air>>
        /\ verifier' \in {verifier, [verifier EXCEPT !.proof = TRUE]}
    BY <1>5 DEF Insert
  <2>2. TypeOK'
    BY <1>1, <2>1 DEF KeyInv, TypeOK
  <2>3. Bounded'
    BY <2>1, BoundedKept DEF KeyInv, Packets
  <2> QED BY <1>2, <2>2, <2>3 DEF KeyInv
<1>6. CASE \E packet \in air : Open(packet)
  <2>1. /\ UNCHANGED <<now, readings, verifier>>
        /\ air' \subseteq air /\ ingest' \subseteq air
    BY <1>6 DEF Open, db
  <2>2. TypeOK'
    BY <1>1, <2>1 DEF KeyInv, TypeOK
  <2>3. Bounded'
    BY <2>1, BoundedKept DEF KeyInv, Packets
  <2> QED BY <1>2, <2>2, <2>3 DEF KeyInv
<1>7. CASE StartVerify \/ PollReported \/ GiveUp
  <2>1. UNCHANGED <<now, readings, ingest, air>>
    BY <1>7 DEF StartVerify, PollReported, GiveUp, db, api
  <2>2. LastSeen \in Nat
    BY LastSeenLatest DEF KeyInv
  <2>3. verifier' \in [step : VerifySteps, baseline : Nat, proof : BOOLEAN]
    <3>1. verifier \in [step : VerifySteps, baseline : Nat, proof : BOOLEAN]
      BY DEF KeyInv, TypeOK
    <3>2. CASE StartVerify
      BY <2>2, <3>2 DEF StartVerify, Ended, VerifySteps
    <3>3. CASE PollReported
      BY <3>1, <3>3 DEF PollReported, VerifySteps
    <3>4. CASE GiveUp
      <4>1. PICK says \in {"undecryptable", "timed_out", "unreachable", "refused"} :
                verifier' = [step |-> says, baseline |-> 0, proof |-> TRUE]
        BY <3>4, GivenUp
      <4>2. says \in VerifySteps
        BY DEF VerifySteps
      <4> QED BY <4>1, <4>2
    <3> QED BY <1>7, <3>2, <3>3, <3>4
  <2>4. TypeOK'
    BY <1>1, <2>1, <2>3 DEF KeyInv, TypeOK
  <2>5. Bounded'
    BY <2>1, BoundedKept DEF KeyInv, Packets
  <2> QED BY <1>2, <2>4, <2>5 DEF KeyInv
<1> QED BY <1>3, <1>4, <1>5, <1>6, <1>7 DEF Bystander

LEMMA KeyInvNext == KeyInv /\ [Next]_vars => KeyInv'
<1> SUFFICES ASSUME KeyInv, [Next]_vars PROVE KeyInv'
  OBVIOUS
<1>1. CASE \E op \in {"provision", "rotate"} : Request(op)
  BY <1>1, RequestKeyInv
<1>2. CASE \E h \in handlers : CommitRow(h) \/ Refuse(h) \/ WriteCache(h) \/ Drop(h)
  BY <1>2, CommitRowKeyInv, RefuseKeyInv, WriteCacheKeyInv, DropKeyInv
<1>3. CASE Restart
  BY <1>3, RestartKeyInv
<1>4. CASE Bystander
  BY <1>4, BystanderKeyInv
<1>5. CASE UNCHANGED vars
  BY <1>5 DEF KeyInv, TypeOK, Bounded, FreshKeys, OneAtATime, Packets, Opened, Registered,
              vars, db, api, history
<1> QED BY <1>1, <1>2, <1>3, <1>4, <1>5 DEF Next, Bystander

-------------------------------------------------------------------------------
(* ClockInv, given that the clocks agree.                                  *)
LEMMA CommitRowClockInv ==
    ASSUME KeyInv, ClockInv, NEW h \in handlers, CommitRow(h)
    PROVE  ClockInv'
<1>1. /\ row' = [key |-> h.key, wrap |-> Seal(ring), valid_from |-> now]
      /\ UNCHANGED <<now, readings, ingest, air, verifier, serial>>
  BY DEF CommitRow, history
<1>2. row'.valid_from = now /\ now \in Nat
  BY <1>1 DEF KeyInv, TypeOK
<1>3. \A p \in Packets : p.time <= now /\ p.time \in Nat
  BY DEF ClockInv, StampedByNow, KeyInv, TypeOK, Packets, Packet
<1>4. Packets' = Packets
  BY <1>1 DEF Packets
<1>5. StampedByNow' /\ SealedUnderRow'
  BY <1>1, <1>2, <1>3, <1>4 DEF StampedByNow, SealedUnderRow
<1>6. SeenTimes' = {}
  BY <1>1, <1>2, <1>3 DEF SeenTimes, Packets
<1>7. VerifierWaits'
  BY <1>1, <1>6 DEF ClockInv, VerifierWaits
<1> QED BY <1>5, <1>7 DEF ClockInv

(* A step that writes neither the row, the readings nor the verifier, adds *)
(* no packet and ends no overlap.                                          *)
LEMMA ClockInvKept ==
    ASSUME ClockInv, KeyInv, KeyInv', UNCHANGED <<row, readings, verifier>>,
           now' \in {now, now + 1}, serial' => serial,
           Packets' \subseteq Packets
    PROVE  ClockInv'
<1>1. \A p \in Packets : p.time \in Nat
  BY DEF KeyInv, TypeOK, Packets, Packet
<1>2. now \in Nat /\ row.valid_from \in Nat
  BY DEF KeyInv, TypeOK
<1>3. StampedByNow'
  BY <1>1, <1>2 DEF ClockInv, StampedByNow
<1>4. SealedUnderRow'
  BY DEF ClockInv, SealedUnderRow
<1>5. VerifierWaits'
  BY DEF ClockInv, VerifierWaits, SeenTimes
<1> QED BY <1>3, <1>4, <1>5 DEF ClockInv

LEMMA TransmitClockInv ==
    ASSUME KeyInv, ClockInv, SameClock, Transmit
    PROVE  ClockInv'
<1>1. PICK skew \in Skews :
          /\ air' = air \cup {[time |-> now + skew, key |-> board.key]}
          /\ [time |-> now + skew, key |-> board.key] \in Packet
  BY TransmitAdds
<1>2. UNCHANGED <<now, row, readings, ingest, verifier, serial>>
  BY DEF Transmit, db, api, history
<1>3. now \in Nat /\ skew = 0
  BY <1>1 DEF KeyInv, TypeOK, SameClock
<1>4. \A p \in Packets' : p \in Packets \/ (p.time = now /\ p.key = board.key)
  BY <1>1, <1>2, <1>3 DEF Packets
<1>5. StampedByNow'
  BY <1>2, <1>3, <1>4 DEF ClockInv, StampedByNow
<1>6. serial => board.key = row.key
  BY DEF KeyInv, OneAtATime, Transmit
<1>7. SealedUnderRow'
  BY <1>2, <1>4, <1>6 DEF ClockInv, SealedUnderRow
<1>8. VerifierWaits'
  BY <1>2 DEF ClockInv, VerifierWaits, SeenTimes
<1> QED BY <1>5, <1>7, <1>8 DEF ClockInv

(* A reading that is not under the row's key is too old to be seen.        *)
LEMMA InsertClockInv ==
    ASSUME KeyInv, ClockInv, Insert
    PROVE  ClockInv'
<1>1. /\ ingest' = {} /\ readings' \in {readings, readings \cup ingest}
      /\ UNCHANGED <<now, row, air, serial>>
  BY DEF Insert, history
<1>2. Packets' \subseteq Packets
  BY <1>1 DEF Packets
<1>3. StampedByNow' /\ SealedUnderRow'
  BY <1>1, <1>2 DEF ClockInv, StampedByNow, SealedUnderRow
<1>4. VerifierWaits'
  <2> SUFFICES ASSUME serial', ~verifier'.proof
               PROVE  /\ verifier'.step = "waiting"
                      /\ \A t \in SeenTimes' : t <= verifier'.baseline
    BY DEF VerifierWaits
  <2>1. verifier' \in {verifier, [verifier EXCEPT !.proof = TRUE]}
    BY DEF Insert
  <2>2. [verifier EXCEPT !.proof = TRUE].proof
    BY DEF KeyInv, TypeOK
  <2>3. verifier' = verifier /\ serial /\ ~verifier.proof
    BY <1>1, <2>1, <2>2
  <2>4. verifier.step = "waiting" /\ readings' # readings => \A r \in ingest : r.key # row.key
    <3> SUFFICES ASSUME verifier.step = "waiting", readings' # readings,
                        \E r \in ingest : r.key = row.key
                 PROVE  FALSE
      OBVIOUS
    <3>1. verifier' = [verifier EXCEPT !.proof = TRUE]
      BY DEF Insert
    <3> QED BY <2>2, <2>3, <3>1
  <2>5. verifier.step = "waiting" => SeenTimes' \subseteq SeenTimes
    <3> SUFFICES ASSUME verifier.step = "waiting", NEW r \in readings', r.time > row.valid_from
                 PROVE  r \in readings
      BY <1>1 DEF SeenTimes
    <3>1. r \in ingest => r.key = row.key
      BY <2>3 DEF ClockInv, SealedUnderRow, Packets
    <3> QED BY <1>1, <2>4, <3>1
  <2> QED BY <2>3, <2>5 DEF ClockInv, VerifierWaits
<1> QED BY <1>3, <1>4 DEF ClockInv

(* The verifier starts from the latest time seen, and reports a later one. *)
LEMMA VerifierClockInv ==
    ASSUME KeyInv, ClockInv, StartVerify \/ PollReported \/ GiveUp
    PROVE  ClockInv'
<1>1. UNCHANGED <<now, row, readings, ingest, air, serial>>
  BY DEF StartVerify, PollReported, GiveUp, db, api, history
<1>2. StampedByNow' /\ SealedUnderRow'
  BY <1>1 DEF ClockInv, StampedByNow, SealedUnderRow, Packets
<1>3. SeenTimes' = SeenTimes
  BY <1>1 DEF SeenTimes
<1>4. /\ SeenTimes \subseteq Nat
      /\ LastSeen \in Nat
      /\ SeenTimes # {} => LastSeen \in SeenTimes
      /\ \A t \in SeenTimes : t <= LastSeen /\ 0 < t
  BY LastSeenLatest DEF KeyInv
<1>5. verifier.baseline \in Nat
  BY DEF KeyInv, TypeOK
<1>6. CASE StartVerify
  <2>1. \/ verifier' = [step |-> "waiting", baseline |-> LastSeen, proof |-> FALSE]
        \/ verifier' = [step |-> "undecryptable", baseline |-> 0, proof |-> TRUE]
    BY <1>6 DEF StartVerify, Ended
  <2> QED BY <1>2, <1>3, <1>4, <2>1 DEF ClockInv, VerifierWaits
<1>7. CASE PollReported
  <2>1. serial => verifier.proof
    <3> SUFFICES ASSUME serial, ~verifier.proof PROVE FALSE
      OBVIOUS
    <3>1. verifier.step = "waiting" /\ Assess(verifier.baseline, LastSeen)
      BY <1>7 DEF PollReported
    <3>2. LastSeen # 0 /\ (verifier.baseline = 0 \/ LastSeen > verifier.baseline)
      BY <3>1 DEF Assess
    <3>3. LastSeen <= verifier.baseline
      <4>1. CASE SeenTimes = {}
        BY <3>2, <4>1 DEF LastSeen
      <4>2. CASE SeenTimes # {}
        BY <1>4, <3>1, <4>2 DEF ClockInv, VerifierWaits
      <4> QED BY <4>1, <4>2
    <3> QED BY <1>4, <1>5, <3>2, <3>3
  <2>2. verifier'.proof = verifier.proof
    BY <1>7 DEF PollReported, KeyInv, TypeOK
  <2>3. VerifierWaits'
    BY <1>1, <2>1, <2>2 DEF VerifierWaits
  <2> QED BY <1>2, <2>3 DEF ClockInv
<1>8. CASE GiveUp
  <2>1. verifier'.proof
    BY <1>8, GivenUp
  <2> QED BY <1>2, <2>1 DEF ClockInv, VerifierWaits
<1> QED BY <1>6, <1>7, <1>8

LEMMA ClockInvNext ==
    ASSUME SameClock, KeyInv, KeyInv', ClockInv, [Next]_vars
    PROVE  ClockInv'
<1>1. CASE \E h \in handlers : CommitRow(h)
  BY <1>1, CommitRowClockInv
<1>2. CASE Transmit
  BY <1>2, TransmitClockInv
<1>3. CASE Insert
  BY <1>3, InsertClockInv
<1>4. CASE StartVerify \/ PollReported \/ GiveUp
  BY <1>4, VerifierClockInv
<1>5. CASE \/ \E op \in {"provision", "rotate"} : Request(op)
           \/ \E h \in handlers : Refuse(h) \/ WriteCache(h) \/ Drop(h)
  <2>1. UNCHANGED <<now, row, readings, verifier, ingest, air>> /\ (serial' => serial)
    BY <1>5 DEF Request, Refuse, WriteCache, Drop, db, history, KeyInv, TypeOK
  <2> QED BY <2>1, ClockInvKept DEF Packets
<1>6. CASE Restart
  <2>1. /\ UNCHANGED <<now, row, readings, verifier, air>> /\ ingest' = {}
        /\ serial' => serial
    BY <1>6 DEF Restart, db, KeyInv, TypeOK
  <2> QED BY <2>1, ClockInvKept DEF Packets
<1>7. CASE \E packet \in air : Open(packet)
  <2>1. /\ UNCHANGED <<now, row, readings, verifier, serial>>
        /\ air' \subseteq air /\ ingest' \subseteq air
    BY <1>7 DEF Open, db, history
  <2> QED BY <2>1, ClockInvKept DEF Packets
<1>8. CASE Tick \/ UNCHANGED vars
  <2>1. /\ UNCHANGED <<row, readings, verifier, serial, air, ingest>>
        /\ now' \in {now, now + 1}
    BY <1>8 DEF Tick, vars, db, api, history
  <2> QED BY <2>1, ClockInvKept DEF Packets
<1> QED BY <1>1, <1>2, <1>3, <1>4, <1>5, <1>6, <1>7, <1>8 DEF Next

-------------------------------------------------------------------------------
(* The state has its types in every reachable state: what the activity     *)
(* query answers is the time of a reading or nothing, however many         *)
(* readings and keys there are.                                            *)
THEOREM TypeCorrect == Spec => []TypeOK
<1>1. KeyInv => TypeOK
  BY DEF KeyInv
<1> QED BY <1>1, KeyInvInit, KeyInvNext, PTL DEF Spec

(* Neither the cache nor the row ever holds a key whose statement has not  *)
(* committed (`provision`, `rotate_key`), with any number of handlers at   *)
(* once, dropped, answered or cut off by a restart.                        *)
THEOREM CommitsFirst == Spec => []CacheHoldsCommitted
<1>1. KeyInv => CacheHoldsCommitted
  BY DEF KeyInv, FreshKeys, CacheHoldsCommitted, Uncommitted
<1> QED BY <1>1, KeyInvInit, KeyInvNext, PTL DEF Spec

(* While every mint is answered before the next is asked for, the cached   *)
(* key is what opening the row's gives whenever no handler runs, so the    *)
(* status of the summary says what ingestion can decrypt, whichever KEKs   *)
(* the API was started with since (`classify`, `handle_envelope`).         *)
THEOREM AnsweredAgree == Spec => []AnsweredMeansDecryptable
<1>1. KeyInv => AnsweredMeansDecryptable
  BY DEF KeyInv, OneAtATime, AnsweredMeansDecryptable, StatusOkMeansDecryptable
<1> QED BY <1>1, KeyInvInit, KeyInvNext, PTL DEF Spec

(* On one clock and with answered mints, a reading after key_valid_from is *)
(* sealed under the row's key: the last-seen query reports the current key *)
(* only (the `> key_valid_from` of the activity queries).                  *)
THEOREM SeenUnderCurrentKey == SameClock => (Spec => []LastSeenUnderCurrentKey)
<1> SUFFICES ASSUME SameClock PROVE Spec => []LastSeenUnderCurrentKey
  OBVIOUS
<1>1. KeyInv /\ ClockInv => LastSeenUnderCurrentKey
  BY DEF ClockInv, SealedUnderRow, LastSeenUnderCurrentKey, Packets
<1>2. KeyInv /\ ClockInv /\ [Next]_vars => (KeyInv /\ ClockInv)'
  BY KeyInvNext, ClockInvNext
<1> QED BY <1>1, <1>2, KeyInvInit, ClockInvInit, PTL DEF Spec

(* On one clock and with answered mints, a `verify` that ends in           *)
(* "reported" had a reading under the current key stored while it waited   *)
(* (`wait_for_reading`, `assess`).                                         *)
THEOREM ReportedProves == SameClock => (Spec => []VerifyProves)
<1> SUFFICES ASSUME SameClock PROVE Spec => []VerifyProves
  OBVIOUS
<1>1. KeyInv /\ ClockInv => VerifyProves
  BY DEF ClockInv, VerifierWaits, VerifyProves
<1>2. KeyInv /\ ClockInv /\ [Next]_vars => (KeyInv /\ ClockInv)'
  BY KeyInvNext, ClockInvNext
<1> QED BY <1>1, <1>2, KeyInvInit, ClockInvInit, PTL DEF Spec
===============================================================================
