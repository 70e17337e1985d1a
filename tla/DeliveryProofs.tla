---------------------------- MODULE DeliveryProofs ----------------------------
(***************************************************************************)
(* What Delivery keeps, for any gateways, queues, envelopes and faults:    *)
(* the queues stay within their capacity, a receipt is one row, the        *)
(* broker's session lets go of nothing the API has not polled, nothing     *)
(* disappears, and the account of unknown devices is exact.                *)
(***************************************************************************)
EXTENDS Delivery, FiniteSetTheorems, TLAPS

(***************************************************************************)
(* Queues.                                                                 *)
(***************************************************************************)

LEMMA Appended ==
    ASSUME NEW S, NEW s \in Seq(S), NEW e \in S
    PROVE  /\ Append(s, e) \in Seq(S) /\ Len(Append(s, e)) = Len(s) + 1
           /\ Range(Append(s, e)) = Range(s) \cup {e}
           /\ \A i \in 1 .. Len(s) : Append(s, e)[i] = s[i]
           /\ Append(s, e)[Len(s) + 1] = e
<1>1. /\ Append(s, e) \in Seq(S) /\ Len(Append(s, e)) = Len(s) + 1
      /\ \A i \in 1 .. Len(s) : Append(s, e)[i] = s[i]
      /\ Append(s, e)[Len(s) + 1] = e
  OBVIOUS
<1>2. DOMAIN s = 1 .. Len(s) /\ DOMAIN Append(s, e) = 1 .. Len(s) + 1 /\ Len(s) \in Nat
  OBVIOUS
<1>3. 1 .. Len(s) + 1 = 1 .. Len(s) \cup {Len(s) + 1}
  BY <1>2
<1>4. Range(Append(s, e)) = Range(s) \cup {e}
  BY <1>1, <1>2, <1>3 DEF Range
<1> QED
  BY <1>1, <1>4

LEMMA Taken ==
    ASSUME NEW S, NEW s \in Seq(S), s # <<>>
    PROVE  /\ Len(s) \in Nat /\ Len(s) > 0 /\ Head(s) = s[1] /\ Head(s) \in S
           /\ Tail(s) \in Seq(S) /\ Len(Tail(s)) = Len(s) - 1
           /\ Range(s) = Range(Tail(s)) \cup {Head(s)}
           /\ \A i \in 1 .. Len(s) - 1 : Tail(s)[i] = s[i + 1]
<1>1. /\ Len(s) \in Nat /\ Len(s) > 0 /\ Head(s) = s[1] /\ Head(s) \in S
      /\ Tail(s) \in Seq(S) /\ Len(Tail(s)) = Len(s) - 1
      /\ \A i \in 1 .. Len(s) - 1 : Tail(s)[i] = s[i + 1]
  OBVIOUS
<1>2. DOMAIN s = 1 .. Len(s) /\ DOMAIN Tail(s) = 1 .. Len(s) - 1
  BY <1>1
<1>3. Range(s) \subseteq Range(Tail(s)) \cup {Head(s)}
  <2> SUFFICES ASSUME NEW i \in 1 .. Len(s) PROVE s[i] \in Range(Tail(s)) \cup {Head(s)}
    BY <1>2 DEF Range
  <2>1. CASE i = 1
    BY <1>1, <2>1
  <2>2. CASE i # 1
    <3>1. i - 1 \in 1 .. Len(s) - 1 /\ (i - 1) + 1 = i
      BY <1>1, <2>2
    <3>2. Tail(s)[i - 1] = s[i]
      BY <1>1, <3>1
    <3> QED BY <1>2, <3>1, <3>2 DEF Range
  <2> QED BY <2>1, <2>2
<1>4. Range(Tail(s)) \cup {Head(s)} \subseteq Range(s)
  <2>1. \A i \in 1 .. Len(s) - 1 : i + 1 \in 1 .. Len(s)
    BY <1>1
  <2>2. 1 \in 1 .. Len(s)
    BY <1>1
  <2> QED BY <1>1, <1>2, <2>1, <2>2 DEF Range
<1> QED
  BY <1>1, <1>3, <1>4

LEMMA Emptied ==
    ASSUME NEW S
    PROVE  <<>> \in Seq(S) /\ Len(<<>>) = 0 /\ Range(<<>>) = {}
<1>1. <<>> \in Seq(S) /\ Len(<<>>) = 0
  OBVIOUS
<1>2. DOMAIN <<>> = {}
  BY <1>1
<1> QED
  BY <1>1, <1>2 DEF Range

LEMMA InRange ==
    ASSUME NEW S, NEW s \in Seq(S)
    PROVE  /\ Len(s) \in Nat /\ DOMAIN s = 1 .. Len(s) /\ Range(s) \subseteq S
           /\ \A i \in 1 .. Len(s) : s[i] \in Range(s)
           /\ \A e \in Range(s) : \E i \in 1 .. Len(s) : s[i] = e
           /\ s = <<>> <=> Len(s) = 0
<1>1. Len(s) \in Nat /\ DOMAIN s = 1 .. Len(s) /\ \A i \in 1 .. Len(s) : s[i] \in S
  OBVIOUS
<1>2. s = <<>> <=> Len(s) = 0
  OBVIOUS
<1> QED
  BY <1>1, <1>2 DEF Range

-------------------------------------------------------------------------------
(***************************************************************************)
(* Types.                                                                  *)
(***************************************************************************)

Shape ==
    /\ stamped \in [Gateways -> Nat] /\ taken \in [Gateways -> Nat]
    /\ channel \in [Gateways -> Seq(Envelope)]
    /\ requests \in [Gateways -> Seq(Envelope)]
    /\ inflight \in [Gateways -> Seq(Envelope)]
    /\ session \in Seq(Envelope) /\ queue \in Seq(Envelope)
    /\ rows \in Seq(Envelope \ (Unknown \cup Unreadable)) /\ lost \subseteq Envelope
    /\ polled \in Nat

(* One gateway's queues, and the others.                                   *)
Within(g) ==
    /\ stamped[g] <= Receipts[g]
    /\ Len(channel[g]) <= GatewayQueue /\ Len(requests[g]) <= ClientQueue
    /\ taken[g] <= Len(inflight[g])
ApiWithin ==
    /\ Len(session) <= SessionLimit /\ polled <= Len(session)
    /\ Len(queue) <= ApiQueue

Typed == Shape /\ ApiWithin /\ \A g \in Gateways : Within(g)

LEMMA EnvelopeIs ==
    /\ \A g \in Gateways : \A n \in 1 .. Receipts[g] : [gateway |-> g, n |-> n] \in Envelope
    /\ \A e \in Envelope : e.gateway \in Gateways /\ e.n \in Nat /\ e.n <= Receipts[e.gateway]
<1>1. \A g \in Gateways : Receipts[g] \in Nat
  BY CapacityAssumption
<1> QED
  BY <1>1 DEF Envelope

LEMMA Capacities ==
    /\ GatewayQueue \in Nat /\ ClientQueue \in Nat /\ SessionLimit \in Nat /\ ApiQueue \in Nat
    /\ GatewayQueue > 0 /\ ClientQueue > 0 /\ SessionLimit > 0 /\ ApiQueue > 0
    /\ \A g \in Gateways : Receipts[g] \in Nat
  BY CapacityAssumption

LEMMA TypedMeans ==
    ASSUME Typed PROVE TypeOK
<1>1. ASSUME NEW g \in Gateways
      PROVE  /\ stamped[g] \in 0 .. Receipts[g]
             /\ channel[g] \in Seq(Envelope) /\ Len(channel[g]) <= GatewayQueue
             /\ requests[g] \in Seq(Envelope) /\ Len(requests[g]) <= ClientQueue
             /\ inflight[g] \in Seq(Envelope) /\ taken[g] \in 0 .. Len(inflight[g])
  <2>1. stamped[g] \in Nat /\ taken[g] \in Nat /\ Receipts[g] \in Nat
    BY Capacities DEF Typed, Shape
  <2>2. inflight[g] \in Seq(Envelope) /\ Len(inflight[g]) \in Nat
    BY DEF Typed, Shape
  <2> QED
    BY <2>1, <2>2 DEF Typed, Shape, Within
<1>2. polled \in 0 .. Len(session)
  BY DEF Typed, Shape, ApiWithin
<1> QED
  BY <1>1, <1>2 DEF TypeOK, Typed, Shape, ApiWithin

LEMMA InitTyped == ASSUME Init PROVE Typed
<1>1. <<>> \in Seq(Envelope) /\ Len(<<>>) = 0 /\ <<>> \in Seq(Envelope \ (Unknown \cup Unreadable))
  BY Emptied
<1>2. Shape
  BY <1>1 DEF Init, Shape
<1>3. ApiWithin
  BY <1>1, Capacities DEF Init, ApiWithin
<1>4. ASSUME NEW g \in Gateways PROVE Within(g)
  BY <1>1, Capacities DEF Init, Within
<1> QED
  BY <1>2, <1>3, <1>4 DEF Typed

LEMMA DecodedTyped == ASSUME Typed, NEW g \in Gateways, Decoded(g) PROVE Typed'
<1> DEFINE e == [gateway |-> g, n |-> stamped[g] + 1]
<1>1. /\ stamped[g] \in Nat /\ stamped[g] + 1 <= Receipts[g] /\ Len(channel[g]) + 1 <= GatewayQueue
      /\ channel[g] \in Seq(Envelope) /\ Len(channel[g]) \in Nat
  BY Capacities DEF Decoded, Typed, Shape
<1>2. stamped' = [stamped EXCEPT ![g] = stamped[g] + 1]
  BY DEF Decoded
<1>3. channel' = [channel EXCEPT ![g] = Append(channel[g], e)]
  BY <1>1, <1>2 DEF Decoded, Typed, Shape
<1>4. e \in Envelope
  BY <1>1, EnvelopeIs, Capacities
<1> HIDE DEF e
<1>5. Append(channel[g], e) \in Seq(Envelope) /\ Len(Append(channel[g], e)) <= GatewayQueue
  BY <1>1, <1>4, Appended
<1>6. UNCHANGED <<requests, inflight, taken, session, polled, queue, rows, lost>>
  BY DEF Decoded, uplink, downlink
<1>7. Shape'
  BY <1>1, <1>2, <1>3, <1>5, <1>6 DEF Typed, Shape
<1>8. ApiWithin'
  BY <1>6 DEF Typed, ApiWithin
<1>9. ASSUME NEW h \in Gateways PROVE Within(h)'
  <2>1. Within(h)
    BY DEF Typed
  <2> QED BY <1>1, <1>2, <1>3, <1>5, <1>6, <2>1 DEF Within, Typed, Shape
<1> QED
  BY <1>7, <1>8, <1>9 DEF Typed

LEMMA PublishTyped == ASSUME Typed, NEW g \in Gateways, Publish(g) PROVE Typed'
<1>1. channel[g] \in Seq(Envelope) /\ requests[g] \in Seq(Envelope) /\ Len(requests[g]) \in Nat
  BY DEF Typed, Shape
<1>2. /\ Head(channel[g]) \in Envelope /\ Tail(channel[g]) \in Seq(Envelope)
      /\ Len(Tail(channel[g])) <= GatewayQueue
  <2>1. channel[g] # <<>> /\ Len(channel[g]) <= GatewayQueue
    BY DEF Publish, Typed, Within
  <2> QED BY <1>1, <2>1, Taken, Capacities
<1>3. /\ Append(requests[g], Head(channel[g])) \in Seq(Envelope)
      /\ Len(Append(requests[g], Head(channel[g]))) <= ClientQueue
  <2>1. Len(requests[g]) + 1 <= ClientQueue
    BY <1>1, Capacities DEF Publish
  <2> QED BY <1>1, <1>2, <2>1, Appended
<1>4. /\ requests' = [requests EXCEPT ![g] = Append(requests[g], Head(channel[g]))]
      /\ channel' = [channel EXCEPT ![g] = Tail(channel[g])]
      /\ UNCHANGED <<stamped, inflight, taken, session, polled, queue, rows, lost>>
  BY DEF Publish, uplink, downlink
<1>5. Shape'
  BY <1>2, <1>3, <1>4 DEF Typed, Shape
<1>6. ApiWithin'
  BY <1>4 DEF Typed, ApiWithin
<1>7. ASSUME NEW h \in Gateways PROVE Within(h)'
  <2>1. Within(h)
    BY DEF Typed
  <2> QED BY <1>2, <1>3, <1>4, <2>1 DEF Within, Typed, Shape
<1> QED
  BY <1>5, <1>6, <1>7 DEF Typed

LEMMA SendTyped == ASSUME Typed, NEW g \in Gateways, Send(g) PROVE Typed'
<1>1. /\ requests[g] \in Seq(Envelope) /\ requests[g] # <<>> /\ Len(requests[g]) <= ClientQueue
      /\ inflight[g] \in Seq(Envelope) /\ taken[g] \in Nat /\ taken[g] <= Len(inflight[g])
      /\ Len(inflight[g]) \in Nat
  BY DEF Typed, Shape, Within, Send
<1>2. /\ Head(requests[g]) \in Envelope /\ Tail(requests[g]) \in Seq(Envelope)
      /\ Len(Tail(requests[g])) <= ClientQueue
  BY <1>1, Taken, Capacities
<1>3. /\ Append(inflight[g], Head(requests[g])) \in Seq(Envelope)
      /\ taken[g] <= Len(Append(inflight[g], Head(requests[g])))
  BY <1>1, <1>2, Appended
<1>4. /\ inflight' = [inflight EXCEPT ![g] = Append(inflight[g], Head(requests[g]))]
      /\ requests' = [requests EXCEPT ![g] = Tail(requests[g])]
      /\ UNCHANGED <<stamped, channel, taken, session, polled, queue, rows, lost>>
  BY DEF Send, downlink
<1>5. Shape'
  BY <1>2, <1>3, <1>4 DEF Typed, Shape
<1>6. ApiWithin'
  BY <1>4 DEF Typed, ApiWithin
<1>7. ASSUME NEW h \in Gateways PROVE Within(h)'
  <2>1. Within(h)
    BY DEF Typed
  <2> QED BY <1>2, <1>3, <1>4, <2>1 DEF Within, Typed, Shape
<1> QED
  BY <1>5, <1>6, <1>7 DEF Typed

LEMMA BrokerTakesTyped == ASSUME Typed, NEW g \in Gateways, BrokerTakes(g) PROVE Typed'
<1> DEFINE e == inflight[g][taken[g] + 1]
<1>1. /\ inflight[g] \in Seq(Envelope) /\ Len(inflight[g]) \in Nat /\ taken[g] \in Nat
      /\ taken[g] + 1 <= Len(inflight[g])
  BY DEF Typed, Shape, BrokerTakes
<1>2. e \in Envelope
  BY <1>1
<1>3. /\ taken' = [taken EXCEPT ![g] = taken[g] + 1]
      /\ UNCHANGED <<stamped, channel, requests, inflight, polled, queue, rows>>
  BY DEF BrokerTakes, gateway
<1>4. \/ Len(session) < SessionLimit /\ session' = Append(session, e) /\ lost' = lost
      \/ session' = session /\ lost' = lost \cup {e}
  BY DEF BrokerTakes
<1> HIDE DEF e
<1>5. /\ session' \in Seq(Envelope) /\ Len(session') <= SessionLimit /\ polled <= Len(session')
      /\ lost' \subseteq Envelope
  <2>1. /\ session \in Seq(Envelope) /\ Len(session) <= SessionLimit /\ Len(session) \in Nat
        /\ lost \subseteq Envelope /\ polled <= Len(session) /\ polled \in Nat
    BY DEF Typed, Shape, ApiWithin
  <2>2. CASE Len(session) < SessionLimit /\ session' = Append(session, e) /\ lost' = lost
    <3>1. session' \in Seq(Envelope) /\ Len(session') = Len(session) + 1
      BY <1>2, <2>1, <2>2, Appended
    <3> QED BY <2>1, <2>2, <3>1, Capacities
  <2>3. CASE session' = session /\ lost' = lost \cup {e}
    BY <1>2, <2>1, <2>3
  <2> QED BY <1>4, <2>2, <2>3
<1>6. Shape'
  BY <1>1, <1>3, <1>5 DEF Typed, Shape
<1>7. ApiWithin'
  BY <1>3, <1>5 DEF Typed, ApiWithin
<1>8. ASSUME NEW h \in Gateways PROVE Within(h)'
  <2>1. Within(h)
    BY DEF Typed
  <2> QED BY <1>1, <1>3, <2>1 DEF Within, Typed, Shape
<1> QED
  BY <1>6, <1>7, <1>8 DEF Typed

LEMMA BrokerAcksTyped == ASSUME Typed, NEW g \in Gateways, BrokerAcks(g) PROVE Typed'
<1>1. /\ inflight[g] \in Seq(Envelope) /\ Len(inflight[g]) \in Nat /\ taken[g] \in Nat
      /\ taken[g] > 0 /\ taken[g] <= Len(inflight[g])
  BY DEF Typed, Shape, Within, BrokerAcks
<1>2. inflight[g] # <<>>
  BY <1>1, InRange
<1>3. Tail(inflight[g]) \in Seq(Envelope) /\ taken[g] - 1 <= Len(Tail(inflight[g]))
  BY <1>1, <1>2, Taken
<1>4. /\ inflight' = [inflight EXCEPT ![g] = Tail(inflight[g])]
      /\ taken' = [taken EXCEPT ![g] = taken[g] - 1]
      /\ UNCHANGED <<stamped, channel, requests, session, polled, queue, rows, lost>>
  BY DEF BrokerAcks, gateway, downlink
<1>5. Shape'
  BY <1>1, <1>3, <1>4 DEF Typed, Shape
<1>6. ApiWithin'
  BY <1>4 DEF Typed, ApiWithin
<1>7. ASSUME NEW h \in Gateways PROVE Within(h)'
  <2>1. Within(h)
    BY DEF Typed
  <2> QED BY <1>1, <1>3, <1>4, <2>1 DEF Within, Typed, Shape
<1> QED
  BY <1>5, <1>6, <1>7 DEF Typed

LEMMA UplinkCutTyped == ASSUME Typed, NEW g \in Gateways, UplinkCut(g) PROVE Typed'
<1>1. /\ taken' = [taken EXCEPT ![g] = 0]
      /\ UNCHANGED <<stamped, channel, requests, inflight, session, polled, queue, rows, lost>>
  BY DEF UplinkCut, gateway, downlink
<1>2. Shape'
  BY <1>1 DEF Typed, Shape
<1>3. ApiWithin'
  BY <1>1 DEF Typed, ApiWithin
<1>4. ASSUME NEW h \in Gateways PROVE Within(h)'
  <2>1. Within(h) /\ Len(inflight[h]) \in Nat
    BY DEF Typed, Shape
  <2> QED BY <1>1, <2>1 DEF Within, Typed, Shape
<1> QED
  BY <1>2, <1>3, <1>4 DEF Typed

LEMMA GatewayStopsTyped == ASSUME Typed, NEW g \in Gateways, GatewayStops(g) PROVE Typed'
<1>1. /\ channel' = [channel EXCEPT ![g] = <<>>] /\ requests' = [requests EXCEPT ![g] = <<>>]
      /\ inflight' = [inflight EXCEPT ![g] = <<>>] /\ taken' = [taken EXCEPT ![g] = 0]
      /\ UNCHANGED <<stamped, session, polled, queue, rows>>
  BY DEF GatewayStops, downlink
<1>2. <<>> \in Seq(Envelope) /\ Len(<<>>) = 0
  BY Emptied
<1>3. lost' \subseteq Envelope
  <2>1. /\ channel[g] \in Seq(Envelope) /\ requests[g] \in Seq(Envelope)
        /\ inflight[g] \in Seq(Envelope)
        /\ taken[g] \in Nat /\ lost \subseteq Envelope
    BY DEF Typed, Shape
  <2>2. Range(channel[g]) \subseteq Envelope /\ Range(requests[g]) \subseteq Envelope
    BY <2>1, InRange
  <2>3. {inflight[g][i] : i \in taken[g] + 1 .. Len(inflight[g])} \subseteq Envelope
    BY <2>1
  <2> QED BY <2>1, <2>2, <2>3 DEF GatewayStops
<1>4. Shape'
  BY <1>1, <1>2, <1>3 DEF Typed, Shape
<1>5. ApiWithin'
  BY <1>1 DEF Typed, ApiWithin
<1>6. ASSUME NEW h \in Gateways PROVE Within(h)'
  <2>1. Within(h)
    BY DEF Typed
  <2> QED BY <1>1, <1>2, <2>1, Capacities DEF Within, Typed, Shape
<1> QED
  BY <1>4, <1>5, <1>6 DEF Typed

(* The steps of the broker's other side and of the API leave every gateway *)
(* as it is.                                                               *)
LEMMA GatewaysApart ==
    ASSUME Typed, UNCHANGED <<gateway, uplink>>
    PROVE  /\ \A g \in Gateways : Within(g)'
           /\ UNCHANGED <<stamped, channel, requests, inflight, taken>>
<1>1. UNCHANGED <<stamped, channel, requests, inflight, taken>>
  BY DEF gateway, uplink
<1> QED
  BY <1>1 DEF Typed, Within

LEMMA PollTyped == ASSUME Typed, Poll PROVE Typed'
<1>1. /\ session \in Seq(Envelope) /\ polled \in Nat /\ polled + 1 <= Len(session)
      /\ Len(session) \in Nat /\ queue \in Seq(Envelope) /\ Len(queue) \in Nat
      /\ Len(queue) <= ApiQueue /\ lost \subseteq Envelope
  BY DEF Typed, Shape, ApiWithin, Poll
<1>2. polled' = polled + 1 /\ UNCHANGED <<gateway, uplink, session, rows>>
  BY DEF Poll
<1> DEFINE e == session[polled + 1]
<1>3. e \in Envelope
  BY <1>1
<1>4. \/ Len(queue) < ApiQueue /\ queue' = Append(queue, e) /\ lost' = lost
      \/ queue' = queue /\ lost' = lost \cup {e}
  BY <1>2 DEF Poll
<1> HIDE DEF e
<1>5. queue' \in Seq(Envelope) /\ Len(queue') <= ApiQueue /\ lost' \subseteq Envelope
  <2>1. CASE Len(queue) < ApiQueue /\ queue' = Append(queue, e) /\ lost' = lost
    <3>1. queue' \in Seq(Envelope) /\ Len(queue') = Len(queue) + 1
      BY <1>1, <1>3, <2>1, Appended
    <3> QED BY <1>1, <2>1, <3>1, Capacities
  <2>2. CASE queue' = queue /\ lost' = lost \cup {e}
    BY <1>1, <1>3, <2>2
  <2> QED BY <1>4, <2>1, <2>2
<1>6. \A g \in Gateways : Within(g)'
  BY <1>2, GatewaysApart
<1>7. Shape'
  BY <1>1, <1>2, <1>5, GatewaysApart DEF Typed, Shape
<1>8. ApiWithin'
  BY <1>1, <1>2, <1>5 DEF Typed, ApiWithin
<1> QED
  BY <1>6, <1>7, <1>8 DEF Typed

LEMMA ApiAcksTyped == ASSUME Typed, ApiAcks PROVE Typed'
<1>1. /\ session \in Seq(Envelope) /\ Len(session) \in Nat /\ polled \in Nat /\ polled > 0
      /\ polled <= Len(session) /\ Len(session) <= SessionLimit
      /\ session' = Tail(session) /\ polled' = polled - 1
      /\ UNCHANGED <<gateway, uplink, queue, rows, lost>>
  BY DEF Typed, Shape, ApiWithin, ApiAcks
<1>2. session # <<>>
  BY <1>1, InRange
<1>3. Tail(session) \in Seq(Envelope) /\ Len(Tail(session)) = Len(session) - 1
  BY <1>1, <1>2, Taken
<1>4. \A g \in Gateways : Within(g)'
  BY <1>1, GatewaysApart
<1>5. Shape'
  BY <1>1, <1>3, GatewaysApart DEF Typed, Shape
<1>6. ApiWithin'
  BY <1>1, <1>3, Capacities DEF Typed, ApiWithin
<1> QED
  BY <1>4, <1>5, <1>6 DEF Typed

LEMMA StopsTyped == ASSUME Typed, DownlinkCut \/ ApiStops PROVE Typed'
<1>1. /\ polled' = 0 /\ UNCHANGED <<gateway, uplink, session, rows>>
      /\ \/ queue' = queue /\ lost' = lost
         \/ queue' = <<>> /\ lost' = lost \cup Range(queue)
  BY DEF DownlinkCut, ApiStops
<1>2. queue \in Seq(Envelope) /\ Range(queue) \subseteq Envelope /\ Len(session) \in Nat
  <2>1. queue \in Seq(Envelope) /\ session \in Seq(Envelope)
    BY DEF Typed, Shape
  <2> QED BY <2>1, InRange
<1>3. <<>> \in Seq(Envelope) /\ Len(<<>>) = 0
  BY Emptied
<1>4. \A g \in Gateways : Within(g)'
  BY <1>1, GatewaysApart
<1>5. Shape'
  BY <1>1, <1>2, <1>3, GatewaysApart DEF Typed, Shape
<1>6. ApiWithin'
  BY <1>1, <1>2, <1>3, Capacities DEF Typed, ApiWithin
<1> QED
  BY <1>4, <1>5, <1>6 DEF Typed

LEMMA HandleTyped == ASSUME Typed, HandleEnvelope PROVE Typed'
<1> DEFINE e == Head(queue)
<1>1. /\ queue \in Seq(Envelope) /\ queue # <<>> /\ Len(queue) <= ApiQueue
      /\ rows \in Seq(Envelope \ (Unknown \cup Unreadable)) /\ lost \subseteq Envelope
      /\ queue' = Tail(queue) /\ UNCHANGED <<gateway, uplink, session, polled>>
  BY DEF Typed, Shape, ApiWithin, HandleEnvelope, downlink
<1>2. /\ e \in Envelope /\ Tail(queue) \in Seq(Envelope) /\ Len(Tail(queue)) = Len(queue) - 1
      /\ Len(queue) \in Nat
  BY <1>1, Taken
<1>3. rows' \in Seq(Envelope \ (Unknown \cup Unreadable)) /\ lost' \subseteq Envelope
  <2>1. \/ e \notin Unknown \cup Unreadable /\ Insert(e) /\ lost' = lost
        \/ rows' = rows /\ lost' = lost \cup {e}
    BY DEF HandleEnvelope
  <2>2. CASE e \notin Unknown \cup Unreadable /\ Insert(e) /\ lost' = lost
    <3>1. e \in Envelope \ (Unknown \cup Unreadable)
      BY <1>2, <2>2
    <3> HIDE DEF e
    <3> QED BY <1>1, <2>2, <3>1, Appended DEF Insert
  <2>3. CASE rows' = rows /\ lost' = lost \cup {e}
    BY <1>1, <1>2, <2>3
  <2> QED BY <2>1, <2>2, <2>3
<1>4. \A g \in Gateways : Within(g)'
  BY <1>1, GatewaysApart
<1>5. Shape'
  BY <1>1, <1>2, <1>3, GatewaysApart DEF Typed, Shape
<1>6. ApiWithin'
  BY <1>1, <1>2, Capacities DEF Typed, ApiWithin
<1> QED
  BY <1>4, <1>5, <1>6 DEF Typed

LEMMA StepTyped == ASSUME Typed, [Next]_vars PROVE Typed'
<1>1. CASE UNCHANGED vars
  BY <1>1 DEF vars, Typed, Shape, ApiWithin, Within
<1>2. ASSUME NEW g \in Gateways,
             \/ Decoded(g) \/ Publish(g) \/ Send(g) \/ BrokerTakes(g) \/ BrokerAcks(g)
             \/ UplinkCut(g) \/ GatewayStops(g)
      PROVE  Typed'
  BY <1>2, DecodedTyped, PublishTyped, SendTyped, BrokerTakesTyped, BrokerAcksTyped,
     UplinkCutTyped, GatewayStopsTyped
<1>3. CASE Poll \/ ApiAcks \/ DownlinkCut \/ ApiStops \/ HandleEnvelope
  BY <1>3, PollTyped, ApiAcksTyped, StopsTyped, HandleTyped
<1> QED
  BY <1>1, <1>2, <1>3 DEF Next

LEMMA AlwaysTyped == Spec => []Typed
<1>1. Typed /\ [Next]_vars => Typed'
  BY StepTyped
<1> QED
  BY <1>1, InitTyped, PTL DEF Spec

(* No queue of the gateway, the broker and the API grows past its          *)
(* capacity, and only registered devices' packets that open become rows.   *)
THEOREM TypeCorrect == Spec => []TypeOK
  BY AlwaysTyped, TypedMeans, PTL

-------------------------------------------------------------------------------
(***************************************************************************)
(* Where a receipt is: still with its gateway, in the broker's session, or *)
(* past it.                                                                *)
(***************************************************************************)

With(g) == Range(channel[g]) \cup Range(requests[g]) \cup Range(inflight[g])
Past == Range(queue) \cup Range(rows) \cup lost
Down == Range(session) \cup Past

(* Nothing is anywhere that was not stamped.                               *)
OnlyStamped ==
    /\ \A g \in Gateways : With(g) \subseteq Stamped
    /\ Range(session) \subseteq Stamped
    /\ Range(queue) \subseteq Stamped /\ Range(rows) \subseteq Stamped

(* What the API has polled, the broker need not keep; what the broker has  *)
(* taken, the gateway need not.                                            *)
PolledPast == \A i \in 1 .. polled : session[i] \in Past
TakenDown == \A g \in Gateways : \A i \in 1 .. taken[g] : inflight[g][i] \in Down

Somewhere == \A e \in Stamped : e \in Down \/ \E g \in Gateways : e \in With(g)

ReceiptInv ==
    OnlyStamped /\ IsInjective(rows) /\ PolledPast /\ TakenDown /\ Somewhere

LEMMA SomewhereMeans == ASSUME Somewhere PROVE NothingVanishes
  BY DEF Somewhere, NothingVanishes, Held, With, Down, Past

LEMMA Queues ==
    ASSUME Typed
    PROVE  /\ \A g \in Gateways :
               /\ channel[g] \in Seq(Envelope) /\ requests[g] \in Seq(Envelope)
               /\ inflight[g] \in Seq(Envelope) /\ Len(inflight[g]) \in Nat
               /\ taken[g] \in Nat /\ taken[g] <= Len(inflight[g])
               /\ stamped[g] \in Nat
           /\ session \in Seq(Envelope) /\ Len(session) \in Nat
           /\ polled \in Nat /\ polled <= Len(session)
           /\ queue \in Seq(Envelope)
           /\ rows \in Seq(Envelope \ (Unknown \cup Unreadable)) /\ rows \in Seq(Envelope)
           /\ lost \subseteq Envelope
<1>1. Envelope \ (Unknown \cup Unreadable) \subseteq Envelope
  OBVIOUS
<1>2. rows \in Seq(Envelope)
  BY <1>1 DEF Typed, Shape
<1> QED
  BY <1>2 DEF Typed, Shape, Within, ApiWithin

LEMMA InitReceipts == ASSUME Init PROVE ReceiptInv
<1>1. Range(<<>>) = {}
  BY Emptied
<1>2. Stamped = {}
  BY EnvelopeIs DEF Init, Stamped, Envelope
<1>3. \A g \in Gateways : With(g) = {} /\ taken[g] = 0
  BY <1>1 DEF Init, With
<1>4. Range(session) = {} /\ Range(queue) = {} /\ Range(rows) = {} /\ polled = 0
  BY <1>1 DEF Init
<1>5. IsInjective(rows)
  <2>1. DOMAIN rows = {}
    BY DEF Init
  <2> QED BY <2>1 DEF IsInjective
<1> QED
  BY <1>2, <1>3, <1>4, <1>5 DEF ReceiptInv, OnlyStamped, PolledPast, TakenDown, Somewhere

LEMMA StampedNext ==
    ASSUME Typed, NEW g \in Gateways, Decoded(g)
    PROVE  Stamped' = Stamped \cup {[gateway |-> g, n |-> stamped[g] + 1]}
<1>1. /\ stamped' = [stamped EXCEPT ![g] = stamped[g] + 1] /\ stamped \in [Gateways -> Nat]
      /\ stamped[g] < Receipts[g] /\ Receipts[g] \in Nat
  BY Capacities DEF Decoded, Typed, Shape
<1> DEFINE new == [gateway |-> g, n |-> stamped[g] + 1]
<1>2. new \in Envelope /\ new.gateway = g /\ new.n = stamped'[g]
  BY <1>1, EnvelopeIs
<1>3. ASSUME NEW e \in Envelope PROVE e.n <= stamped'[e.gateway] <=> e.n <= stamped[e.gateway] \/ e = new
  <2>1. e.gateway \in Gateways /\ e.n \in Nat /\ e = [gateway |-> e.gateway, n |-> e.n]
    BY EnvelopeIs DEF Envelope
  <2>2. CASE e.gateway # g
    BY <1>1, <2>1, <2>2
  <2>3. CASE e.gateway = g
    <3>1. stamped'[e.gateway] = stamped[g] + 1 /\ stamped[g] \in Nat
      BY <1>1, <2>3
    <3>2. e = new <=> e.n = stamped[g] + 1
      BY <2>1, <2>3
    <3> HIDE DEF new
    <3> QED BY <2>1, <2>3, <3>1, <3>2
  <2> QED BY <2>2, <2>3
<1> HIDE DEF new
<1>4. \A e \in Envelope : e \in Stamped' <=> e \in Stamped \/ e = new
  BY <1>3 DEF Stamped
<1>5. Stamped \subseteq Envelope /\ Stamped' \subseteq Envelope
  BY DEF Stamped, Envelope
<1> QED
  BY <1>2, <1>4, <1>5 DEF new

LEMMA StampedSame == ASSUME UNCHANGED stamped PROVE Stamped' = Stamped
  BY DEF Stamped, Envelope

LEMMA DecodedReceipts ==
    ASSUME Typed, ReceiptInv, NEW g \in Gateways, Decoded(g) PROVE ReceiptInv'
<1> DEFINE e == [gateway |-> g, n |-> stamped[g] + 1]
<1>1. /\ Stamped' = Stamped \cup {e}
      /\ UNCHANGED <<requests, inflight, taken, session, polled, queue, rows, lost>>
  BY StampedNext DEF Decoded, uplink, downlink
<1>2. Range(channel'[g]) = Range(channel[g]) \cup {e} /\ \A k \in Gateways \ {g} : channel'[k] = channel[k]
  <2>1. channel \in [Gateways -> Seq(Envelope)] /\ stamped \in [Gateways -> Nat]
        /\ stamped' = [stamped EXCEPT ![g] = stamped[g] + 1]
    BY DEF Typed, Shape, Decoded
  <2>2. channel' = [channel EXCEPT ![g] = Append(channel[g], e)]
    BY <2>1 DEF Decoded
  <2>3. e \in Envelope /\ channel[g] \in Seq(Envelope)
    BY <1>1, <2>1 DEF Stamped, Envelope
  <2> HIDE DEF e
  <2>4. Range(Append(channel[g], e)) = Range(channel[g]) \cup {e}
    BY <2>3, Appended
  <2> QED BY <2>1, <2>2, <2>4
<1> HIDE DEF e
<1>3. \A k \in Gateways : With(k)' = With(k) \cup (IF k = g THEN {e} ELSE {})
  BY <1>1, <1>2 DEF With
<1>4. Down' = Down /\ Past' = Past
  BY <1>1 DEF Down, Past
<1>5. OnlyStamped'
  BY <1>1, <1>3 DEF ReceiptInv, OnlyStamped
<1>6. Somewhere'
  BY <1>1, <1>3, <1>4 DEF ReceiptInv, Somewhere
<1> QED
  BY <1>1, <1>4, <1>5, <1>6 DEF ReceiptInv, PolledPast, TakenDown

LEMMA PublishReceipts ==
    ASSUME Typed, ReceiptInv, NEW g \in Gateways, Publish(g) PROVE ReceiptInv'
<1> DEFINE e == Head(channel[g])
<1>1. /\ channel' = [channel EXCEPT ![g] = Tail(channel[g])]
      /\ requests' = [requests EXCEPT ![g] = Append(requests[g], e)]
      /\ channel[g] # <<>>
      /\ UNCHANGED <<stamped, inflight, taken, session, polled, queue, rows, lost>>
  BY DEF Publish, uplink, downlink
<1>2. channel[g] \in Seq(Envelope) /\ requests[g] \in Seq(Envelope)
  BY Queues
<1>3. e \in Envelope /\ Range(channel[g]) = Range(Tail(channel[g])) \cup {e}
  BY <1>1, <1>2, Taken
<1> HIDE DEF e
<1>4. Range(Append(requests[g], e)) = Range(requests[g]) \cup {e}
  BY <1>2, <1>3, Appended
<1>5. \A k \in Gateways : With(k)' = With(k)
  BY <1>1, <1>3, <1>4 DEF With, Typed, Shape
<1>6. Down' = Down /\ Past' = Past /\ Stamped' = Stamped
  BY <1>1, StampedSame DEF Down, Past
<1> QED
  BY <1>1, <1>5, <1>6 DEF ReceiptInv, OnlyStamped, PolledPast, TakenDown, Somewhere

LEMMA SendReceipts ==
    ASSUME Typed, ReceiptInv, NEW g \in Gateways, Send(g) PROVE ReceiptInv'
<1> DEFINE e == Head(requests[g])
<1>1. /\ inflight' = [inflight EXCEPT ![g] = Append(inflight[g], e)]
      /\ requests' = [requests EXCEPT ![g] = Tail(requests[g])]
      /\ requests[g] # <<>>
      /\ UNCHANGED <<stamped, channel, taken, session, polled, queue, rows, lost>>
  BY DEF Send, downlink
<1>2. /\ requests[g] \in Seq(Envelope) /\ inflight[g] \in Seq(Envelope)
      /\ Len(inflight[g]) \in Nat /\ taken[g] \in Nat /\ taken[g] <= Len(inflight[g])
  BY Queues
<1>3. e \in Envelope /\ Range(requests[g]) = Range(Tail(requests[g])) \cup {e}
  BY <1>1, <1>2, Taken
<1> HIDE DEF e
<1>4. /\ Range(Append(inflight[g], e)) = Range(inflight[g]) \cup {e}
      /\ \A i \in 1 .. Len(inflight[g]) : Append(inflight[g], e)[i] = inflight[g][i]
  BY <1>2, <1>3, Appended
<1>5. \A k \in Gateways : With(k)' = With(k)
  BY <1>1, <1>3, <1>4 DEF With, Typed, Shape
<1>6. Down' = Down /\ Past' = Past /\ Stamped' = Stamped
  BY <1>1, StampedSame DEF Down, Past
<1>7. \A k \in Gateways : \A i \in 1 .. taken[k] : inflight'[k][i] = inflight[k][i]
  BY <1>1, <1>2, <1>4 DEF Typed, Shape
<1>8. TakenDown'
  <2> SUFFICES ASSUME NEW k \in Gateways, NEW i \in 1 .. taken[k]
               PROVE  inflight'[k][i] \in Down
    BY <1>1, <1>6 DEF TakenDown
  <2> QED BY <1>7 DEF ReceiptInv, TakenDown
<1> QED
  BY <1>1, <1>5, <1>6, <1>8 DEF ReceiptInv, OnlyStamped, PolledPast, Somewhere

LEMMA BrokerTakesReceipts ==
    ASSUME Typed, ReceiptInv, NEW g \in Gateways, BrokerTakes(g) PROVE ReceiptInv'
<1> DEFINE e == inflight[g][taken[g] + 1]
<1>1. /\ taken' = [taken EXCEPT ![g] = taken[g] + 1]
      /\ UNCHANGED <<stamped, channel, requests, inflight, polled, queue, rows>>
  BY DEF BrokerTakes, gateway
<1>2. /\ inflight[g] \in Seq(Envelope) /\ taken[g] \in Nat /\ taken[g] + 1 \in 1 .. Len(inflight[g])
      /\ session \in Seq(Envelope) /\ polled \in Nat /\ polled <= Len(session)
  BY Queues DEF BrokerTakes
<1>3. e \in Envelope /\ e \in Range(inflight[g])
  BY <1>2, InRange
<1>4. \/ session' = Append(session, e) /\ lost' = lost
      \/ session' = session /\ lost' = lost \cup {e}
  BY DEF BrokerTakes
<1>5. \A i \in 1 .. taken[g] + 1 : i \in 1 .. taken[g] \/ inflight[g][i] = e
  BY <1>2
<1> HIDE DEF e
<1>6. /\ Range(Append(session, e)) = Range(session) \cup {e}
      /\ \A i \in 1 .. polled : Append(session, e)[i] = session[i]
  BY <1>2, <1>3, Appended
<1>7. \A i \in 1 .. polled : session'[i] = session[i]
  BY <1>4, <1>6
<1>8. Stamped' = Stamped /\ \A k \in Gateways : With(k)' = With(k)
  BY <1>1, StampedSame DEF With
<1>9. Past \subseteq Past' /\ Down \subseteq Down' /\ e \in Down'
  BY <1>1, <1>4, <1>6 DEF Past, Down
<1>10. e \in Stamped
  BY <1>3 DEF ReceiptInv, OnlyStamped, With
<1>11. OnlyStamped'
  BY <1>1, <1>4, <1>6, <1>8, <1>10 DEF ReceiptInv, OnlyStamped
<1>12. PolledPast'
  BY <1>1, <1>7, <1>9 DEF ReceiptInv, PolledPast
<1>13. TakenDown'
  <2> SUFFICES ASSUME NEW k \in Gateways, NEW i \in 1 .. taken'[k]
               PROVE  inflight[k][i] \in Down'
    BY <1>1 DEF TakenDown
  <2>1. CASE k = g
    <3>1. taken'[g] = taken[g] + 1
      BY <1>1 DEF Typed, Shape
    <3>2. i \in 1 .. taken[g] \/ inflight[g][i] = e
      BY <1>5, <2>1, <3>1
    <3> QED BY <1>9, <2>1, <3>2 DEF ReceiptInv, TakenDown
  <2>2. CASE k # g
    <3>1. taken'[k] = taken[k]
      BY <1>1, <2>2 DEF Typed, Shape
    <3> QED BY <1>9, <3>1 DEF ReceiptInv, TakenDown
  <2> QED BY <2>1, <2>2
<1>14. Somewhere'
  BY <1>8, <1>9 DEF ReceiptInv, Somewhere
<1> QED
  BY <1>1, <1>11, <1>12, <1>13, <1>14 DEF ReceiptInv

LEMMA BrokerAcksReceipts ==
    ASSUME Typed, ReceiptInv, NEW g \in Gateways, BrokerAcks(g) PROVE ReceiptInv'
<1> DEFINE e == Head(inflight[g])
<1>1. /\ inflight' = [inflight EXCEPT ![g] = Tail(inflight[g])]
      /\ taken' = [taken EXCEPT ![g] = taken[g] - 1]
      /\ taken[g] > 0
      /\ UNCHANGED <<stamped, channel, requests, session, polled, queue, rows, lost>>
  BY DEF BrokerAcks, gateway, downlink
<1>2. /\ inflight[g] \in Seq(Envelope) /\ taken[g] \in Nat /\ taken[g] <= Len(inflight[g])
      /\ Len(inflight[g]) \in Nat /\ inflight[g] # <<>>
  BY <1>1, Queues, InRange
<1>3. /\ e = inflight[g][1] /\ Range(inflight[g]) = Range(Tail(inflight[g])) \cup {e}
      /\ \A i \in 1 .. Len(inflight[g]) - 1 : Tail(inflight[g])[i] = inflight[g][i + 1]
  BY <1>2, Taken
<1>4. e \in Down
  BY <1>1, <1>2, <1>3 DEF ReceiptInv, TakenDown
<1> HIDE DEF e
<1>5. Down' = Down /\ Past' = Past /\ Stamped' = Stamped
  BY <1>1, StampedSame DEF Down, Past
<1>6. \A k \in Gateways : With(k)' \subseteq With(k) /\ With(k) \subseteq With(k)' \cup {e}
  BY <1>1, <1>3 DEF With, Typed, Shape
<1>7. OnlyStamped'
  BY <1>1, <1>5, <1>6 DEF ReceiptInv, OnlyStamped
<1>8. TakenDown'
  <2> SUFFICES ASSUME NEW k \in Gateways, NEW i \in 1 .. taken'[k]
               PROVE  inflight'[k][i] \in Down
    BY <1>5 DEF TakenDown
  <2>1. CASE k = g
    <3>1. taken'[g] = taken[g] - 1 /\ inflight'[g] = Tail(inflight[g])
      BY <1>1 DEF Typed, Shape
    <3>2. i + 1 \in 1 .. taken[g] /\ i \in 1 .. Len(inflight[g]) - 1
      BY <1>2, <2>1, <3>1
    <3> QED BY <1>3, <2>1, <3>1, <3>2 DEF ReceiptInv, TakenDown
  <2>2. CASE k # g
    <3>1. taken'[k] = taken[k] /\ inflight'[k] = inflight[k]
      BY <1>1, <2>2 DEF Typed, Shape
    <3> QED BY <3>1 DEF ReceiptInv, TakenDown
  <2> QED BY <2>1, <2>2
<1>9. Somewhere'
  BY <1>4, <1>5, <1>6 DEF ReceiptInv, Somewhere
<1> QED
  BY <1>1, <1>5, <1>7, <1>8, <1>9 DEF ReceiptInv, PolledPast

LEMMA UplinkCutReceipts ==
    ASSUME Typed, ReceiptInv, NEW g \in Gateways, UplinkCut(g) PROVE ReceiptInv'
<1>1. /\ taken' = [taken EXCEPT ![g] = 0]
      /\ UNCHANGED <<stamped, channel, requests, inflight, session, polled, queue, rows, lost>>
  BY DEF UplinkCut, gateway, downlink
<1>2. Down' = Down /\ Past' = Past /\ Stamped' = Stamped /\ \A k \in Gateways : With(k)' = With(k)
  BY <1>1, StampedSame DEF Down, Past, With
<1>3. TakenDown'
  BY <1>1, <1>2 DEF ReceiptInv, TakenDown, Typed, Shape
<1> QED
  BY <1>1, <1>2, <1>3 DEF ReceiptInv, OnlyStamped, PolledPast, Somewhere

LEMMA GatewayStopsReceipts ==
    ASSUME Typed, ReceiptInv, NEW g \in Gateways, GatewayStops(g) PROVE ReceiptInv'
<1> DEFINE untaken == {inflight[g][i] : i \in taken[g] + 1 .. Len(inflight[g])}
<1>1. /\ channel' = [channel EXCEPT ![g] = <<>>] /\ requests' = [requests EXCEPT ![g] = <<>>]
      /\ inflight' = [inflight EXCEPT ![g] = <<>>] /\ taken' = [taken EXCEPT ![g] = 0]
      /\ lost' = lost \cup Range(channel[g]) \cup Range(requests[g]) \cup untaken
      /\ UNCHANGED <<stamped, session, polled, queue, rows>>
  BY DEF GatewayStops, downlink
<1>2. /\ inflight[g] \in Seq(Envelope) /\ taken[g] \in Nat /\ taken[g] <= Len(inflight[g])
      /\ Len(inflight[g]) \in Nat
  BY Queues
<1>3. Range(inflight[g]) \subseteq untaken \cup Down
  <2> SUFFICES ASSUME NEW i \in 1 .. Len(inflight[g]) PROVE inflight[g][i] \in untaken \cup Down
    BY <1>2, InRange
  <2>1. CASE i <= taken[g]
    BY <1>2, <2>1 DEF ReceiptInv, TakenDown
  <2>2. CASE i > taken[g]
    BY <1>2, <2>2
  <2> QED BY <1>2, <2>1, <2>2
<1>4. untaken \subseteq Range(inflight[g])
  BY <1>2, InRange
<1> HIDE DEF untaken
<1>5. Past \subseteq Past' /\ Down \subseteq Down' /\ Stamped' = Stamped
  BY <1>1, StampedSame DEF Down, Past
<1>6. /\ With(g)' = {} /\ With(g) \subseteq Down'
      /\ \A k \in Gateways \ {g} : With(k)' = With(k)
  BY <1>1, <1>3, <1>5, Emptied DEF With, Typed, Shape, Down, Past
<1>7. OnlyStamped'
  BY <1>1, <1>5, <1>6 DEF ReceiptInv, OnlyStamped
<1>8. TakenDown'
  BY <1>1, <1>5 DEF ReceiptInv, TakenDown, Typed, Shape
<1>9. Somewhere'
  BY <1>5, <1>6 DEF ReceiptInv, Somewhere
<1> QED
  BY <1>1, <1>5, <1>7, <1>8, <1>9 DEF ReceiptInv, PolledPast

(* The other side's steps leave what the gateways hold.                    *)
LEMMA HoldingsApart ==
    ASSUME UNCHANGED <<gateway, uplink>>
    PROVE  /\ Stamped' = Stamped /\ \A g \in Gateways : With(g)' = With(g)
           /\ UNCHANGED <<stamped, channel, requests, inflight, taken>>
<1>1. UNCHANGED <<stamped, channel, requests, inflight, taken>>
  BY DEF gateway, uplink
<1> QED
  BY <1>1, StampedSame DEF With

LEMMA PollReceipts == ASSUME Typed, ReceiptInv, Poll PROVE ReceiptInv'
<1> DEFINE e == session[polled + 1]
<1>1. polled' = polled + 1 /\ UNCHANGED <<gateway, uplink, session, rows>>
  BY DEF Poll
<1>2. /\ session \in Seq(Envelope) /\ polled \in Nat /\ polled + 1 \in 1 .. Len(session)
      /\ queue \in Seq(Envelope)
  BY Queues DEF Poll
<1>3. e \in Envelope /\ e \in Range(session)
  BY <1>2, InRange
<1>4. \/ queue' = Append(queue, e) /\ lost' = lost
      \/ queue' = queue /\ lost' = lost \cup {e}
  BY <1>1 DEF Poll
<1>5. \A i \in 1 .. polled + 1 : i \in 1 .. polled \/ session[i] = e
  BY <1>2
<1> HIDE DEF e
<1>6. Range(Append(queue, e)) = Range(queue) \cup {e}
  BY <1>2, <1>3, Appended
<1>7. Past' = Past \cup {e} /\ Down' = Down
  BY <1>1, <1>3, <1>4, <1>6 DEF Past, Down
<1>8. Stamped' = Stamped /\ \A g \in Gateways : With(g)' = With(g)
  BY <1>1, HoldingsApart
<1>9. OnlyStamped'
  BY <1>1, <1>3, <1>4, <1>6, <1>8 DEF ReceiptInv, OnlyStamped
<1>10. PolledPast'
  BY <1>1, <1>5, <1>7 DEF ReceiptInv, PolledPast
<1>11. TakenDown'
  BY <1>1, <1>7, HoldingsApart DEF ReceiptInv, TakenDown
<1> QED
  BY <1>1, <1>7, <1>8, <1>9, <1>10, <1>11 DEF ReceiptInv, Somewhere

LEMMA ApiAcksReceipts == ASSUME Typed, ReceiptInv, ApiAcks PROVE ReceiptInv'
<1> DEFINE e == Head(session)
<1>1. /\ polled > 0 /\ session' = Tail(session) /\ polled' = polled - 1
      /\ UNCHANGED <<gateway, uplink, queue, rows, lost>>
  BY DEF ApiAcks
<1>2. /\ session \in Seq(Envelope) /\ polled \in Nat /\ polled <= Len(session)
      /\ Len(session) \in Nat /\ session # <<>>
  BY <1>1, Queues, InRange
<1>3. /\ e = session[1] /\ Range(session) = Range(Tail(session)) \cup {e}
      /\ \A i \in 1 .. Len(session) - 1 : Tail(session)[i] = session[i + 1]
  BY <1>2, Taken
<1>4. Past' = Past /\ e \in Past
  BY <1>1, <1>2, <1>3 DEF ReceiptInv, PolledPast, Past
<1> HIDE DEF e
<1>5. Down' = Down /\ Range(session') \subseteq Range(session)
  BY <1>1, <1>3, <1>4 DEF Down
<1>6. PolledPast'
  <2> SUFFICES ASSUME NEW i \in 1 .. polled - 1 PROVE Tail(session)[i] \in Past
    BY <1>1, <1>4 DEF PolledPast
  <2>1. i + 1 \in 1 .. polled /\ i \in 1 .. Len(session) - 1
    BY <1>2
  <2> QED BY <1>3, <2>1 DEF ReceiptInv, PolledPast
<1>7. Stamped' = Stamped /\ \A g \in Gateways : With(g)' = With(g)
  BY <1>1, HoldingsApart
<1>8. OnlyStamped'
  BY <1>1, <1>5, <1>7 DEF ReceiptInv, OnlyStamped
<1>9. TakenDown'
  BY <1>1, <1>5, HoldingsApart DEF ReceiptInv, TakenDown
<1> QED
  BY <1>1, <1>5, <1>6, <1>7, <1>8, <1>9 DEF ReceiptInv, Somewhere

LEMMA StopsReceipts == ASSUME Typed, ReceiptInv, DownlinkCut \/ ApiStops PROVE ReceiptInv'
<1>1. /\ polled' = 0 /\ UNCHANGED <<gateway, uplink, session, rows>>
      /\ \/ queue' = queue /\ lost' = lost
         \/ queue' = <<>> /\ lost' = lost \cup Range(queue)
  BY DEF DownlinkCut, ApiStops
<1>2. Range(<<>>) = {}
  BY Emptied
<1>3. Past' = Past /\ Down' = Down /\ Range(queue') \subseteq Range(queue)
  BY <1>1, <1>2 DEF Past, Down
<1>4. Stamped' = Stamped /\ \A g \in Gateways : With(g)' = With(g)
  BY <1>1, HoldingsApart
<1>5. OnlyStamped'
  BY <1>1, <1>3, <1>4 DEF ReceiptInv, OnlyStamped
<1>6. PolledPast'
  BY <1>1 DEF PolledPast
<1>7. TakenDown'
  BY <1>1, <1>3, HoldingsApart DEF ReceiptInv, TakenDown
<1> QED
  BY <1>1, <1>3, <1>4, <1>5, <1>6, <1>7 DEF ReceiptInv, Somewhere

(* A row more, if it is not among the rows yet, is a row once.             *)
LEMMA AppendedOnce ==
    ASSUME NEW S, NEW s \in Seq(S), NEW e \in S, IsInjective(s), e \notin Range(s)
    PROVE  IsInjective(Append(s, e))
<1>1. /\ DOMAIN Append(s, e) = 1 .. Len(s) + 1 /\ DOMAIN s = 1 .. Len(s) /\ Len(s) \in Nat
      /\ \A i \in 1 .. Len(s) : Append(s, e)[i] = s[i] /\ s[i] \in Range(s)
      /\ Append(s, e)[Len(s) + 1] = e
  BY Appended, InRange
<1>2. \A i \in 1 .. Len(s) + 1 : i \in 1 .. Len(s) \/ i = Len(s) + 1
  BY <1>1
<1> QED
  BY <1>1, <1>2 DEF IsInjective

LEMMA HandleReceipts == ASSUME Typed, ReceiptInv, HandleEnvelope PROVE ReceiptInv'
<1> DEFINE e == Head(queue)
<1>1. queue # <<>> /\ queue' = Tail(queue) /\ UNCHANGED <<gateway, uplink, session, polled>>
  BY DEF HandleEnvelope, downlink
<1>2. queue \in Seq(Envelope) /\ rows \in Seq(Envelope)
  BY Queues
<1>3. e \in Envelope /\ Range(queue) = Range(Tail(queue)) \cup {e}
  BY <1>1, <1>2, Taken
<1>4. \/ Insert(e) /\ lost' = lost
      \/ rows' = rows /\ lost' = lost \cup {e}
  BY DEF HandleEnvelope
<1> HIDE DEF e
<1>5. IsInjective(rows') /\ Range(rows) \subseteq Range(rows') /\ Range(rows') \subseteq Range(rows) \cup {e}
      /\ (e \in Range(rows') \/ e \in lost')
  <2>1. CASE rows' = rows /\ lost' = lost \cup {e}
    BY <2>1 DEF ReceiptInv
  <2>2. CASE e \in Range(rows) /\ rows' = rows
    BY <2>2 DEF ReceiptInv
  <2>3. CASE e \notin Range(rows) /\ rows' = Append(rows, e)
    <3>1. Range(rows') = Range(rows) \cup {e}
      BY <1>2, <1>3, <2>3, Appended
    <3>2. IsInjective(rows')
      BY <1>2, <1>3, <2>3, AppendedOnce DEF ReceiptInv
    <3> QED BY <3>1, <3>2
  <2> QED BY <1>4, <2>1, <2>2, <2>3 DEF Insert
<1>6. Past \subseteq Past' /\ Down \subseteq Down'
  BY <1>1, <1>3, <1>4, <1>5 DEF Past, Down
<1>7. Stamped' = Stamped /\ \A g \in Gateways : With(g)' = With(g)
  BY <1>1, HoldingsApart
<1>8. OnlyStamped'
  BY <1>1, <1>3, <1>5, <1>7 DEF ReceiptInv, OnlyStamped
<1>9. PolledPast'
  BY <1>1, <1>6 DEF ReceiptInv, PolledPast
<1>10. TakenDown'
  BY <1>1, <1>6, HoldingsApart DEF ReceiptInv, TakenDown
<1> QED
  BY <1>5, <1>6, <1>7, <1>8, <1>9, <1>10 DEF ReceiptInv, Somewhere

LEMMA StepReceipts == ASSUME Typed, ReceiptInv, [Next]_vars PROVE ReceiptInv'
<1>1. CASE UNCHANGED vars
  <2>1. /\ Stamped' = Stamped /\ Past' = Past /\ Down' = Down
        /\ \A g \in Gateways : With(g)' = With(g)
        /\ UNCHANGED <<session, queue, rows, inflight, taken, polled>>
    BY <1>1, StampedSame DEF vars, Past, Down, With
  <2> QED BY <2>1 DEF ReceiptInv, OnlyStamped, PolledPast, TakenDown, Somewhere
<1>2. ASSUME NEW g \in Gateways,
             \/ Decoded(g) \/ Publish(g) \/ Send(g) \/ BrokerTakes(g) \/ BrokerAcks(g)
             \/ UplinkCut(g) \/ GatewayStops(g)
      PROVE  ReceiptInv'
  BY <1>2, DecodedReceipts, PublishReceipts, SendReceipts, BrokerTakesReceipts,
     BrokerAcksReceipts, UplinkCutReceipts, GatewayStopsReceipts
<1>3. CASE Poll \/ ApiAcks \/ DownlinkCut \/ ApiStops \/ HandleEnvelope
  BY <1>3, PollReceipts, ApiAcksReceipts, StopsReceipts, HandleReceipts
<1> QED
  BY <1>1, <1>2, <1>3 DEF Next

LEMMA ReceiptsKept == Spec => [](Typed /\ ReceiptInv)
<1>1. Typed /\ ReceiptInv /\ [Next]_vars => ReceiptInv'
  BY StepReceipts
<1> QED
  BY <1>1, InitReceipts, AlwaysTyped, PTL DEF Spec

(* A receipt is one row, whatever is delivered again or lost on the way    *)
(* (insert_reading's ON CONFLICT DO NOTHING).                              *)
THEOREM RowsOnce == Spec => []OneRowPerReceipt
<1>1. ReceiptInv => OneRowPerReceipt
  BY DEF ReceiptInv, OnlyStamped, OneRowPerReceipt
<1> QED
  BY <1>1, ReceiptsKept, PTL

(* A receipt is in a queue, is a row or was given up, whatever connection  *)
(* is lost and whoever stops (mqtt_task, the broker's session,             *)
(* subscribe_mqtt and the writer).                                         *)
THEOREM NoneVanishes == Spec => []NothingVanishes
<1>1. ReceiptInv => NothingVanishes
  BY SomewhereMeans DEF ReceiptInv
<1> QED
  BY <1>1, ReceiptsKept, PTL

(* The broker's session lets go of what the API has polled, and of nothing *)
(* else (clean_session false).                                             *)
THEOREM SessionHolds == Spec => HeldUntilPolled
<1>1. ASSUME Typed, [Next]_vars, NEW e \in Range(session), e \notin Range(session')
      PROVE  \E i \in 1 .. polled : session[i] = e
  <2>0. session \in Seq(Envelope) /\ polled \in Nat /\ polled <= Len(session) /\ Len(session) \in Nat
    BY <1>1, Queues
  <2>1. session' # session
    BY <1>1
  <2>2. ASSUME NEW g \in Gateways, BrokerTakes(g) PROVE FALSE
    <3>1. inflight[g][taken[g] + 1] \in Envelope
      BY <1>1, <2>2, Queues DEF BrokerTakes
    <3>2. session' = Append(session, inflight[g][taken[g] + 1])
      BY <2>1, <2>2 DEF BrokerTakes
    <3> QED BY <1>1, <2>0, <3>1, <3>2, Appended
  <2>3. ApiAcks
    BY <1>1, <2>1, <2>2 DEF Next, vars, Decoded, Publish, Send, BrokerAcks, UplinkCut,
       GatewayStops, Poll, DownlinkCut, ApiStops, HandleEnvelope, downlink
  <2>4. polled > 0 /\ session' = Tail(session)
    BY <2>3 DEF ApiAcks
  <2>5. session # <<>>
    BY <2>0, <2>4, InRange
  <2>6. e = session[1]
    BY <1>1, <2>0, <2>4, <2>5, Taken
  <2> QED BY <2>0, <2>4, <2>6
<1>2. Typed /\ [Next]_vars
        => [\A e \in Range(session) :
               e \notin Range(session') => \E i \in 1 .. polled : session[i] = e]_vars
  BY <1>1
<1> QED
  BY <1>2, AlwaysTyped, PTL DEF Spec, HeldUntilPolled

-------------------------------------------------------------------------------
(***************************************************************************)
(* The account of unknown devices.                                         *)
(***************************************************************************)

(* An unnamed device was met by a full table.                              *)
AccountInv ==
    /\ DOMAIN unknown = {"count", "overflow"} /\ dropped \in [Strangers -> Nat]
    /\ Named \subseteq Strangers /\ IsFiniteSet(Named) /\ IsFiniteSet(Nameless)
    /\ Others # {} => Full(unknown)
    /\ StrangersAccounted

LEMMA RecordIs ==
    ASSUME DOMAIN unknown = {"count", "overflow"}, NEW d
    PROVE  LET u == Record(unknown, d) IN
           /\ DOMAIN u = {"count", "overflow"}
           /\ d \in Named =>
                /\ DOMAIN u.count = Named /\ u.count[d] = unknown.count[d] + 1
                /\ \A k \in Named \ {d} : u.count[k] = unknown.count[k]
                /\ u.overflow = unknown.overflow
           /\ d \notin Named /\ ~ Full(unknown) =>
                /\ DOMAIN u.count = Named \cup {d} /\ u.count[d] = 1
                /\ \A k \in Named : u.count[k] = unknown.count[k]
                /\ u.overflow = unknown.overflow
           /\ d \notin Named /\ Full(unknown) =>
                u.count = unknown.count /\ u.overflow = unknown.overflow + 1
<1>1. CASE d \in Named
  BY <1>1 DEF Record, Named
<1>2. CASE d \notin Named /\ ~ Full(unknown)
  BY <1>2 DEF Record, Named
<1>3. CASE d \notin Named /\ Full(unknown)
  BY <1>3 DEF Record, Named
<1> QED
  BY <1>1, <1>2, <1>3

LEMMA InitAccount == ASSUME Init PROVE AccountInv
<1>1. /\ DOMAIN unknown = {"count", "overflow"} /\ Named = {} /\ unknown.overflow = 0
      /\ dropped = [d \in Strangers |-> 0]
  BY DEF Init, NoUnknown, Named, NoneDropped
<1>2. Others = {}
  BY <1>1 DEF Others
<1>3. Nameless = {}
  BY <1>2 DEF Nameless
<1>4. IsFiniteSet({}) /\ Cardinality({}) = 0
  BY FS_EmptySet
<1> QED
  BY <1>1, <1>2, <1>3, <1>4, TrackedAssumption DEF AccountInv, StrangersAccounted

LEMMA ForgottenAccount ==
    ASSUME unknown' = NoUnknown, told' = {}, dropped' = NoneDropped
    PROVE  AccountInv'
<1>1. /\ DOMAIN unknown' = {"count", "overflow"} /\ Named' = {} /\ unknown'.overflow = 0
      /\ dropped' = [d \in Strangers |-> 0]
  BY DEF NoUnknown, Named, NoneDropped
<1>2. Others' = {}
  BY <1>1 DEF Others
<1>3. Nameless' = {}
  BY <1>2 DEF Nameless
<1>4. IsFiniteSet({}) /\ Cardinality({}) = 0
  BY FS_EmptySet
<1> QED
  BY <1>1, <1>2, <1>3, <1>4, TrackedAssumption DEF AccountInv, StrangersAccounted

(* One packet more of a stranger, in the three cases of record.            *)
LEMMA Recorded ==
    ASSUME AccountInv, NEW d \in Strangers, NEW due \in BOOLEAN,
           unknown' = Record(unknown, d),
           told' = told \cup Report(unknown, d, due),
           dropped' = [dropped EXCEPT ![d] = dropped[d] + 1]
    PROVE  AccountInv'
<1>1. /\ dropped' \in [Strangers -> Nat] /\ dropped[d] \in Nat /\ dropped'[d] = dropped[d] + 1
      /\ \A k \in Strangers \ {d} : dropped'[k] = dropped[k]
      /\ \A k \in Strangers : dropped[k] \in Nat
  BY DEF AccountInv
<1>2. DOMAIN unknown' = {"count", "overflow"}
  BY RecordIs DEF AccountInv
<1>3. told \subseteq told'
  OBVIOUS
<1>4. CASE d \in Named
  <2>1. /\ Named' = Named /\ unknown'.count[d] = unknown.count[d] + 1
        /\ \A k \in Named \ {d} : unknown'.count[k] = unknown.count[k]
        /\ unknown'.overflow = unknown.overflow
    BY <1>4, RecordIs DEF AccountInv, Named
  <2>2. Others' = Others /\ d \notin Others
    BY <1>1, <1>4, <2>1 DEF Others
  <2>3. \A k \in Others : dropped'[k] = dropped[k]
    BY <1>1, <2>2 DEF Others
  <2>4. Nameless' = Nameless
    BY <2>2, <2>3 DEF Nameless
  <2>5. Full(unknown)' = Full(unknown)
    BY <2>1 DEF Full, Named
  <2> QED
    BY <1>1, <1>2, <1>3, <1>4, <2>1, <2>2, <2>4, <2>5 DEF AccountInv, StrangersAccounted
<1>5. CASE d \notin Named /\ ~ Full(unknown)
  <2>1. /\ Named' = Named \cup {d} /\ unknown'.count[d] = 1
        /\ \A k \in Named : unknown'.count[k] = unknown.count[k]
        /\ unknown'.overflow = unknown.overflow
    BY <1>5, RecordIs DEF AccountInv, Named
  <2>2. Others = {}
    BY <1>5 DEF AccountInv
  <2>3. dropped[d] = 0
    BY <1>1, <1>5, <2>2 DEF Others
  <2>4. Others' = {}
    BY <1>1, <2>1, <2>2 DEF Others
  <2>5. Nameless' = {} /\ Nameless = {}
    BY <2>2, <2>4 DEF Nameless
  <2>6. IsFiniteSet(Named') /\ Cardinality(Named') = Cardinality(Named) + 1
    BY <1>5, <2>1, FS_AddElement DEF AccountInv
  <2>7. Cardinality(Named') <= MaxTracked
    <3>1. Cardinality(Named) \in Nat /\ ~ (Cardinality(Named) >= MaxTracked)
      BY <1>5, FS_CardinalityType DEF AccountInv, Full, Named
    <3> QED BY <2>6, <3>1, TrackedAssumption
  <2>8. d \in told'
    BY <1>5 DEF Report, Named
  <2>9. \A k \in Named' : unknown'.count[k] = dropped'[k] /\ k \in told'
    <3> SUFFICES ASSUME NEW k \in Named' PROVE unknown'.count[k] = dropped'[k] /\ k \in told'
      OBVIOUS
    <3>1. CASE k = d
      BY <1>1, <2>1, <2>3, <2>8, <3>1
    <3>2. CASE k # d
      <4>1. k \in Named /\ k \in Strangers
        BY <2>1, <3>2 DEF AccountInv
      <4> QED BY <1>1, <1>3, <2>1, <3>2, <4>1 DEF AccountInv, StrangersAccounted
    <3> QED BY <3>1, <3>2
  <2> QED
    BY <1>1, <1>2, <2>1, <2>4, <2>5, <2>6, <2>7, <2>9 DEF AccountInv, StrangersAccounted
<1>6. CASE d \notin Named /\ Full(unknown)
  <2>1. Named' = Named /\ unknown'.count = unknown.count /\ unknown'.overflow = unknown.overflow + 1
    BY <1>6, RecordIs DEF AccountInv, Named
  <2>2. Others' = Others \cup {d}
    BY <1>1, <1>6, <2>1 DEF Others
  <2> DEFINE new == <<d, dropped[d] + 1>>
  <2>3. Nameless' = Nameless \cup {new} /\ new \notin Nameless
    <3>1. \A x : x \in Nameless <=> \E k \in Others : x \in {k} \X (1 .. dropped[k])
      BY DEF Nameless
    <3>2. \A x : x \in Nameless' <=> \E k \in Others \cup {d} : x \in {k} \X (1 .. dropped'[k])
      BY <2>2 DEF Nameless
    <3>3. {d} \X (1 .. dropped'[d]) = ({d} \X (1 .. dropped[d])) \cup {new}
      <4>1. 1 .. dropped'[d] = (1 .. dropped[d]) \cup {dropped[d] + 1}
        BY <1>1
      <4> QED BY <4>1
    <3>4. \A k \in Others \ {d} : dropped'[k] = dropped[k]
      BY <1>1 DEF Others
    <3>5. d \notin Others => 1 .. dropped[d] = {}
      <4>1. d \notin Others => dropped[d] = 0
        BY <1>1, <1>6 DEF Others
      <4> QED BY <4>1
    <3>6. new \notin Nameless
      <4> SUFFICES ASSUME NEW k \in Others, new \in {k} \X (1 .. dropped[k]) PROVE FALSE
        BY <3>1
      <4>1. k = d /\ dropped[d] + 1 \in 1 .. dropped[d]
        OBVIOUS
      <4> QED BY <1>1, <4>1
    <3> HIDE DEF new
    <3>7. Nameless' = Nameless \cup {new}
      <4>1. ASSUME NEW x \in Nameless' PROVE x \in Nameless \cup {new}
        <5>1. PICK k \in Others \cup {d} : x \in {k} \X (1 .. dropped'[k])
          BY <3>2
        <5>2. CASE k = d
          <6>1. x \in {d} \X (1 .. dropped[d]) \/ x = new
            BY <3>3, <5>1, <5>2
          <6> QED BY <3>1, <3>5, <6>1
        <5>3. CASE k # d
          BY <3>1, <3>4, <5>1, <5>3
        <5> QED BY <5>2, <5>3
      <4>2. ASSUME NEW x \in Nameless PROVE x \in Nameless'
        <5>1. PICK k \in Others : x \in {k} \X (1 .. dropped[k])
          BY <3>1
        <5>2. CASE k = d
          BY <3>2, <3>3, <5>1, <5>2
        <5>3. CASE k # d
          BY <3>2, <3>4, <5>1, <5>3
        <5> QED BY <5>2, <5>3
      <4>3. new \in Nameless'
        BY <3>2, <3>3
      <4> QED BY <4>1, <4>2, <4>3
    <3> QED BY <3>6, <3>7
  <2> HIDE DEF new
  <2>4. IsFiniteSet(Nameless') /\ Cardinality(Nameless') = Cardinality(Nameless) + 1
    BY <2>3, FS_AddElement DEF AccountInv
  <2>5. "others" \in told'
    <3>1. CASE unknown.overflow = 0
      BY <1>6, <3>1 DEF Report, Named
    <3>2. CASE unknown.overflow # 0
      <4>1. Nameless # {}
        BY <3>2, FS_EmptySet DEF AccountInv, StrangersAccounted
      <4>2. Others # {}
        BY <4>1 DEF Nameless
      <4> QED BY <1>3, <4>2 DEF AccountInv, StrangersAccounted
    <3> QED BY <3>1, <3>2
  <2>6. Full(unknown)'
    BY <1>6, <2>1 DEF Full
  <2>7. \A k \in Named : dropped'[k] = dropped[k]
    BY <1>1, <1>6 DEF AccountInv
  <2> QED
    BY <1>1, <1>2, <1>3, <2>1, <2>4, <2>5, <2>6, <2>7 DEF AccountInv, StrangersAccounted
<1> QED
  BY <1>4, <1>5, <1>6

LEMMA StepAccount == ASSUME Typed, AccountInv, [Next]_vars PROVE AccountInv'
<1>1. CASE UNCHANGED account
  BY <1>1 DEF account, AccountInv, StrangersAccounted, Named, Others, Nameless, Full
<1>2. CASE HandleEnvelope
  <2> DEFINE e == Head(queue)
  <2>1. \/ UNCHANGED account
        \/ /\ e \in Unknown
           /\ unknown' = Record(unknown, Sender[e])
           /\ \E due \in BOOLEAN : told' = told \cup Report(unknown, Sender[e], due)
           /\ dropped' = [dropped EXCEPT ![Sender[e]] = dropped[Sender[e]] + 1]
    BY <1>2 DEF HandleEnvelope
  <2>2. e \in Unknown => Sender[e] \in Strangers
    BY CapacityAssumption
  <2> HIDE DEF e
  <2> QED BY <1>1, <2>1, <2>2, Recorded
<1>3. CASE ApiStops
  BY <1>3, ForgottenAccount DEF ApiStops
<1> QED
  BY <1>1, <1>2, <1>3 DEF Next, vars, Decoded, Publish, Send, BrokerTakes, BrokerAcks,
     UplinkCut, GatewayStops, Poll, ApiAcks, DownlinkCut

(* Every packet of an unregistered device that was dropped since the API   *)
(* started is in the account, under its name or among the others, and the  *)
(* log has said so (unknown_devices.rs record).                            *)
THEOREM AccountExact == Spec => []StrangersAccounted
<1>1. Typed /\ AccountInv /\ [Next]_vars => AccountInv'
  BY StepAccount
<1>2. AccountInv => StrangersAccounted
  BY DEF AccountInv
<1> QED
  BY <1>1, <1>2, InitAccount, AlwaysTyped, PTL DEF Spec
===============================================================================
