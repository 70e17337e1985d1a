-------------------------------- MODULE Packets --------------------------------
(***************************************************************************)
(* A reading on its way from the sensor to a row, as data: measurements    *)
(* (common/src/measurement.rs), the sealed packet (packet.rs, packet/v1.rs,*)
(* packet/cipher.rs), what the receiver adds (observation.rs), the MQTT    *)
(* envelope and its topic (observation_envelope.rs, envelope_topic.rs) and *)
(* the reading the API makes of it (reading.rs, api/src/ingest.rs).        *)
(*                                                                         *)
(* Header bytes are bytes.  A sealed body is what it was sealed from: the  *)
(* AEAD is external, and it opens under the same key, nonce and associated *)
(* data and under nothing else.                                            *)
(***************************************************************************)
EXTENDS Wire, FiniteSets

CONSTANT Absent      \* no value

ASSUME AbsentAssumption == Absent \notin Int

Failed(why) == [ok |-> FALSE, why |-> why]

(***************************************************************************)
(* Measurements.                                                           *)
(***************************************************************************)

Kinds == {"battery", "temperature", "humidity"}
IdOf == [battery |-> 1, temperature |-> 2, humidity |-> 3]
ValueOf == [battery |-> U16, temperature |-> I16, humidity |-> U16]
Measurement == UNION {[kind : {k}, value : ValueOf[k]] : k \in Kinds}
VariantCount == 3
ItemLen == 3
TagLen == 16
MaxBodyLen == ItemLen * VariantCount + TagLen

EncodeMeasurement(m) ==
    LET v == LE16(m.value) IN <<IdOf[m.kind], v[1], v[2]>>
DecodeValue(kind, b) == IF kind = "temperature" THEN FromI16(b) ELSE FromU16(b)

(* The measurements one after the other.                                   *)
EncodeBody(ms) == [i \in 1 .. ItemLen * Len(ms) |->
    EncodeMeasurement(ms[(i + 2) \div ItemLen])[((i - 1) % ItemLen) + 1]]

(* The k-th item of a body, and what a body says of a kind.         *)
Item(body, k) == <<body[3 * k - 2], body[3 * k - 1], body[3 * k]>>
Items(body) == 1 .. Len(body) \div ItemLen
Field(body, kind) ==
    LET mine == {k \in Items(body) : Item(body, k)[1] = IdOf[kind]} IN
    IF mine = {} THEN Absent
    ELSE LET it == Item(body, CHOOSE k \in mine : TRUE) IN
         DecodeValue(kind, <<it[2], it[3]>>)

(* v1 set: no kind comes twice.                                            *)
Unique(body) ==
    \A j, k \in Items(body) : Item(body, j)[1] = Item(body, k)[1] => j = k

(* v1::decode: every value has two bytes, so an item has three; an id it   *)
(* does not know, a cut item, a kind twice or no item fail the packet.     *)
DecodeBody(body) ==
    IF \E k \in Items(body) : Item(body, k)[1] \notin {IdOf[kind] : kind \in Kinds}
    THEN Failed("UnknownId")
    ELSE IF ~ Unique(body) THEN Failed("Duplicate")
    ELSE IF Len(body) % ItemLen # 0 THEN Failed("Truncated")
    ELSE IF Len(body) = 0 THEN Failed("Empty")
    ELSE [ok |-> TRUE, metrics |-> [kind \in Kinds |-> Field(body, kind)]]

(***************************************************************************)
(* The packet: ver and seq in the clear, bound to the sealed body.  On air *)
(* the magic comes first.                                                  *)
(***************************************************************************)

Version == 1
AirMagic == <<72, 80>>

Nonce(seq) == LE32(seq) \o [i \in 1 .. 8 |-> 0]

(* Six bytes of address, the version, four of the number.                  *)
Associated(addr, ver, seq) == [i \in 1 .. 11 |->
    IF i <= 6 THEN addr[i] ELSE IF i = 7 THEN ver ELSE LE32(seq)[i - 7]]

Seal(key, addr, ver, seq, plain) ==
    [key |-> key, nonce |-> Nonce(seq), ad |-> Associated(addr, ver, seq), plain |-> plain]
NoBody == <<>>
SealedLen(body) == Len(body.plain) + TagLen

(* encode_air: what does not fit the buffer is an error.                   *)
EncodeAir(seq, ms, room, key, addr) ==
    IF Len(AirMagic) + 5 + ItemLen * Len(ms) + TagLen > room
    THEN Failed("OutputBufferTooSmall")
    ELSE [ok |-> TRUE,
          air |-> [head |-> LET s == LE32(seq) IN
                            <<AirMagic[1], AirMagic[2], Version, s[1], s[2], s[3], s[4]>>,
                   body |-> Seal(key, addr, Version, seq, EncodeBody(ms))]]
MaxAirLen == Len(AirMagic) + 5 + MaxBodyLen

(* strip_air_magic.                                                        *)
StripAirMagic(air) ==
    IF Len(air.head) < 2 THEN Failed("Truncated")
    ELSE IF air.head[1] # AirMagic[1] \/ air.head[2] # AirMagic[2] THEN Failed("InvalidPrefix")
    ELSE [ok |-> TRUE, packet |-> [head |-> SubSeq(air.head, 3, Len(air.head)),
                                   body |-> air.body]]

(* SensorPacket::parse needs no key.                                       *)
Parse(packet) ==
    IF Len(packet.head) < 5 THEN Failed("Truncated")
    ELSE LET h == packet.head IN
         [ok |-> TRUE, ver |-> h[1], seq |-> FromU32(<<h[2], h[3], h[4], h[5]>>),
          body |-> packet.body]

(* decode: authenticate, and only then ask what version it is.             *)
Decode(p, key, addr) ==
    IF p.body = NoBody THEN Failed("MissingTag")
    ELSE IF SealedLen(p.body) > MaxBodyLen THEN Failed("TooLong")
    ELSE IF p.body # Seal(key, addr, p.ver, p.seq, p.body.plain)
    THEN Failed("Authentication")
    ELSE IF p.ver # Version THEN Failed("UnsupportedVersion")
    ELSE DecodeBody(p.body.plain)

(***************************************************************************)
(* Downstream of the sensor.                                               *)
(***************************************************************************)

(* SensorObservation, as the receiver writes it and the gateway reads it.  *)
EncodeObservation(addr, age, rssi, packet) ==
    [head |-> [i \in 1 .. 11 |->
        IF i <= 6 THEN addr[i] ELSE IF i <= 10 THEN LE32(age)[i - 6] ELSE rssi % 256],
     packet |-> packet]
ParseObservation(o) == LET h == o.head IN
    [addr |-> [i \in 1 .. 6 |-> h[i]], age |-> FromU32(<<h[7], h[8], h[9], h[10]>>),
     rssi |-> FromI8(h[11]), packet |-> o.packet]

(* from_observation: the time of capture on the gateway's clock.           *)
FromObservation(o, now) ==
    [addr |-> o.addr, rssi |-> o.rssi, received |-> now - o.age, packet |-> o.packet]

(* EnvelopeTopic, level by level:                                          *)
(* homescope/<site>/sensors/<device-addr>/envelope.                        *)
Topic(site, addr) == <<"homescope", site, "sensors", AddrHex(addr), "envelope">>
ParseTopic(levels) ==
    IF Len(levels) # 5 THEN Failed("Shape")
    ELSE IF <<levels[1], levels[3], levels[5]>> # <<"homescope", "sensors", "envelope">>
    THEN Failed("Shape")
    ELSE IF ~ IsSite(levels[2]) THEN Failed("Site")
    ELSE IF ~ IsAddrHex(levels[4]) THEN Failed("DeviceAddr")
    ELSE [ok |-> TRUE, site |-> levels[2], addr |-> AddrFromHex(levels[4])]

(* mqtt_envelope_sender: the topic carries the gateway's site and the      *)
(* device's address, the payload the address once more.                    *)
EncodePublish(site, envelope) ==
    [topic |-> Topic(site, envelope.addr),
     payload |-> [envelope EXCEPT !.addr = AddrHex(@)]]

(* decode_publish: both are parsed, and have to agree.                     *)
DecodePublish(publish) ==
    LET topic == ParseTopic(publish.topic) IN
    IF ~ topic.ok THEN topic
    ELSE IF ~ IsAddrHex(publish.payload.addr) THEN Failed("Payload")
    ELSE IF topic.addr # AddrFromHex(publish.payload.addr) THEN Failed("DeviceAddrMismatch")
    ELSE [ok |-> TRUE, site |-> topic.site,
          envelope |-> [publish.payload EXCEPT !.addr = topic.addr]]

(* open_envelope, with the cipher of the envelope's address.               *)
OpenEnvelope(envelope, key) ==
    LET p == Parse(envelope.packet) IN
    IF ~ p.ok THEN p
    ELSE LET d == Decode(p, key, envelope.addr) IN
         IF ~ d.ok THEN d
         ELSE [ok |-> TRUE, addr |-> envelope.addr, seq |-> p.seq, rssi |-> envelope.rssi,
               received |-> envelope.received, metrics |-> d.metrics]
===============================================================================
