--------------------------- MODULE SensorTasksProofs ---------------------------
(***************************************************************************)
(* The sensor's two tasks: they run the counter and nothing else, so what  *)
(* is proved of the counter holds of them; bursts go out in the order of   *)
(* their numbers; and a burst tells the API what was sampled for it.       *)
(***************************************************************************)
EXTENDS SensorTasks, SeqCounterProofs

(***************************************************************************)
(* What is written is what is read: the conversions of Wire and Packets    *)
(* lose nothing, for every address, key and number, and a sealed body      *)
(* opens under what it was sealed with and under nothing else.             *)
(***************************************************************************)

(***************************************************************************)
(* Quotient and remainder by 256 are the two digits of a number.           *)
(***************************************************************************)
LEMMA Digits ==
    ASSUME NEW q \in Int, NEW r \in Int, NEW a \in Int, NEW b \in Int,
           0 <= r, r <= 255, 0 <= b, b <= 255, 256 * q + r = 256 * a + b
    PROVE  a = q /\ b = r
BY SMT

LEMMA Split ==
    ASSUME NEW n \in Int
    PROVE  /\ n \div 256 \in Int /\ n % 256 \in Int
           /\ 0 <= n % 256 /\ n % 256 <= 255
           /\ n = 256 * (n \div 256) + (n % 256)
BY SMT

LEMMA Joined ==
    ASSUME NEW q \in Int, NEW r \in Int, 0 <= r, r <= 255
    PROVE  (256 * q + r) \div 256 = q /\ (256 * q + r) % 256 = r
<1> DEFINE m == 256 * q + r
<1>1. m \in Int
  BY SMT
<1>2. /\ m \div 256 \in Int /\ m % 256 \in Int
      /\ 0 <= m % 256 /\ m % 256 <= 255
      /\ m = 256 * (m \div 256) + (m % 256)
  BY <1>1, Split
<1>3. m \div 256 = q /\ m % 256 = r
  BY <1>2, Digits
<1> QED BY <1>3

LEMMA HighByte ==
    ASSUME NEW n \in Int, 0 <= n, n <= 65535
    PROVE  0 <= n \div 256 /\ n \div 256 <= 255 /\ (n \div 256) % 256 = n \div 256
<1> DEFINE a == n \div 256  b == n % 256
<1>1. /\ a \in Int /\ b \in Int /\ 0 <= b /\ b <= 255 /\ n = 256 * a + b
  BY Split
<1> HIDE DEF a, b
<1>2. 0 <= a /\ a <= 255
  BY SMT, <1>1
<1>3. (256 * 0 + a) % 256 = a
  BY <1>1, <1>2, Joined
<1>4. 256 * 0 + a = a
  BY SMT, <1>1
<1> QED BY <1>2, <1>3, <1>4 DEF a

LEMMA SplitWord ==
    ASSUME NEW n \in Int
    PROVE  /\ n \div 65536 \in Int /\ n % 65536 \in Int
           /\ 0 <= n % 65536 /\ n % 65536 <= 65535
           /\ n = 65536 * (n \div 65536) + (n % 65536)
BY SMT

LEMMA JoinedWord ==
    ASSUME NEW q \in Int, NEW r \in Int, 0 <= r, r <= 65535
    PROVE  (65536 * q + r) \div 65536 = q
<1> DEFINE m == 65536 * q + r  a == m \div 65536  b == m % 65536
<1>1. m \in Int
  BY SMT
<1>2. /\ a \in Int /\ b \in Int /\ 0 <= b /\ b <= 65535
      /\ m = 65536 * a + b
  BY <1>1, SplitWord
<1>3. 65536 * q + r = 65536 * a + b
  BY <1>2
<1> HIDE DEF a, b, m
<1>4. a = q
  BY SMT, <1>2, <1>3
<1> QED BY <1>4 DEF a, m

-------------------------------------------------------------------------------

(***************************************************************************)
(* Two bytes (wire.rs Wire::encode and Wire::decode for u16 and i16).      *)
(***************************************************************************)

LEMMA LE16Bytes ==
    ASSUME NEW n \in Int
    PROVE  /\ LE16(n)[1] = n % 256 /\ LE16(n)[2] = (n \div 256) % 256
           /\ LE16(n) \in Byte \X Byte
<1>1. n \div 256 \in Int
  BY Split
<1>2. n % 256 \in Byte /\ (n \div 256) % 256 \in Byte
  BY <1>1, Split DEF Byte
<1> QED BY <1>2 DEF LE16

LEMMA U16Is == ASSUME NEW n PROVE n \in U16 <=> n \in Int /\ 0 <= n /\ n <= 65535
<1>1. MaxU16 \in Int
  BY SMT DEF MaxU16
<1>2. n \in U16 <=> n \in Int /\ 0 <= n /\ n <= MaxU16
  BY <1>1 DEF U16
<1> QED BY <1>2 DEF MaxU16

THEOREM U16RoundTrip == \A n \in U16 : FromU16(LE16(n)) = n
<1> SUFFICES ASSUME NEW n \in U16 PROVE FromU16(LE16(n)) = n
  OBVIOUS
<1>1. n \in Int /\ 0 <= n /\ n <= 65535
  BY U16Is
<1>2. FromU16(LE16(n)) = (n % 256) + 256 * (n \div 256)
  BY <1>1, HighByte DEF FromU16, LE16
<1>3. n = (n % 256) + 256 * (n \div 256)
  BY SMT, <1>1, Split
<1> QED BY <1>2, <1>3

LEMMA I16Is ==
    ASSUME NEW n PROVE n \in I16 <=> n \in Int /\ -32768 <= n /\ n <= 32767
<1>1. MinI16 \in Int /\ MaxI16 \in Int
  BY SMT DEF MinI16, MaxI16
<1>2. n \in I16 <=> n \in Int /\ MinI16 <= n /\ n <= MaxI16
  BY <1>1 DEF I16
<1> QED BY <1>2 DEF MinI16, MaxI16

LEMMA NegativeHighByte ==
    ASSUME NEW n \in Int, -32768 <= n, n < 0
    PROVE  /\ -128 <= n \div 256 /\ n \div 256 <= -1
           /\ (n \div 256) % 256 = (n \div 256) + 256
<1> DEFINE a == n \div 256  b == n % 256
<1>1. /\ a \in Int /\ b \in Int /\ 0 <= b /\ b <= 255 /\ n = 256 * a + b
  BY Split
<1> HIDE DEF a, b
<1>2. -128 <= a /\ a <= -1
  BY SMT, <1>1
<1>3. a + 256 \in Int /\ 0 <= a + 256 /\ a + 256 <= 255
  BY SMT, <1>1, <1>2
<1>4. (256 * (-1) + (a + 256)) % 256 = a + 256
  BY <1>3, Joined
<1>5. 256 * (-1) + (a + 256) = a
  BY SMT, <1>1
<1> QED BY <1>2, <1>4, <1>5 DEF a

(* A temperature below zero survives its two bytes.                        *)
THEOREM I16RoundTrip == \A n \in I16 : FromI16(LE16(n)) = n
<1> SUFFICES ASSUME NEW n \in I16 PROVE FromI16(LE16(n)) = n
  OBVIOUS
<1>1. n \in Int /\ -32768 <= n /\ n <= 32767
  BY I16Is
<1> DEFINE a == n \div 256  b == n % 256
<1>2. /\ a \in Int /\ b \in Int /\ 0 <= b /\ b <= 255 /\ n = 256 * a + b
  BY <1>1, Split
<1>3. FromU16(LE16(n)) = b + 256 * (a % 256)
  BY DEF FromU16, LE16
<1> HIDE DEF a, b
<1>4. CASE 0 <= n
  <2>1. a % 256 = a
    BY SMT, <1>1, <1>4, HighByte DEF a
  <2>2. FromU16(LE16(n)) = n
    BY SMT, <1>2, <1>3, <2>1
  <2> QED BY SMT, <1>1, <2>2 DEF FromI16
<1>5. CASE n < 0
  <2>1. a % 256 = a + 256
    BY <1>1, <1>5, NegativeHighByte DEF a
  <2>2. FromU16(LE16(n)) = n + 65536
    BY SMT, <1>2, <1>3, <2>1
  <2> QED BY SMT, <1>1, <1>5, <2>2 DEF FromI16
<1> QED BY SMT, <1>1, <1>4, <1>5

-------------------------------------------------------------------------------

(***************************************************************************)
(* Four bytes: the sequence number, the age and the words of a key.        *)
(***************************************************************************)

THEOREM U32RoundTrip == ASSUME NEW n, IsU32(n) PROVE FromU32(LE32(n)) = n
<1> DEFINE h == n \div 65536  l == n % 65536
<1>0. n \in Nat /\ n \in Int /\ n \div 65536 <= 65535
  BY DEF IsU32, MaxU16
<1>1. h \in Int /\ l \in Int /\ 0 <= l /\ l <= 65535 /\ n = 65536 * h + l
  BY <1>0, SplitWord
<1>2. FromU32(LE32(n)) =
        ((n % 256) + 256 * ((n \div 256) % 256)) + 65536 * FromU16(LE16(h))
  BY DEF FromU32, FromU16, LE32, LE16
<1> HIDE DEF h, l
<1>3. 0 <= h /\ h <= 65535
  <2>1. h <= 65535
    BY <1>0 DEF h
  <2> QED BY SMT, <1>0, <1>1, <2>1
<1>4. FromU16(LE16(h)) = h
  <2>1. h \in U16
    BY <1>1, <1>3, U16Is
  <2> QED BY <2>1, U16RoundTrip
<1>5. (n % 256) + 256 * ((n \div 256) % 256) = l
  <2> DEFINE a == l \div 256  b == l % 256
  <2>1. /\ a \in Int /\ b \in Int /\ 0 <= b /\ b <= 255 /\ l = 256 * a + b
    BY <1>1, Split
  <2>2. 0 <= a /\ a <= 255
    BY <1>1, HighByte
  <2> HIDE DEF a, b
  <2>3. n = 256 * (256 * h + a) + b /\ 256 * h + a \in Int
    BY SMT, <1>1, <2>1
  <2>4. n \div 256 = 256 * h + a /\ n % 256 = b
    BY <2>1, <2>3, Joined
  <2>5. (n \div 256) % 256 = a
    BY <1>1, <2>1, <2>2, <2>4, Joined
  <2> QED BY SMT, <2>1, <2>4, <2>5
<1> QED BY SMT, <1>1, <1>2, <1>4, <1>5

(* Four bytes read as a word and written again are the same bytes.         *)
LEMMA WordRoundTrip ==
    ASSUME NEW a \in Byte, NEW b \in Byte, NEW c \in Byte, NEW d \in Byte
    PROVE  /\ LE32(FromU32(<<a, b, c, d>>)) = <<a, b, c, d>>
           /\ IsU32(FromU32(<<a, b, c, d>>))
<1> DEFINE l == 256 * b + a  h == 256 * d + c  n == 65536 * h + l
           m == 256 * h + b
<1>1. /\ a \in Int /\ b \in Int /\ c \in Int /\ d \in Int
      /\ 0 <= a /\ a <= 255 /\ 0 <= b /\ b <= 255
      /\ 0 <= c /\ c <= 255 /\ 0 <= d /\ d <= 255
  BY SMT DEF Byte
<1>2. /\ h \in Int /\ l \in Int /\ n \in Int /\ m \in Int
      /\ 0 <= l /\ l <= 65535 /\ n = 256 * m + a
  BY SMT, <1>1
<1>3. FromU32(<<a, b, c, d>>) = n
  BY SMT, <1>1 DEF FromU32, FromU16
<1>4. n \div 65536 = h
  <2> HIDE DEF h, l
  <2> QED BY <1>2, JoinedWord
<1>5. n \div 256 = m /\ n % 256 = a
  <2> HIDE DEF n, m
  <2> QED BY <1>1, <1>2, Joined
<1>6. m % 256 = b
  BY <1>1, <1>2, Joined
<1>7. h \div 256 = d /\ h % 256 = c
  BY <1>1, Joined
<1>8. (256 * 0 + d) % 256 = d /\ 256 * 0 + d = d
  <2>1. (256 * 0 + d) % 256 = d
    BY <1>1, Joined
  <2> QED BY SMT, <1>1, <2>1
<1>9. n \in Nat /\ h <= 65535
  BY SMT, <1>1
<1> HIDE DEF l, h, n, m
<1>10. IsU32(n)
  BY <1>4, <1>9 DEF IsU32, MaxU16
<1>11. LE32(n) = <<a, m % 256, h % 256, (h \div 256) % 256>>
  BY <1>4, <1>5 DEF LE32
<1> QED BY <1>3, <1>6, <1>7, <1>8, <1>11, <1>10

-------------------------------------------------------------------------------

(***************************************************************************)
(* Hex digits.                                                             *)
(***************************************************************************)

LEMMA Hex ==
    ASSUME NEW b \in Byte PROVE 16 * (b \div 16) + (b % 16) = b
BY SMT DEF Byte

(* An address printed for a topic or an envelope parses to itself          *)
(* (device_addr.rs encode_hex and from_str).                               *)
THEOREM AddrRoundTrip == \A a \in DeviceAddr : AddrFromHex(AddrHex(a)) = a
<1> SUFFICES ASSUME NEW a \in DeviceAddr PROVE AddrFromHex(AddrHex(a)) = a
  OBVIOUS
<1>1. a \in [1 .. 6 -> Byte]
  BY DEF DeviceAddr, Bytes
<1> DEFINE h == AddrHex(a)
<1>2. ASSUME NEW i \in 1 .. 6 PROVE 16 * h[13 - 2 * i] + h[14 - 2 * i] = a[i]
  <2>1. /\ 13 - 2 * i \in 1 .. 12 /\ 14 - 2 * i \in 1 .. 12
        /\ (13 - 2 * i) % 2 = 1 /\ (14 - 2 * i) % 2 = 0
        /\ 6 - (13 - 2 * i - 1) \div 2 = i /\ 6 - (14 - 2 * i - 1) \div 2 = i
    BY SMT
  <2>2. h[13 - 2 * i] = a[i] \div 16 /\ h[14 - 2 * i] = a[i] % 16
    BY <2>1 DEF AddrHex
  <2> QED BY <1>1, <2>2, Hex
<1> HIDE DEF h
<1>3. AddrFromHex(h) = [i \in 1 .. 6 |-> a[i]]
  BY <1>2 DEF AddrFromHex
<1> QED BY <1>1, <1>3 DEF h

LEMMA AddrHexDigits == \A a \in DeviceAddr : IsAddrHex(AddrHex(a))
<1> SUFFICES ASSUME NEW a \in DeviceAddr PROVE IsAddrHex(AddrHex(a))
  OBVIOUS
<1>1. a \in [1 .. 6 -> Byte]
  BY DEF DeviceAddr, Bytes
<1>2. ASSUME NEW b \in Byte PROVE b \div 16 \in Digit /\ b % 16 \in Digit
  BY SMT, <1>2 DEF Byte, Digit
<1>3. \A i \in 1 .. 12 : 6 - (i - 1) \div 2 \in 1 .. 6
  BY SMT
<1>4. \A i \in 1 .. 12 : AddrHex(a)[i] \in Digit
  BY <1>1, <1>2, <1>3 DEF AddrHex
<1>5. Len(AddrHex(a)) = 12
  BY DEF AddrHex
<1> QED BY <1>4, <1>5 DEF IsAddrHex

(* The topic the gateway builds is one the API parses, to the site and the *)
(* address it was built for (envelope_topic.rs Display and from_str).      *)
THEOREM TopicRoundTrip ==
    ASSUME NEW site, IsSite(site), NEW addr \in DeviceAddr
    PROVE  ParseTopic(Topic(site, addr)) = [ok |-> TRUE, site |-> site, addr |-> addr]
<1> DEFINE h == AddrHex(addr)
           t == <<"homescope", site, "sensors", h, "envelope">>
<1>1. IsAddrHex(h) /\ AddrFromHex(h) = addr
  BY AddrHexDigits, AddrRoundTrip
<1> HIDE DEF h
<1>2. /\ Len(t) = 5 /\ t[2] = site /\ t[4] = h
      /\ t[1] = "homescope" /\ t[3] = "sensors" /\ t[5] = "envelope"
  OBVIOUS
<1> HIDE DEF t
<1>3. ParseTopic(t) = [ok |-> TRUE, site |-> site, addr |-> addr]
  BY <1>1, <1>2 DEF ParseTopic
<1>4. Topic(site, addr) = t
  BY DEF Topic, t, h
<1> QED BY <1>3, <1>4

(* The key the API answers in hex is the key the tool installs             *)
(* (device_key.rs to_hex and from_hex).                                    *)
THEOREM KeyHexRoundTrip == \A key \in DeviceKey : KeyFromHex(KeyHex(key)) = key
<1> SUFFICES ASSUME NEW key \in DeviceKey PROVE KeyFromHex(KeyHex(key)) = key
  OBVIOUS
<1>1. KeySize \in Nat
  BY KeyAssumption DEF KeySize
<1>2. key \in [1 .. KeySize -> Byte]
  BY DEF DeviceKey, Bytes
<1> DEFINE h == KeyHex(key)
<1>3. ASSUME NEW i \in 1 .. KeySize PROVE 16 * h[2 * i - 1] + h[2 * i] = key[i]
  <2>1. /\ 2 * i - 1 \in 1 .. 2 * KeySize /\ 2 * i \in 1 .. 2 * KeySize
        /\ (2 * i - 1) % 2 = 1 /\ (2 * i) % 2 = 0
        /\ (2 * i - 1 + 1) \div 2 = i /\ (2 * i + 1) \div 2 = i
    BY SMT, <1>1
  <2>2. h[2 * i - 1] = key[i] \div 16 /\ h[2 * i] = key[i] % 16
    BY <2>1 DEF KeyHex
  <2> QED BY <1>2, <2>2, Hex
<1> HIDE DEF h
<1>4. KeyFromHex(h) = [i \in 1 .. KeySize |-> key[i]]
  BY <1>3 DEF KeyFromHex
<1> QED BY <1>2, <1>4 DEF h

(* A record the tool writes reads back as present and as the key it was    *)
(* written for (uicr_record.rs encode, decode_header and decode).          *)
THEOREM RecordRoundTrip ==
    \A key \in DeviceKey :
        /\ DecodeHeader(EncodeRecord(key)[0]) = "present"
        /\ DecodeKey(EncodeRecord(key)) = key
<1> SUFFICES ASSUME NEW key \in DeviceKey
             PROVE  /\ DecodeHeader(EncodeRecord(key)[0]) = "present"
                    /\ DecodeKey(EncodeRecord(key)) = key
  OBVIOUS
<1>1. KeySize \in Nat /\ KeySize = 4 * KeyWords /\ KeyWords \in Nat
  BY KeyAssumption DEF KeySize
<1>2. key \in [1 .. KeySize -> Byte]
  BY DEF DeviceKey, Bytes
<1> DEFINE words == EncodeRecord(key)
<1>3. DecodeHeader(words[0]) = "present"
  <2>1. words[0] = FromU32(<<72, 75, 1, 0>>)
    BY <1>1 DEF EncodeRecord, Header
  <2>2. 72 \in Byte /\ 75 \in Byte /\ 1 \in Byte /\ 0 \in Byte
    BY SMT DEF Byte
  <2>3. LE32(words[0]) = <<72, 75, 1, 0>>
    <3> HIDE DEF words
    <3> QED BY <2>1, <2>2, WordRoundTrip
  <2> HIDE DEF words
  <2> QED BY <2>3 DEF DecodeHeader
<1>4. ASSUME NEW i \in 1 .. KeySize
      PROVE  LE32(words[(i + 3) \div 4])[((i - 1) % 4) + 1] = key[i]
  <2> DEFINE w == (i + 3) \div 4  k == ((i - 1) % 4) + 1
  <2>1. /\ w \in 1 .. KeyWords /\ k \in 1 .. 4 /\ i = 4 * (w - 1) + k
        /\ w \in 0 .. KeyWords /\ w # 0
    BY SMT, <1>1
  <2>2. /\ 4 * w - 3 \in 1 .. KeySize /\ 4 * w - 2 \in 1 .. KeySize
        /\ 4 * w - 1 \in 1 .. KeySize /\ 4 * w \in 1 .. KeySize
    BY SMT, <1>1, <2>1
  <2> HIDE DEF w, k
  <2>3. words[w] = FromU32(<<key[4 * w - 3], key[4 * w - 2], key[4 * w - 1], key[4 * w]>>)
    BY <2>1 DEF EncodeRecord
  <2>4. LE32(words[w]) = <<key[4 * w - 3], key[4 * w - 2], key[4 * w - 1], key[4 * w]>>
    <3> HIDE DEF words
    <3> QED BY <1>2, <2>2, <2>3, WordRoundTrip
  <2>5. LE32(words[w])[k] = key[i]
    <3>1. k = 1 \/ k = 2 \/ k = 3 \/ k = 4
      BY <2>1
    <3> HIDE DEF words
    <3> QED BY <2>1, <2>4, <3>1
  <2> QED BY <2>5 DEF w, k
<1> HIDE DEF words
<1>5. DecodeKey(words) = [i \in 1 .. KeySize |-> key[i]]
  BY <1>4 DEF DecodeKey
<1> QED BY <1>2, <1>3, <1>5 DEF words

-------------------------------------------------------------------------------

(***************************************************************************)
(* The body of a packet.                                                   *)
(***************************************************************************)

LEMMA ValueRoundTrip ==
    \A m \in Measurement : m.kind \in Kinds /\ DecodeValue(m.kind, LE16(m.value)) = m.value
<1> SUFFICES ASSUME NEW kind \in Kinds, NEW m \in [kind : {kind}, value : ValueOf[kind]]
             PROVE  m.kind \in Kinds /\ DecodeValue(m.kind, LE16(m.value)) = m.value
  BY DEF Measurement
<1>1. m.kind = kind /\ m.value \in ValueOf[kind]
  OBVIOUS
<1>2. CASE kind = "temperature"
  <2>1. m.value \in I16
    BY <1>1, <1>2 DEF ValueOf
  <2> QED BY <1>1, <1>2, <2>1, I16RoundTrip DEF DecodeValue
<1>3. CASE kind \in {"battery", "humidity"}
  <2>1. m.value \in U16 /\ kind # "temperature"
    BY <1>1, <1>3 DEF ValueOf
  <2> QED BY <1>1, <2>1, U16RoundTrip DEF DecodeValue
<1> QED BY <1>2, <1>3 DEF Kinds

LEMMA BodyItems ==
    ASSUME NEW ms \in Seq(Measurement)
    PROVE  /\ Len(EncodeBody(ms)) = 3 * Len(ms)
           /\ Items(EncodeBody(ms)) = 1 .. Len(ms)
           /\ \A k \in 1 .. Len(ms) : Item(EncodeBody(ms), k) = EncodeMeasurement(ms[k])
<1> DEFINE body == EncodeBody(ms)  n == 3 * Len(ms)
<1>1. Len(ms) \in Nat /\ n \in Nat
  OBVIOUS
<1>2. body = [i \in 1 .. n |-> EncodeMeasurement(ms[(i + 2) \div 3])[((i - 1) % 3) + 1]]
  BY DEF EncodeBody, ItemLen
<1>3. Len(body) = n
  BY <1>1, <1>2
<1>4. n \div 3 = Len(ms)
  BY SMT, <1>1
<1>5. Items(body) = 1 .. Len(ms)
  BY <1>3, <1>4 DEF Items, ItemLen
<1>6. ASSUME NEW k \in 1 .. Len(ms) PROVE Item(body, k) = EncodeMeasurement(ms[k])
  <2>1. /\ 3 * k - 2 \in 1 .. n /\ 3 * k - 1 \in 1 .. n /\ 3 * k \in 1 .. n
        /\ (3 * k - 2 + 2) \div 3 = k /\ (3 * k - 1 + 2) \div 3 = k /\ (3 * k + 2) \div 3 = k
        /\ (3 * k - 2 - 1) % 3 = 0 /\ (3 * k - 1 - 1) % 3 = 1 /\ (3 * k - 1) % 3 = 2
    BY SMT, <1>1
  <2> HIDE DEF body, n
  <2>2. /\ body[3 * k - 2] = EncodeMeasurement(ms[k])[1]
        /\ body[3 * k - 1] = EncodeMeasurement(ms[k])[2]
        /\ body[3 * k] = EncodeMeasurement(ms[k])[3]
    BY <1>2, <2>1
  <2> QED BY <2>2 DEF Item, EncodeMeasurement
<1> HIDE DEF body
<1> QED BY <1>3, <1>5, <1>6 DEF body

(* A packet's measurements, no kind twice and at least one, decode to      *)
(* their values and to nothing else (packet/v1.rs set and decode).         *)
THEOREM BodyRoundTrip ==
    ASSUME NEW ms \in Seq(Measurement), Len(ms) > 0,
           \A j, k \in 1 .. Len(ms) : ms[j].kind = ms[k].kind => j = k
    PROVE  LET d == DecodeBody(EncodeBody(ms)) IN
           /\ d.ok
           /\ \A k \in 1 .. Len(ms) : d.metrics[ms[k].kind] = ms[k].value
           /\ \A kind \in Kinds :
                (\A k \in 1 .. Len(ms) : ms[k].kind # kind) => d.metrics[kind] = Absent
<1> DEFINE body == EncodeBody(ms)
<1>1. \A k \in 1 .. Len(ms) : ms[k] \in Measurement /\ ms[k].kind \in Kinds
  BY ValueRoundTrip
<1>2. /\ Len(body) = 3 * Len(ms) /\ Items(body) = 1 .. Len(ms)
      /\ \A k \in 1 .. Len(ms) : Item(body, k) = EncodeMeasurement(ms[k])
  BY BodyItems
<1> HIDE DEF body
<1>3. \A k \in 1 .. Len(ms) : /\ Item(body, k)[1] = IdOf[ms[k].kind]
                              /\ <<Item(body, k)[2], Item(body, k)[3]>> = LE16(ms[k].value)
  BY <1>2 DEF EncodeMeasurement, LE16
<1>4. \A p, q \in Kinds : IdOf[p] = IdOf[q] => p = q
  BY DEF IdOf, Kinds
<1>5. Unique(body)
  BY <1>1, <1>2, <1>3, <1>4 DEF Unique
<1>6. \A k \in Items(body) : Item(body, k)[1] \in {IdOf[kind] : kind \in Kinds}
  BY <1>1, <1>2, <1>3
<1>7. Len(body) % ItemLen = 0 /\ Len(body) # 0
  <2>1. Len(ms) \in Nat
    OBVIOUS
  <2> QED BY SMT, <1>2, <2>1 DEF ItemLen
<1>8. DecodeBody(body) = [ok |-> TRUE, metrics |-> [kind \in Kinds |-> Field(body, kind)]]
  BY <1>5, <1>6, <1>7 DEF DecodeBody
<1>9. ASSUME NEW k \in 1 .. Len(ms) PROVE Field(body, ms[k].kind) = ms[k].value
  <2> DEFINE kind == ms[k].kind
             mine == {j \in Items(body) : Item(body, j)[1] = IdOf[kind]}
  <2>1. \A j \in 1 .. Len(ms) : j \in mine <=> j = k
    BY <1>1, <1>2, <1>3, <1>4
  <2>2. mine = {k}
    BY <1>2, <2>1
  <2>3. (CHOOSE j \in mine : TRUE) = k
    BY <2>2
  <2>4. DecodeValue(kind, LE16(ms[k].value)) = ms[k].value
    BY <1>1, ValueRoundTrip
  <2>5. Field(body, kind) = DecodeValue(kind, <<Item(body, k)[2], Item(body, k)[3]>>)
    BY <2>2, <2>3 DEF Field
  <2> QED BY <1>3, <2>4, <2>5
<1>10. ASSUME NEW kind \in Kinds, \A k \in 1 .. Len(ms) : ms[k].kind # kind
       PROVE  Field(body, kind) = Absent
  BY <1>1, <1>2, <1>3, <1>4, <1>10 DEF Field
<1> QED BY <1>1, <1>8, <1>9, <1>10 DEF body

-------------------------------------------------------------------------------

LEMMA AssociatedParts ==
    ASSUME NEW addr \in DeviceAddr, NEW ver \in Byte, NEW seq \in Nat
    PROVE  LET ad == Associated(addr, ver, seq) IN
           /\ \A i \in 1 .. 6 : ad[i] = addr[i]
           /\ ad[7] = ver
           /\ \A j \in 1 .. 4 : ad[7 + j] = LE32(seq)[j]
<1>1. \A i \in 1 .. 6 : i \in 1 .. 11 /\ i <= 6
  OBVIOUS
<1>2. 7 \in 1 .. 11 /\ ~ (7 <= 6)
  OBVIOUS
<1>3. \A j \in 1 .. 4 : 7 + j \in 1 .. 11 /\ ~ (7 + j <= 6) /\ 7 + j # 7 /\ 7 + j - 7 = j
  OBVIOUS
<1> QED BY <1>1, <1>2, <1>3 DEF Associated

(* A sealed body opens under its own number, version, address and key      *)
(* only (packet/cipher.rs associated_data and nonce; packet.rs decode).    *)
THEOREM OpensOnlyAsSealed ==
    ASSUME NEW key, NEW other,
           NEW addr \in DeviceAddr, NEW from \in DeviceAddr,
           NEW seq, IsU32(seq), NEW plain,
           NEW p, p.ver \in Byte, IsU32(p.seq), p.body = Seal(key, addr, Version, seq, plain),
           Decode(p, other, from).ok
    PROVE  other = key /\ from = addr /\ p.ver = Version /\ p.seq = seq
<1>1. p.body = Seal(other, from, p.ver, p.seq, p.body.plain) /\ p.ver = Version
  BY DEF Decode, Failed
<1>2. /\ p.body.key = key /\ p.body.key = other
      /\ p.body.ad = Associated(addr, Version, seq)
      /\ p.body.ad = Associated(from, p.ver, p.seq)
  BY <1>1 DEF Seal
<1>3. Version \in Byte /\ seq \in Nat /\ p.seq \in Nat
  <2>1. Version \in Byte
    BY SMT DEF Version, Byte
  <2> QED BY <2>1 DEF IsU32
<1> DEFINE one == Associated(addr, Version, seq)  two == Associated(from, p.ver, p.seq)
<1>4. /\ \A i \in 1 .. 6 : one[i] = addr[i]
      /\ \A j \in 1 .. 4 : one[7 + j] = LE32(seq)[j]
  BY <1>3, AssociatedParts
<1>5. /\ \A i \in 1 .. 6 : two[i] = from[i]
      /\ \A j \in 1 .. 4 : two[7 + j] = LE32(p.seq)[j]
  BY <1>3, AssociatedParts
<1>6. one = two
  BY <1>2
<1> HIDE DEF one, two
<1>7. from = addr
  <2>1. \A i \in 1 .. 6 : from[i] = addr[i]
    BY <1>4, <1>5, <1>6
  <2> QED BY <2>1 DEF DeviceAddr, Bytes
<1>8. LE32(p.seq) = LE32(seq)
  <2>1. \A j \in 1 .. 4 : LE32(p.seq)[j] = LE32(seq)[j]
    BY <1>4, <1>5, <1>6
  <2> QED BY <2>1 DEF LE32
<1>9. p.seq = seq
  BY <1>8, U32RoundTrip
<1> QED BY <1>1, <1>2, <1>7, <1>9

-------------------------------------------------------------------------------

(***************************************************************************)
(* A step of the tasks is a step of the counter, or leaves it alone.       *)
(***************************************************************************)
LEMMA CounterStep == [SensorNext]_sensorVars => [Next]_vars
<1> SUFFICES ASSUME [SensorNext]_sensorVars PROVE [Next]_vars
  OBVIOUS
<1>1. CASE Boot
  BY <1>1 DEF Boot, Next
<1>2. CASE TakeSample
  BY <1>2 DEF TakeSample
<1>3. CASE Reserve
  BY <1>3 DEF Reserve, Next
<1>4. CASE Build
  BY <1>4 DEF Build, Next
<1>5. CASE Skip
  BY <1>5 DEF Skip, Next
<1>6. CASE Cadence
  BY <1>6 DEF Cadence
<1>7. CASE StartBurst
  BY <1>7 DEF StartBurst
<1>8. CASE EndBurst
  BY <1>8 DEF EndBurst
<1>9. CASE LosePower
  BY <1>9 DEF LosePower, Next
<1>10. CASE UNCHANGED sensorVars
  BY <1>10 DEF sensorVars
<1> QED
  BY <1>1, <1>2, <1>3, <1>4, <1>5, <1>6, <1>7, <1>8, <1>9, <1>10 DEF SensorNext

(* The tasks implement the counter (main.rs telemetry_task over            *)
(* seq_counter.rs).                                                        *)
THEOREM RunsTheCounter == SensorSpec => Spec
<1>1. SensorInit => Init
  BY DEF SensorInit
<1> QED
  BY <1>1, CounterStep, PTL DEF SensorSpec, Spec

(* What telemetry_task draws is the strictly increasing nonce source.      *)
THEOREM TasksDrawNonces == Lifetime < Modulus => (SensorSpec => ImplementsNonceSource)
  BY RunsTheCounter, NonceUnique

(* Nor do the tasks ever meet the read-back assertion, whatever is cut     *)
(* short, on flash that writes and erases as NOR flash does.               *)
THEOREM TasksReadBack ==
    SoundFlash /\ Lifetime < Modulus => (SensorSpec => []ReadbackMatches)
  BY RunsTheCounter, ReadbackHolds

-------------------------------------------------------------------------------

(***************************************************************************)
(* What the order of the bursts rests on: what waits in the signal is      *)
(* newer than all that went on air or was lost, and no newer than the last *)
(* number drawn.                                                           *)
(***************************************************************************)
InOrder ==
    /\ IInv
    /\ settled \in Word \cup {-1} /\ settled <= last
    /\ signal # Absent => signal.n \in Word /\ settled < signal.n /\ signal.n <= last

LEMMA CounterAdvances ==
    ASSUME InOrder, [Next]_vars, Lifetime < Modulus
    PROVE  /\ IInv' /\ last \in Int /\ last' \in Int /\ last' >= last
           /\ last' # last => last' \in Word
<1>1. IInv' /\ [Source!Draw]_<<last, drawn>>
  BY NextInv DEF InOrder
<1>2. TypeOK /\ TypeOK'
  BY <1>1 DEF InOrder, IInv
<1>3. last \in Int /\ last' \in Int /\ last >= -1 /\ last' \in Word \cup {-1}
  BY <1>2, SizeAssumption DEF TypeOK, Word
<1>4. last' >= last
  BY <1>1, <1>3 DEF Source!Draw
<1> QED
  BY <1>1, <1>3, <1>4

(* A number that Build seals is a fresh one.                               *)
LEMMA BuildDraws ==
    ASSUME InOrder, DrawReserved \/ WriteCeiling, pc' = "idle", Lifetime < Modulus
    PROVE  last' > last /\ last' \in Word
<1>1. IInv /\ TypeOK
  BY DEF InOrder, IInv
<1>2. CASE DrawReserved
  BY <1>1, <1>2, DrawReservedInv DEF DrawReserved, Draw, TypeOK
<1>3. CASE WriteCeiling
  <2>1. Draw
    BY <1>3 DEF WriteCeiling
  <2>2. last' = next_seq /\ drawn' = drawn + 1 /\ drawn \in Nat /\ next_seq \in Word
    BY <1>1, <2>1 DEF Draw, TypeOK
  <2>3. \/ last' > last /\ drawn' = drawn + 1
        \/ UNCHANGED <<last, drawn>>
    BY <1>1, <1>3, WriteCeilingInv
  <2> QED
    BY <2>2, <2>3
<1> QED
  BY <1>2, <1>3

LEMMA OrderStep ==
    ASSUME InOrder, [SensorNext]_sensorVars, Lifetime < Modulus
    PROVE  /\ InOrder'
           /\ burst' # burst /\ burst' # Absent => burst'.n > settled
<1>1. /\ IInv' /\ last \in Int /\ last' \in Int /\ last' >= last
      /\ last' # last => last' \in Word
  BY CounterStep, CounterAdvances
<1>2. /\ settled \in Word \cup {-1} /\ settled \in Int /\ settled <= last
      /\ last \in Word \cup {-1} /\ last' \in Word \cup {-1}
      /\ signal # Absent => signal.n \in Word /\ signal.n \in Int
                            /\ settled < signal.n /\ signal.n <= last
  BY <1>1, SizeAssumption DEF InOrder, IInv, TypeOK, Word
<1>3. CASE UNCHANGED <<signal, burst, settled>>
  BY <1>1, <1>2, <1>3 DEF InOrder
<1>4. CASE Build
  <2>1. settled' = settled /\ burst' = burst
    BY <1>4 DEF Build
  <2>2. CASE signal' = signal
    BY <1>1, <1>2, <2>1, <2>2 DEF InOrder
  <2>3. CASE signal' # signal
    <3>1. pc' = "idle" /\ (DrawReserved \/ WriteCeiling) /\ signal'.n = last'
      BY <1>4, <2>3 DEF Build, Signal
    <3>2. last' > last /\ last' \in Word
      BY <3>1, BuildDraws
    <3> QED
      BY <1>1, <1>2, <2>1, <3>1, <3>2 DEF InOrder
  <2> QED
    BY <2>2, <2>3
<1>5. CASE StartBurst
  <2>1. /\ signal # Absent /\ burst' = signal /\ settled' = signal.n
        /\ signal' = Absent /\ UNCHANGED vars
    BY <1>5 DEF StartBurst
  <2>2. last' = last
    BY <2>1 DEF vars, history
  <2> QED
    BY <1>1, <1>2, <2>1, <2>2 DEF InOrder
<1>6. CASE EndBurst
  BY <1>1, <1>2, <1>6 DEF EndBurst, InOrder
<1>7. CASE LosePower
  <2>1. settled' = last /\ signal' = Absent /\ burst' = Absent /\ last' = last
    BY <1>7 DEF LosePower, PowerLoss, history
  <2> QED
    BY <1>1, <1>2, <2>1 DEF InOrder
<1> QED
  <2>1. ASSUME Boot \/ TakeSample \/ Reserve \/ Skip \/ Cadence \/ UNCHANGED sensorVars
        PROVE  UNCHANGED <<signal, burst, settled>>
    BY <2>1 DEF Boot, TakeSample, Reserve, Skip, Cadence, sensorVars, taskVars
  <2> QED
    BY <1>3, <1>4, <1>5, <1>6, <1>7, <2>1 DEF SensorNext

LEMMA OrderInit == SensorInit => InOrder
<1> SUFFICES ASSUME SensorInit PROVE InOrder
  OBVIOUS
<1>1. IInv /\ last = -1
  BY InitInv DEF SensorInit, Init
<1> QED
  BY <1>1 DEF SensorInit, InOrder

(* Every burst carries a number above those of all bursts before it, for   *)
(* every size of log and however steps, failures and power losses fall     *)
(* (ble_advertise::run over the latest-value signal).                      *)
THEOREM BurstsAscend == Lifetime < Modulus => (SensorSpec => BurstsInOrder)
<1> SUFFICES ASSUME Lifetime < Modulus PROVE SensorSpec => BurstsInOrder
  OBVIOUS
<1>1. InOrder /\ [SensorNext]_sensorVars => InOrder'
  BY OrderStep
<1>2. InOrder /\ [SensorNext]_sensorVars =>
        [burst' # burst /\ burst' # Absent => burst'.n > settled]_sensorVars
  BY OrderStep
<1> QED
  BY OrderInit, <1>1, <1>2, PTL DEF SensorSpec, BurstsInOrder

-------------------------------------------------------------------------------

(***************************************************************************)
(* What is measured fits what is sent.                                     *)
(***************************************************************************)

LEMMA MillivoltsExact ==
    ASSUME NEW raw \in AdcValue
    PROVE  LET mv == Millivolts(raw) IN
           /\ mv \in U16
           /\ raw <= 0 => mv = 0
           /\ raw > 0 => /\ mv * 4096 <= raw * 3600 * DividerRatio
                         /\ raw * 3600 * DividerRatio < (mv + 1) * 4096
<1> DEFINE seen == IF raw < 0 THEN 0 ELSE raw
           full == seen * (3600 * DividerRatio)
           mv == full \div 4096
<1>0. raw \in Int /\ -4096 <= raw /\ raw <= 4095
  BY SMT DEF AdcValue
<1>1. seen \in Int /\ 0 <= seen /\ seen <= 4095 /\ (raw <= 0 => seen = 0) /\ (raw > 0 => seen = raw)
  BY SMT, <1>0
<1> HIDE DEF seen
<1>2. DividerRatio = 1 \/ DividerRatio = 2 \/ DividerRatio = 3 \/ DividerRatio = 4 \/ DividerRatio = 5
  BY SensorAssumption
<1>3. full \in Int /\ 0 <= full /\ full <= 4095 * 18000
  BY SMT, <1>1, <1>2
<1> HIDE DEF full
<1>4. mv \in Int /\ 0 <= mv /\ mv <= 65535 /\ mv * 4096 <= full /\ full < (mv + 1) * 4096
  BY SMT, <1>3
<1> HIDE DEF mv
<1>5. mv % 65536 = mv
  BY SMT, <1>4
<1>6. Millivolts(raw) = mv
  BY <1>5 DEF Millivolts, mv, full, seen
<1>7. mv \in U16
  BY <1>4, U16Is
<1>8. raw <= 0 => mv = 0
  <2>1. raw <= 0 => full = 0
    BY SMT, <1>1, <1>2 DEF full
  <2> QED BY SMT, <1>4, <2>1
<1>9. raw > 0 => full = raw * 3600 * DividerRatio
  BY SMT, <1>0, <1>1, <1>2 DEF full
<1> QED
  BY <1>4, <1>6, <1>7, <1>8, <1>9

LEMMA CentiCelsiusClose ==
    ASSUME NEW milli \in Int
    PROVE  CentiCelsius(milli) \in I16 /\ Tenth(CentiCelsius(milli), milli, -4500, 13000)
<1> DEFINE q == Quotient(IF milli >= 0 THEN milli + 5 ELSE milli - 5, 10)
<1>1. q \in Int /\ milli - 5 <= 10 * q /\ 10 * q <= milli + 5
  BY SMT DEF Quotient
<1> HIDE DEF q
<1>2. CentiCelsius(milli) = Clamped(q, -4500, 13000)
  BY DEF CentiCelsius, q
<1>3. /\ CentiCelsius(milli) \in Int /\ -4500 <= CentiCelsius(milli) /\ CentiCelsius(milli) <= 13000
      /\ Tenth(CentiCelsius(milli), milli, -4500, 13000)
  BY SMT, <1>1, <1>2 DEF Clamped, Tenth
<1>4. CentiCelsius(milli) \in I16
  BY <1>3, I16Is
<1> QED
  BY <1>3, <1>4

LEMMA CentiPercentClose ==
    ASSUME NEW milli \in Int
    PROVE  CentiPercent(milli) \in U16 /\ Tenth(CentiPercent(milli), milli, 0, 10000)
<1> DEFINE c == Clamped(milli, 0, 100000)
<1>1. c \in Int /\ 0 <= c /\ c <= 100000 /\ (c = milli \/ (c = 0 /\ milli < 0) \/ (c = 100000 /\ milli > 100000))
  BY SMT DEF Clamped
<1> HIDE DEF c
<1>2. CentiPercent(milli) = (c + 5) \div 10
  BY SMT, <1>1 DEF CentiPercent, Quotient, c
<1>3. /\ CentiPercent(milli) \in Int /\ 0 <= CentiPercent(milli) /\ CentiPercent(milli) <= 10000
      /\ Tenth(CentiPercent(milli), milli, 0, 10000)
  BY SMT, <1>1, <1>2 DEF Tenth
<1>4. CentiPercent(milli) \in U16
  BY <1>3, U16Is
<1> QED
  BY <1>3, <1>4

(* A sample makes one or three measurements, no kind twice.                *)
LEMMA Measured ==
    ASSUME NEW s \in Samples
    PROVE  /\ Measure(s) \in Seq(Measurement)
           /\ Len(Measure(s)) \in 1 .. 3
           /\ \A j, k \in 1 .. Len(Measure(s)) :
                Measure(s)[j].kind = Measure(s)[k].kind => j = k
           /\ Measure(s)[1] = [kind |-> "battery", value |-> Millivolts(s.raw)]
           /\ s.sht = Absent => Len(Measure(s)) = 1
           /\ s.sht # Absent =>
                /\ Len(Measure(s)) = 3
                /\ Measure(s)[2] = [kind |-> "temperature",
                                    value |-> CentiCelsius(s.sht.milliCelsius)]
                /\ Measure(s)[3] = [kind |-> "humidity",
                                    value |-> CentiPercent(s.sht.milliPercent)]
<1> DEFINE b == [kind |-> "battery", value |-> Millivolts(s.raw)]
           t == [kind |-> "temperature", value |-> CentiCelsius(s.sht.milliCelsius)]
           h == [kind |-> "humidity", value |-> CentiPercent(s.sht.milliPercent)]
<1>1. b \in Measurement
  <2>1. Millivolts(s.raw) \in U16
    BY SensorAssumption, MillivoltsExact
  <2> QED BY <2>1 DEF Measurement, Kinds, ValueOf
<1>2. s.sht # Absent => t \in Measurement /\ h \in Measurement
  <2>1. s.sht # Absent => CentiCelsius(s.sht.milliCelsius) \in I16
                          /\ CentiPercent(s.sht.milliPercent) \in U16
    BY SensorAssumption, CentiCelsiusClose, CentiPercentClose
  <2> QED BY <2>1 DEF Measurement, Kinds, ValueOf
<1>3. b.kind = "battery" /\ t.kind = "temperature" /\ h.kind = "humidity"
  OBVIOUS
<1>4. Measure(s) = IF s.sht = Absent THEN <<b>> ELSE <<b, t, h>>
  BY DEF Measure
<1> HIDE DEF b, t, h
<1>5. CASE s.sht = Absent
  BY <1>1, <1>4, <1>5 DEF b
<1>6. CASE s.sht # Absent
  BY <1>1, <1>2, <1>3, <1>4, <1>6 DEF b, t, h
<1> QED
  BY <1>5, <1>6

-------------------------------------------------------------------------------

(***************************************************************************)
(* The way of a packet from the air to the API.                            *)
(***************************************************************************)

LEMMA Identity == OwnAddr \in DeviceAddr /\ OwnKey = MintedKey
<1>1. OwnKey = MintedKey
  BY SensorAssumption, KeyHexRoundTrip, RecordRoundTrip DEF OwnKey
<1>2. \A i \in 1 .. 4 : LE32(Addr0)[i] \in Byte
  <2>1. /\ Addr0 % 256 \in Byte /\ (Addr0 \div 256) % 256 \in Byte
        /\ (Addr0 \div 65536) % 256 \in Byte
        /\ ((Addr0 \div 65536) \div 256) % 256 \in Byte
    <3>1. Addr0 \in Int
      BY SensorAssumption
    <3> QED BY <3>1, Split, SplitWord DEF Byte
  <2> QED BY <2>1 DEF LE32
<1>3. LE16(Addr1)[1] \in Byte /\ LE16(Addr1)[2] \in Byte
  <2>1. Addr1 \in Int
    BY SensorAssumption
  <2> QED BY <2>1, LE16Bytes
<1>4. 192 + (LE16(Addr1)[2] % 64) \in Byte
  BY SMT, <1>3 DEF Byte
<1>5. OwnAddr \in [1 .. 6 -> Byte]
  BY <1>2, <1>3, <1>4 DEF OwnAddr, FromFicr
<1> QED
  BY <1>1, <1>5 DEF DeviceAddr, Bytes

LEMMA I8RoundTrip == \A n \in I8 : FromI8(n % 256) = n
  BY SMT DEF I8, FromI8

(* What the receiver, the gateway and the broker hand on is what was       *)
(* heard (observation.rs encode and parse, observation_envelope.rs,        *)
(* envelope_topic.rs).                                                     *)
LEMMA HandedOn ==
    ASSUME NEW from \in DeviceAddr, NEW l \in Links, NEW packet
    PROVE  LET o == ParseObservation(EncodeObservation(from, l.age, l.rssi, packet))
               d == DecodePublish(EncodePublish(l.site, FromObservation(o, l.now))) IN
           /\ d.ok
           /\ d.envelope = [addr |-> from, rssi |-> l.rssi,
                            received |-> l.now - l.age, packet |-> packet]
<1> DEFINE o == ParseObservation(EncodeObservation(from, l.age, l.rssi, packet))
           h == EncodeObservation(from, l.age, l.rssi, packet).head
           e == [addr |-> from, rssi |-> l.rssi, received |-> l.now - l.age, packet |-> packet]
<1>1. /\ \A i \in 1 .. 6 : h[i] = from[i]
      /\ \A j \in 1 .. 4 : h[6 + j] = LE32(l.age)[j]
      /\ h[11] = l.rssi % 256
  <2>1. h = [i \in 1 .. 11 |-> IF i <= 6 THEN from[i]
                ELSE IF i <= 10 THEN LE32(l.age)[i - 6] ELSE l.rssi % 256]
    BY DEF EncodeObservation
  <2> HIDE DEF h
  <2>2. \A i \in 1 .. 6 : i \in 1 .. 11 /\ i <= 6
    OBVIOUS
  <2>3. \A j \in 1 .. 4 : 6 + j \in 1 .. 11 /\ ~ (6 + j <= 6) /\ 6 + j <= 10 /\ 6 + j - 6 = j
    OBVIOUS
  <2>4. 11 \in 1 .. 11 /\ ~ (11 <= 6) /\ ~ (11 <= 10)
    OBVIOUS
  <2> QED BY <2>1, <2>2, <2>3, <2>4
<1>2. o = [addr |-> [i \in 1 .. 6 |-> h[i]], age |-> FromU32(<<h[7], h[8], h[9], h[10]>>),
           rssi |-> FromI8(h[11]), packet |-> packet]
  BY DEF ParseObservation, EncodeObservation
<1> HIDE DEF h
<1>3. [i \in 1 .. 6 |-> h[i]] = from
  BY <1>1 DEF DeviceAddr, Bytes
<1>4. FromU32(<<h[7], h[8], h[9], h[10]>>) = l.age
  <2>1. 6 + 1 = 7 /\ 6 + 2 = 8 /\ 6 + 3 = 9 /\ 6 + 4 = 10
    OBVIOUS
  <2>2. /\ h[7] = LE32(l.age)[1] /\ h[8] = LE32(l.age)[2]
        /\ h[9] = LE32(l.age)[3] /\ h[10] = LE32(l.age)[4]
    BY <1>1, <2>1
  <2>3. <<h[7], h[8], h[9], h[10]>> = LE32(l.age)
    BY <2>2 DEF LE32
  <2>4. IsU32(l.age)
    BY SensorAssumption
  <2> QED BY <2>3, <2>4, U32RoundTrip
<1>5. FromI8(h[11]) = l.rssi
  <2>1. l.rssi \in I8
    BY SensorAssumption
  <2> QED BY <1>1, <2>1, I8RoundTrip
<1>6. FromObservation(o, l.now) = e
  BY <1>2, <1>3, <1>4, <1>5 DEF FromObservation
<1>7. /\ EncodePublish(l.site, e).topic = Topic(l.site, from)
      /\ EncodePublish(l.site, e).payload = [e EXCEPT !.addr = AddrHex(from)]
  BY DEF EncodePublish
<1>8. /\ ParseTopic(Topic(l.site, from)) = [ok |-> TRUE, site |-> l.site, addr |-> from]
      /\ IsAddrHex(AddrHex(from)) /\ AddrFromHex(AddrHex(from)) = from
  BY SensorAssumption, TopicRoundTrip, AddrHexDigits, AddrRoundTrip
<1>9. /\ DecodePublish(EncodePublish(l.site, e)).ok
      /\ DecodePublish(EncodePublish(l.site, e)).envelope = e
  BY <1>7, <1>8 DEF DecodePublish
<1> QED
  BY <1>6, <1>9

-------------------------------------------------------------------------------

LEMMA StripsMagic ==
    ASSUME NEW head \in Seq(Int), Len(head) >= 2, NEW body
    PROVE  StripAirMagic([head |-> head, body |-> body]) =
             IF head[1] # 72 \/ head[2] # 80 THEN Failed("InvalidPrefix")
             ELSE [ok |-> TRUE,
                   packet |-> [head |-> SubSeq(head, 3, Len(head)), body |-> body]]
<1> DEFINE air == [head |-> head, body |-> body]
<1>1. air.head = head /\ air.body = body
  OBVIOUS
<1>2. AirMagic[1] = 72 /\ AirMagic[2] = 80
  BY DEF AirMagic
<1>3. ~ (Len(head) < 2)
  OBVIOUS
<1> HIDE DEF air
<1>4. StripAirMagic(air) =
        IF head[1] # 72 \/ head[2] # 80 THEN Failed("InvalidPrefix")
        ELSE [ok |-> TRUE, packet |-> [head |-> SubSeq(head, 3, Len(head)), body |-> body]]
  BY <1>1, <1>2, <1>3, Zenon DEF StripAirMagic
<1> QED
  BY <1>4 DEF air

(* The packet in an air payload whose header is whole, and what becomes of *)
(* it at the far end.                                                      *)
PacketIn(head, body) ==
    [ok |-> TRUE, ver |-> head[3],
     seq |-> FromU32(<<head[4], head[5], head[6], head[7]>>), body |-> body]
HeardAs(q, from, l) ==
    LET d == Decode(q, MintedKey, from) IN
    IF ~ d.ok THEN d
    ELSE [ok |-> TRUE, addr |-> from, seq |-> q.seq, rssi |-> l.rssi,
          received |-> l.now - l.age, metrics |-> d.metrics]

LEMMA WholeArrives ==
    ASSUME NEW head \in Seq(Int), Len(head) = 7, head[1] = 72, head[2] = 80,
           NEW body, NEW from \in DeviceAddr, NEW l \in Links
    PROVE  Arrives([head |-> head, body |-> body], from, l)
             = HeardAs(PacketIn(head, body), from, l)
<1> DEFINE air == [head |-> head, body |-> body]
           rest == SubSeq(head, 3, 7)
           packet == [head |-> rest, body |-> body]
           q == PacketIn(head, body)
<1>1. StripAirMagic(air) = [ok |-> TRUE, packet |-> packet]
  <2>1. Len(head) >= 2
    OBVIOUS
  <2>2. StripAirMagic(air) = [ok |-> TRUE,
            packet |-> [head |-> SubSeq(head, 3, Len(head)), body |-> body]]
    BY <2>1, StripsMagic
  <2> QED BY <2>2
<1>2. Len(rest) = 5 /\ \A i \in 1 .. 5 : rest[i] = head[i + 2]
  BY SMT
<1> HIDE DEF rest
<1>3. Parse(packet) = q
  <2>1. /\ rest[1] = head[3] /\ rest[2] = head[4] /\ rest[3] = head[5]
        /\ rest[4] = head[6] /\ rest[5] = head[7]
    BY <1>2
  <2>2. packet.head = rest /\ packet.body = body /\ ~ (Len(rest) < 5)
    BY <1>2
  <2> HIDE DEF packet
  <2>3. Parse(packet) = [ok |-> TRUE, ver |-> rest[1],
          seq |-> FromU32(<<rest[2], rest[3], rest[4], rest[5]>>), body |-> body]
    BY <2>2 DEF Parse
  <2> QED BY <2>1, <2>3 DEF PacketIn
<1> HIDE DEF packet
<1> DEFINE o == ParseObservation(EncodeObservation(from, l.age, l.rssi, packet))
           d == DecodePublish(EncodePublish(l.site, FromObservation(o, l.now)))
           e == [addr |-> from, rssi |-> l.rssi, received |-> l.now - l.age, packet |-> packet]
<1>4. d.ok /\ d.envelope = e
  BY HandedOn
<1>5. q.ok
  BY DEF PacketIn
<1> HIDE DEF q
<1>6. Arrives(air, from, l) = OpenEnvelope(d.envelope, MintedKey)
  BY <1>1, <1>3, <1>4, <1>5 DEF Arrives
<1>7. e.packet = packet /\ e.addr = from /\ e.rssi = l.rssi /\ e.received = l.now - l.age
  OBVIOUS
<1> HIDE DEF d, e
<1>8. OpenEnvelope(e, MintedKey) = HeardAs(q, from, l)
  BY <1>3, <1>5, <1>7 DEF OpenEnvelope, HeardAs
<1> QED
  BY <1>4, <1>6, <1>8 DEF q

(* One cut in its header is not.                                           *)
LEMMA CutRefused ==
    ASSUME NEW head \in Seq(Int), Len(head) = 5, NEW body, NEW from, NEW l
    PROVE  ~ Arrives([head |-> head, body |-> body], from, l).ok
<1> DEFINE air == [head |-> head, body |-> body]
           packet == [head |-> SubSeq(head, 3, 5), body |-> body]
<1>0. StripAirMagic(air) =
        IF head[1] # 72 \/ head[2] # 80 THEN Failed("InvalidPrefix")
        ELSE [ok |-> TRUE, packet |-> packet]
  <2>1. Len(head) >= 2
    OBVIOUS
  <2>2. StripAirMagic(air) =
          IF head[1] # 72 \/ head[2] # 80 THEN Failed("InvalidPrefix")
          ELSE [ok |-> TRUE,
                packet |-> [head |-> SubSeq(head, 3, Len(head)), body |-> body]]
    BY <2>1, StripsMagic
  <2> QED BY <2>2
<1>1. CASE head[1] = 72 /\ head[2] = 80
  <2>1. StripAirMagic(air) = [ok |-> TRUE, packet |-> packet]
    BY <1>0, <1>1
  <2>2. Len(packet.head) = 3
    BY SMT
  <2> HIDE DEF packet
  <2>3. Parse(packet) = Failed("Truncated")
    BY <2>2 DEF Parse
  <2> QED BY <2>1, <2>3 DEF Arrives, Failed
<1>2. CASE ~ (head[1] = 72 /\ head[2] = 80)
  <2>1. StripAirMagic(air) = Failed("InvalidPrefix")
    BY <1>0, <1>2
  <2>2. ~ StripAirMagic(air).ok
    BY <2>1 DEF Failed
  <2> QED BY <2>2 DEF Arrives
<1> QED
  BY <1>1, <1>2

-------------------------------------------------------------------------------

(***************************************************************************)
(* What waits in the signal and what is on air is as Build sealed it.      *)
(***************************************************************************)

AirHead(n) == LET s == LE32(n) IN <<72, 80, 1, s[1], s[2], s[3], s[4]>>
Body(p) == Seal(OwnKey, OwnAddr, Version, p.n, EncodeBody(Measure(p.sample)))
Sealed(p) ==
    /\ p.n \in Word /\ p.sample \in Samples
    /\ p.air = [head |-> AirHead(p.n), body |-> Body(p)]

AllSealed ==
    /\ TypeOK
    /\ task = "build" => sample \in Samples
    /\ signal # Absent => Sealed(signal)
    /\ burst # Absent => Sealed(burst)

LEMMA Encodes ==
    ASSUME NEW s \in Samples, NEW n
    PROVE  EncodeAir(n, Measure(s), MaxAirLen, OwnKey, OwnAddr) =
             [ok |-> TRUE,
              air |-> [head |-> AirHead(n),
                       body |-> Seal(OwnKey, OwnAddr, Version, n, EncodeBody(Measure(s)))]]
<1>1. Len(Measure(s)) \in 1 .. 3
  BY Measured
<1>2. AirMagic[1] = 72 /\ AirMagic[2] = 80 /\ Len(AirMagic) = 2
  BY DEF AirMagic
<1>3. ~ (Len(AirMagic) + 5 + ItemLen * Len(Measure(s)) + TagLen > MaxAirLen)
  <2>1. ItemLen = 3 /\ TagLen = 16 /\ MaxAirLen = 32
    BY SMT, <1>2 DEF ItemLen, TagLen, MaxAirLen, MaxBodyLen, VariantCount
  <2> DEFINE k == Len(Measure(s))
  <2>2. k \in 1 .. 3
    BY <1>1
  <2> HIDE DEF k
  <2>3. ~ (2 + 5 + 3 * k + 16 > 32)
    BY SMT, <2>2
  <2> QED BY <1>2, <2>1, <2>3 DEF k
<1>4. <<AirMagic[1], AirMagic[2], Version, LE32(n)[1], LE32(n)[2], LE32(n)[3], LE32(n)[4]>>
        = AirHead(n)
  BY <1>2 DEF AirHead, Version
<1> QED
  BY <1>3, <1>4, Zenon DEF EncodeAir

LEMMA BuiltSealed ==
    ASSUME AllSealed, TypeOK', Build
    PROVE  AllSealed'
<1>1. sample \in Samples /\ task' = "wait" /\ burst' = burst
  BY DEF AllSealed, Build
<1>2. CASE signal' = signal
  BY <1>1, <1>2 DEF AllSealed
<1>3. CASE signal' # signal
  <2>1. /\ pc' = "idle" /\ (DrawReserved \/ WriteCeiling)
        /\ signal' = [n |-> last', sample |-> sample,
                      air |-> EncodeAir(last', Measure(sample), MaxAirLen, OwnKey, OwnAddr).air]
    BY <1>3 DEF Build, Signal
  <2>2. last' \in Word
    <3>1. Draw
      BY <2>1 DEF DrawReserved, WriteCeiling
    <3> QED BY <3>1 DEF Draw, AllSealed, TypeOK
  <2>3. signal'.n = last' /\ signal'.sample = sample
    BY <2>1
  <2>4. signal'.air = [head |-> AirHead(last'),
              body |-> Seal(OwnKey, OwnAddr, Version, last', EncodeBody(Measure(sample)))]
    BY <1>1, <2>1, Encodes
  <2>5. Sealed(signal')
    BY <1>1, <2>2, <2>3, <2>4 DEF Sealed, Body
  <2> QED
    BY <1>1, <2>5 DEF AllSealed, Sealed, Body
<1> QED
  BY <1>2, <1>3

LEMMA SealedStep ==
    ASSUME AllSealed, TypeOK', [SensorNext]_sensorVars
    PROVE  AllSealed'
<1>1. CASE Build
  BY <1>1, BuiltSealed
<1>2. CASE TakeSample
  BY <1>2 DEF TakeSample, AllSealed
<1>3. CASE StartBurst
  BY <1>3 DEF StartBurst, AllSealed
<1>4. CASE EndBurst
  BY <1>4 DEF EndBurst, AllSealed
<1>5. CASE LosePower
  BY <1>5 DEF LosePower, AllSealed
<1>6. CASE Reserve \/ UNCHANGED sensorVars
  BY <1>6 DEF Reserve, sensorVars, taskVars, AllSealed
<1>7. CASE Boot \/ Skip \/ Cadence
  BY <1>7 DEF Boot, Skip, Cadence, AllSealed
<1> QED
  BY <1>1, <1>2, <1>3, <1>4, <1>5, <1>6, <1>7 DEF SensorNext

(* The readings a sealed packet makes.                                     *)
LEMMA MetricsTell ==
    ASSUME NEW s \in Samples
    PROVE  LET d == DecodeBody(EncodeBody(Measure(s))) IN
           /\ d.ok
           /\ d.metrics.battery = Millivolts(s.raw)
           /\ s.sht = Absent => d.metrics.temperature = Absent /\ d.metrics.humidity = Absent
           /\ s.sht # Absent => /\ d.metrics.temperature = CentiCelsius(s.sht.milliCelsius)
                                /\ d.metrics.humidity = CentiPercent(s.sht.milliPercent)
<1> DEFINE ms == Measure(s)  d == DecodeBody(EncodeBody(ms))
<1>1. /\ ms \in Seq(Measurement) /\ Len(ms) \in 1 .. 3
      /\ \A j, k \in 1 .. Len(ms) : ms[j].kind = ms[k].kind => j = k
      /\ ms[1] = [kind |-> "battery", value |-> Millivolts(s.raw)]
      /\ s.sht = Absent => Len(ms) = 1
      /\ s.sht # Absent =>
            /\ Len(ms) = 3
            /\ ms[2] = [kind |-> "temperature", value |-> CentiCelsius(s.sht.milliCelsius)]
            /\ ms[3] = [kind |-> "humidity", value |-> CentiPercent(s.sht.milliPercent)]
  BY Measured
<1> HIDE DEF ms
<1>2. Len(ms) > 0 /\ 1 \in 1 .. Len(ms)
  BY <1>1
<1>3. /\ d.ok
      /\ \A k \in 1 .. Len(ms) : d.metrics[ms[k].kind] = ms[k].value
      /\ \A kind \in Kinds :
            (\A k \in 1 .. Len(ms) : ms[k].kind # kind) => d.metrics[kind] = Absent
  BY <1>1, <1>2, BodyRoundTrip
<1> HIDE DEF d
<1>4. d.metrics.battery = Millivolts(s.raw)
  BY <1>1, <1>2, <1>3
<1>5. ASSUME s.sht = Absent
      PROVE  d.metrics.temperature = Absent /\ d.metrics.humidity = Absent
  <2>1. \A k \in 1 .. Len(ms) : k = 1
    BY <1>1, <1>5
  <2>2. ms[1].kind # "temperature" /\ ms[1].kind # "humidity"
    BY <1>1
  <2>3. "temperature" \in Kinds /\ "humidity" \in Kinds
    BY DEF Kinds
  <2> QED BY <1>3, <2>1, <2>2, <2>3
<1>6. ASSUME s.sht # Absent
      PROVE  /\ d.metrics.temperature = CentiCelsius(s.sht.milliCelsius)
             /\ d.metrics.humidity = CentiPercent(s.sht.milliPercent)
  <2>1. 2 \in 1 .. Len(ms) /\ 3 \in 1 .. Len(ms)
    BY <1>1, <1>6
  <2> QED BY <1>1, <1>3, <1>6, <2>1
<1> QED
  BY <1>3, <1>4, <1>5, <1>6 DEF d, ms

LEMMA HeadIs ==
    ASSUME NEW n, IsU32(n)
    PROVE  /\ AirHead(n) \in Seq(Int) /\ Len(AirHead(n)) = 7
           /\ AirHead(n)[1] = 72 /\ AirHead(n)[2] = 80 /\ AirHead(n)[3] = 1
           /\ \A j \in 4 .. 7 : AirHead(n)[j] \in Byte
           /\ <<AirHead(n)[4], AirHead(n)[5], AirHead(n)[6], AirHead(n)[7]>> = LE32(n)
<1> DEFINE a == n % 256  b == (n \div 256) % 256
           c == (n \div 65536) % 256  d == ((n \div 65536) \div 256) % 256
<1>1. a \in Byte /\ b \in Byte /\ c \in Byte /\ d \in Byte
  <2>1. n \in Int
    BY DEF IsU32
  <2> QED BY <2>1, Split, SplitWord DEF Byte
<1>2. LE32(n) = <<a, b, c, d>>
  BY DEF LE32
<1> HIDE DEF a, b, c, d
<1>3. AirHead(n) = <<72, 80, 1, a, b, c, d>>
  BY <1>2 DEF AirHead
<1>4. a \in Int /\ b \in Int /\ c \in Int /\ d \in Int
  BY <1>1 DEF Byte
<1>5. /\ AirHead(n) \in Seq(Int) /\ Len(AirHead(n)) = 7
      /\ AirHead(n)[1] = 72 /\ AirHead(n)[2] = 80 /\ AirHead(n)[3] = 1
      /\ AirHead(n)[4] = a /\ AirHead(n)[5] = b /\ AirHead(n)[6] = c /\ AirHead(n)[7] = d
  BY <1>3, <1>4
<1>6. \A j \in 4 .. 7 : j = 4 \/ j = 5 \/ j = 6 \/ j = 7
  OBVIOUS
<1> QED
  BY <1>1, <1>2, <1>5, <1>6

LEMMA SealIsSome ==
    ASSUME NEW key, NEW addr, NEW ver, NEW seq, NEW plain
    PROVE  Seal(key, addr, ver, seq, plain) # NoBody
<1>1. "key" \in DOMAIN Seal(key, addr, ver, seq, plain)
  BY DEF Seal
<1>2. DOMAIN NoBody = {}
  BY DEF NoBody
<1> QED
  BY <1>1, <1>2

(* Sent as it was sealed, a packet is the reading of its sample.           *)
LEMMA SealedArrives ==
    ASSUME NEW p, Sealed(p), IsU32(p.n), NEW l \in Links
    PROVE  LET r == Arrives(p.air, OwnAddr, l)
               d == DecodeBody(EncodeBody(Measure(p.sample))) IN
           r = [ok |-> TRUE, addr |-> OwnAddr, seq |-> p.n, rssi |-> l.rssi,
                received |-> l.now - l.age, metrics |-> d.metrics]
<1> DEFINE h == AirHead(p.n)  plain == EncodeBody(Measure(p.sample))  body == Body(p)
           q == PacketIn(h, body)
           d == DecodeBody(plain)
<1>1. p.air = [head |-> h, body |-> body] /\ p.sample \in Samples
  BY DEF Sealed
<1>2. /\ h \in Seq(Int) /\ Len(h) = 7 /\ h[1] = 72 /\ h[2] = 80 /\ h[3] = 1
      /\ <<h[4], h[5], h[6], h[7]>> = LE32(p.n)
  BY HeadIs
<1>3. FromU32(<<h[4], h[5], h[6], h[7]>>) = p.n
  BY <1>2, U32RoundTrip
<1>4. OwnAddr \in DeviceAddr /\ OwnKey = MintedKey
  BY Identity
<1>5. d.ok
  BY <1>1, MetricsTell
<1>6. body = Seal(MintedKey, OwnAddr, 1, p.n, plain) /\ body.plain = plain /\ body # NoBody
  BY <1>4, SealIsSome DEF Body, Seal, Version
<1>7. SealedLen(body) <= MaxBodyLen
  <2> DEFINE k == Len(Measure(p.sample))
  <2>1. k \in 1 .. 3 /\ Measure(p.sample) \in Seq(Measurement)
    BY <1>1, Measured
  <2>2. Len(plain) = 3 * k
    BY <2>1, BodyItems
  <2>3. MaxBodyLen = 25 /\ TagLen = 16
    BY SMT DEF MaxBodyLen, ItemLen, VariantCount, TagLen
  <2> HIDE DEF k, plain, body
  <2>4. 3 * k + 16 <= 25 /\ k \in Int
    BY SMT, <2>1
  <2> QED BY <1>6, <2>2, <2>3, <2>4 DEF SealedLen
<1> HIDE DEF h, plain, body, d
<1>8. q = [ok |-> TRUE, ver |-> 1, seq |-> p.n, body |-> body]
  BY <1>2, <1>3 DEF PacketIn
<1>9. Decode(q, MintedKey, OwnAddr) = d
  <2>1. q.body = body /\ q.ver = 1 /\ q.seq = p.n
    BY <1>8
  <2>2. ~ (SealedLen(body) > MaxBodyLen)
    <3>1. SealedLen(body) \in Int /\ MaxBodyLen \in Int
      <4>1. Len(plain) \in Int
        <5>1. Measure(p.sample) \in Seq(Measurement)
          BY <1>1, Measured
        <5>2. Len(plain) = 3 * Len(Measure(p.sample))
          BY <5>1, BodyItems DEF plain
        <5> QED BY <5>1, <5>2
      <4> QED BY <1>6, <4>1 DEF SealedLen, MaxBodyLen, ItemLen, VariantCount, TagLen
    <3> QED BY <1>7, <3>1
  <2> HIDE DEF q
  <2>3. Decode(q, MintedKey, OwnAddr) = DecodeBody(plain)
    BY <1>6, <2>1, <2>2, Zenon DEF Decode, Version
  <2> QED BY <2>3 DEF d
<1>10. Arrives([head |-> h, body |-> body], OwnAddr, l) = HeardAs(q, OwnAddr, l)
  <2>1. h \in Seq(Int) /\ Len(h) = 7 /\ h[1] = 72 /\ h[2] = 80
    BY <1>2
  <2> QED BY <1>4, <2>1, WholeArrives, Zenon
<1>11. q.seq = p.n
  BY <1>8
<1> HIDE DEF q
<1> QED
  BY <1>1, <1>5, <1>9, <1>10, <1>11 DEF d, plain, HeardAs

(* Under another address, version or number it is no reading.              *)
LEMMA TamperedRefused ==
    ASSUME NEW p, Sealed(p), IsU32(p.n), NEW l \in Links,
           NEW head \in Seq(Int), Len(head) = 7, head[1] = 72, head[2] = 80,
           head[3] \in Byte, head[4] \in Byte, head[5] \in Byte, head[6] \in Byte,
           head[7] \in Byte,
           NEW from \in DeviceAddr,
           from # OwnAddr \/ head[3] # 1 \/ <<head[4], head[5], head[6], head[7]>> # LE32(p.n)
    PROVE  ~ Arrives([head |-> head, body |-> Body(p)], from, l).ok
<1> DEFINE bytes == <<head[4], head[5], head[6], head[7]>>
           q == PacketIn(head, Body(p))
           d == Decode(q, MintedKey, from)
<1>1. LE32(FromU32(bytes)) = bytes /\ IsU32(FromU32(bytes))
  BY WordRoundTrip
<1>2. q.ver = head[3] /\ q.seq = FromU32(bytes) /\ q.body = Body(p)
  BY DEF PacketIn
<1>3. Arrives([head |-> head, body |-> Body(p)], from, l) = HeardAs(q, from, l)
  BY WholeArrives, Zenon
<1> HIDE DEF bytes, q
<1>4. ASSUME d.ok PROVE FALSE
  <2>1. OwnAddr \in DeviceAddr
    BY Identity
  <2>2. q.body = Seal(OwnKey, OwnAddr, Version, p.n, EncodeBody(Measure(p.sample)))
    BY <1>2 DEF Body
  <2>3. q.ver \in Byte /\ IsU32(q.seq)
    BY <1>1, <1>2
  <2>4. from = OwnAddr /\ q.ver = Version /\ q.seq = p.n
    BY <1>4, <2>1, <2>2, <2>3, OpensOnlyAsSealed
  <2>5. LE32(p.n) = bytes /\ head[3] = 1
    BY <1>1, <1>2, <2>4 DEF Version
  <2> QED BY <2>4, <2>5 DEF bytes
<1> QED
  BY <1>3, <1>4 DEF HeardAs

LEMMA Replaced ==
    ASSUME NEW s \in Seq(Int), NEW i \in 1 .. Len(s), NEW x \in Int
    PROVE  /\ [s EXCEPT ![i] = x] \in Seq(Int)
           /\ Len([s EXCEPT ![i] = x]) = Len(s)
           /\ [s EXCEPT ![i] = x][i] = x
           /\ \A j \in 1 .. Len(s) : j # i => [s EXCEPT ![i] = x][j] = s[j]
  BY SMT

LEMMA Shortened ==
    ASSUME NEW s \in Seq(Int), Len(s) = 7
    PROVE  SubSeq(s, 1, 5) \in Seq(Int) /\ Len(SubSeq(s, 1, 5)) = 5
  BY SMT

LEMMA Refusals ==
    ASSUME NEW p, Sealed(p), IsU32(p.n), NEW l \in Links PROVE NotRetold(p, l)
<1> DEFINE h == AirHead(p.n)  body == Body(p)
           hv == [h EXCEPT ![3] = @ + 1]
           hs == [h EXCEPT ![4] = (@ + 1) % 256]
           other == [OwnAddr EXCEPT ![1] = (@ + 1) % 256]
<1>1. p.air = [head |-> h, body |-> body]
  BY DEF Sealed
<1>2. /\ h \in Seq(Int) /\ Len(h) = 7 /\ h[1] = 72 /\ h[2] = 80 /\ h[3] = 1
      /\ h[4] \in Byte /\ h[5] \in Byte /\ h[6] \in Byte /\ h[7] \in Byte
      /\ <<h[4], h[5], h[6], h[7]>> = LE32(p.n)
  BY HeadIs
<1>3. OwnAddr \in DeviceAddr
  BY Identity
<1>4. \A b \in Byte : (b + 1) % 256 \in Byte /\ (b + 1) % 256 # b
  BY SMT DEF Byte
<1> HIDE DEF h
<1>5. /\ hv \in Seq(Int) /\ Len(hv) = 7 /\ hv[1] = 72 /\ hv[2] = 80 /\ hv[3] = 2
      /\ hv[4] = h[4] /\ hv[5] = h[5] /\ hv[6] = h[6] /\ hv[7] = h[7]
  <2>1. hv = [h EXCEPT ![3] = 2]
    BY <1>2
  <2> HIDE DEF hv
  <2>2. /\ 2 \in Int /\ h \in Seq(Int) /\ 3 \in 1 .. Len(h)
    BY <1>2
  <2>3. /\ hv \in Seq(Int) /\ Len(hv) = Len(h) /\ hv[3] = 2
        /\ \A j \in 1 .. Len(h) : j # 3 => hv[j] = h[j]
    BY <2>1, <2>2, Replaced
  <2>4. {1, 2, 4, 5, 6, 7} \subseteq 1 .. Len(h)
    BY <1>2
  <2> QED BY <1>2, <2>3, <2>4
<1>6. /\ hs \in Seq(Int) /\ Len(hs) = 7 /\ hs[1] = 72 /\ hs[2] = 80 /\ hs[3] = 1
      /\ hs[4] = (h[4] + 1) % 256 /\ hs[5] = h[5] /\ hs[6] = h[6] /\ hs[7] = h[7]
  <2> DEFINE x == (h[4] + 1) % 256
  <2>1. x \in Byte
    BY <1>2, <1>4
  <2> HIDE DEF x
  <2>2. x \in Int /\ h \in Seq(Int) /\ 4 \in 1 .. Len(h)
    BY <1>2, <2>1 DEF Byte
  <2>3. hs = [h EXCEPT ![4] = x]
    BY DEF x
  <2> HIDE DEF hs
  <2>4. /\ hs \in Seq(Int) /\ Len(hs) = Len(h) /\ hs[4] = x
        /\ \A j \in 1 .. Len(h) : j # 4 => hs[j] = h[j]
    BY <2>2, <2>3, Replaced
  <2>5. {1, 2, 3, 5, 6, 7} \subseteq 1 .. Len(h)
    BY <1>2
  <2> QED BY <1>2, <2>4, <2>5 DEF x
<1>7. other \in DeviceAddr /\ other # OwnAddr
  <2>1. OwnAddr \in [1 .. 6 -> Byte]
    BY <1>3 DEF DeviceAddr, Bytes
  <2>2. OwnAddr[1] \in Byte
    BY <2>1
  <2>3. other \in [1 .. 6 -> Byte]
    BY <1>4, <2>1, <2>2
  <2>4. other[1] = (OwnAddr[1] + 1) % 256
    BY <2>1
  <2>5. other # OwnAddr
    BY <1>4, <2>2, <2>4
  <2> QED BY <2>3, <2>5 DEF DeviceAddr, Bytes
<1> HIDE DEF hv, hs, other, body
<1>8. ~ Arrives([head |-> hv, body |-> body], OwnAddr, l).ok
  <2>1. 2 \in Byte
    BY SMT DEF Byte
  <2>2. hv[4] \in Byte /\ hv[5] \in Byte /\ hv[6] \in Byte /\ hv[7] \in Byte
    BY <1>2, <1>5
  <2>3. hv[3] \in Byte /\ hv[3] # 1
    BY <1>5, <2>1
  <2> QED BY <1>3, <1>5, <2>2, <2>3, TamperedRefused, Zenon DEF body
<1>9. ~ Arrives([head |-> hs, body |-> body], OwnAddr, l).ok
  <2>1. 1 \in Byte
    BY SMT DEF Byte
  <2>2. <<hs[4], hs[5], hs[6], hs[7]>> # LE32(p.n)
    BY <1>2, <1>4, <1>6
  <2>3. hs[4] \in Byte
    BY <1>2, <1>4, <1>6
  <2> QED BY <1>2, <1>3, <1>6, <2>1, <2>2, <2>3, TamperedRefused DEF body
<1>10. ~ Arrives([head |-> h, body |-> body], other, l).ok
  <2>1. 1 \in Byte
    BY SMT DEF Byte
  <2> QED BY <1>2, <1>7, <2>1, TamperedRefused DEF body
<1>11. ~ Arrives([head |-> SubSeq(h, 1, 5), body |-> NoBody], OwnAddr, l).ok
  <2>1. SubSeq(h, 1, 5) \in Seq(Int) /\ Len(SubSeq(h, 1, 5)) = 5
    BY <1>2, Shortened
  <2> QED BY <2>1, CutRefused
<1>12. /\ [p.air EXCEPT !.head[3] = @ + 1] = [head |-> hv, body |-> body]
       /\ [p.air EXCEPT !.head[4] = (@ + 1) % 256] = [head |-> hs, body |-> body]
       /\ p.air.head = h
  BY <1>1 DEF hv, hs
<1> QED
  BY <1>1, <1>8, <1>9, <1>10, <1>11, <1>12 DEF NotRetold, other

LEMMA MetricsAreValues ==
    ASSUME NEW s \in Samples
    PROVE  ValuesOf(DecodeBody(EncodeBody(Measure(s))).metrics, s)
<1> DEFINE m == DecodeBody(EncodeBody(Measure(s))).metrics
<1>1. /\ m.battery = Millivolts(s.raw)
      /\ s.sht = Absent => m.temperature = Absent /\ m.humidity = Absent
      /\ s.sht # Absent => /\ m.temperature = CentiCelsius(s.sht.milliCelsius)
                           /\ m.humidity = CentiPercent(s.sht.milliPercent)
  BY MetricsTell
<1> HIDE DEF m
<1>2. \A raw \in AdcValue : raw <= 0 \/ raw > 0
  BY SMT DEF AdcValue
<1>3. IF s.raw <= 0 THEN m.battery = 0
      ELSE /\ m.battery * 4096 <= s.raw * 3600 * DividerRatio
           /\ s.raw * 3600 * DividerRatio < (m.battery + 1) * 4096
  <2>1. s.raw \in AdcValue
    BY SensorAssumption
  <2> QED BY <1>1, <1>2, <2>1, MillivoltsExact
<1>4. ASSUME s.sht # Absent
      PROVE  /\ Tenth(m.temperature, s.sht.milliCelsius, -4500, 13000)
             /\ Tenth(m.humidity, s.sht.milliPercent, 0, 10000)
             /\ m.temperature # Absent /\ m.humidity # Absent
  <2>1. s.sht.milliCelsius \in Int /\ s.sht.milliPercent \in Int
    BY <1>4, SensorAssumption
  <2>2. /\ m.temperature \in I16 /\ m.humidity \in U16
        /\ Tenth(m.temperature, s.sht.milliCelsius, -4500, 13000)
        /\ Tenth(m.humidity, s.sht.milliPercent, 0, 10000)
    BY <1>1, <1>4, <2>1, CentiCelsiusClose, CentiPercentClose
  <2>3. m.temperature \in Int /\ m.humidity \in Int
    BY <2>2, I16Is, U16Is
  <2> QED BY <2>2, <2>3, AbsentAssumption
<1>5. ValuesOf(m, s)
  <2>1. IF s.sht = Absent THEN m.temperature = Absent /\ m.humidity = Absent
        ELSE /\ m.temperature # Absent /\ m.humidity # Absent
             /\ Tenth(m.temperature, s.sht.milliCelsius, -4500, 13000)
             /\ Tenth(m.humidity, s.sht.milliPercent, 0, 10000)
    BY <1>1, <1>4
  <2> QED BY <1>3, <2>1 DEF ValuesOf
<1> QED
  BY <1>5 DEF m

LEMMA SealedTells ==
    ASSUME AllSealed, \A n \in Word : IsU32(n) PROVE ReadingTells
<1> SUFFICES ASSUME burst # Absent, NEW l \in Links
             PROVE  Told(burst, l) /\ NotRetold(burst, l)
  BY DEF ReadingTells
<1> DEFINE m == DecodeBody(EncodeBody(Measure(burst.sample))).metrics
<1>1. Sealed(burst) /\ IsU32(burst.n) /\ burst.sample \in Samples
  BY DEF AllSealed, Sealed
<1>2. Arrives(burst.air, OwnAddr, l) =
        [ok |-> TRUE, addr |-> OwnAddr, seq |-> burst.n, rssi |-> l.rssi,
         received |-> l.now - l.age, metrics |-> m]
  BY <1>1, SealedArrives
<1>3. ValuesOf(m, burst.sample)
  BY <1>1, MetricsAreValues
<1> HIDE DEF m
<1>4. Told(burst, l)
  BY <1>2, <1>3 DEF Told
<1> QED
  BY <1>1, <1>4, Refusals

(* A burst arrives as the reading of what was sampled for its number and   *)
(* as nothing else, for every sample, key, address, board and link         *)
(* (sensors.rs measure to reading.rs open_envelope).                       *)
THEOREM ArrivesAsMeasured ==
    Lifetime < Modulus /\ (\A n \in Word : IsU32(n)) => (SensorSpec => []ReadingTells)
<1> SUFFICES ASSUME Lifetime < Modulus, \A n \in Word : IsU32(n)
             PROVE  SensorSpec => []ReadingTells
  OBVIOUS
<1>1. SensorSpec => []TypeOK
  BY RunsTheCounter, TypeCorrect
<1>2. SensorInit => (TypeOK => AllSealed)
  BY DEF SensorInit, AllSealed
<1>3. AllSealed /\ TypeOK' /\ [SensorNext]_sensorVars => AllSealed'
  BY SealedStep
<1>4. AllSealed => ReadingTells
  BY SealedTells
<1> QED
  BY <1>1, <1>2, <1>3, <1>4, PTL DEF SensorSpec

(* The tasks keep their types (main.rs, sensor).                           *)
THEOREM TasksTypeCorrect == Lifetime < Modulus => (SensorSpec => []SensorTypeOK)
<1> SUFFICES ASSUME Lifetime < Modulus PROVE SensorSpec => []SensorTypeOK
  OBVIOUS
<1> DEFINE Tasks == /\ task \in {"off", "measure", "build", "wait"}
                    /\ sample \in Samples \cup {Absent}
<1>1. SensorSpec => []TypeOK
  BY RunsTheCounter, TypeCorrect
<1>2. SensorInit => (TypeOK => AllSealed /\ Tasks)
  BY DEF SensorInit, AllSealed
<1>3. AllSealed /\ TypeOK' /\ [SensorNext]_sensorVars => AllSealed'
  BY SealedStep
<1>4. Tasks /\ [SensorNext]_sensorVars => Tasks'
  BY DEF SensorNext, sensorVars, taskVars, Boot, TakeSample, Reserve, Build, Skip,
         Cadence, StartBurst, EndBurst, LosePower
<1>5. InOrder /\ [SensorNext]_sensorVars => InOrder'
  BY OrderStep
<1>6. AllSealed /\ Tasks /\ InOrder => SensorTypeOK
  BY DEF AllSealed, InOrder, Sealed, SensorTypeOK
<1> HIDE DEF Tasks
<1> QED
  BY OrderInit, <1>1, <1>2, <1>3, <1>4, <1>5, <1>6, PTL DEF SensorSpec
===============================================================================
