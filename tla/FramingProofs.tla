----------------------------- MODULE FramingProofs -----------------------------
(***************************************************************************)
(* For any checksum, any payloads and any way the bytes are cut into       *)
(* chunks, lost and read: the decoder yields exactly the frames that stand *)
(* in what it has judged, and holds none back longer than one largest      *)
(* frame.                                                                  *)
(***************************************************************************)
EXTENDS Framing, SequenceTheorems, WellFoundedInduction, TLAPS

Bytes == Seq(Byte)

LEMMA Sizes ==
    /\ ByteLimit \in Nat /\ MaxPayload \in Nat /\ MaxPayload + 2 <= ByteLimit
    /\ 0 .. MaxPayload \subseteq Byte /\ Byte \subseteq Nat
    /\ 1 \in Byte /\ 2 \in Byte
  BY LinkAssumption DEF Byte

LEMMA OverheadIs == Overhead = 4 /\ MagicBytes = <<1, 2>> /\ Len(MagicBytes) = 2
  BY DEF Overhead, MagicBytes

(* A piece of a sequence: its length and its bytes.                        *)
LEMMA PieceIs ==
    ASSUME NEW r \in Bytes, NEW a \in Nat, NEW b \in Nat, 1 <= a, a <= b + 1, b <= Len(r)
    PROVE  /\ SubSeq(r, a, b) \in Bytes /\ Len(SubSeq(r, a, b)) = b + 1 - a
           /\ \A k \in 1 .. b + 1 - a : SubSeq(r, a, b)[k] = r[a + k - 1]
<1>1. \A i \in a .. b : r[i] \in Byte
  BY ElementOfSeq DEF Bytes
<1>2. /\ SubSeq(r, a, b) \in Seq(Byte)
      /\ Len(SubSeq(r, a, b)) = IF a <= b THEN b - a + 1 ELSE 0
      /\ \A i \in 1 .. b - a + 1 : SubSeq(r, a, b)[i] = r[a + i - 1]
  BY <1>1, SubSeqProperties
<1>3. b - a + 1 = b + 1 - a /\ (a > b => b + 1 - a = 0)
  OBVIOUS
<1> QED
  BY <1>2, <1>3 DEF Bytes

LEMMA ByteOf ==
    ASSUME NEW r \in Bytes, NEW i \in Nat, i < Len(r)
    PROVE  r[i + 1] \in Byte /\ r[i + 1] \in Nat /\ Len(r) \in Nat
<1>1. Len(r) \in Nat /\ i + 1 \in 1 .. Len(r)
  BY LenProperties DEF Bytes
<1> QED
  BY <1>1, ElementOfSeq, Sizes DEF Bytes

-------------------------------------------------------------------------------
(* What encode yields, byte by byte.                                       *)
LEMMA ChecksumByte ==
    ASSUME NEW p \in Bytes, Len(p) <= MaxPayload
    PROVE  Checksum(<<Len(p)>> \o p) \in Byte
<1>1. Len(p) \in 0 .. MaxPayload /\ p \in [1 .. Len(p) -> Byte]
  BY LenProperties, Sizes DEF Bytes
<1> QED
  BY <1>1, LinkAssumption

LEMMA EncodeIs ==
    ASSUME NEW p \in Bytes, Len(p) <= MaxPayload
    PROVE  /\ Encode(p) \in Bytes /\ Len(Encode(p)) = Len(p) + 4
           /\ Encode(p)[1] = 1 /\ Encode(p)[2] = 2 /\ Encode(p)[3] = Len(p)
           /\ \A k \in 1 .. Len(p) : Encode(p)[k + 3] = p[k]
           /\ Encode(p)[Len(p) + 4] = Checksum(<<Len(p)>> \o p)
<1> DEFINE body == <<Len(p)>> \o p
           check == Checksum(body)
           head == MagicBytes \o body
<1>1. Len(p) \in Nat /\ Len(p) \in Byte /\ check \in Byte
  BY LenProperties, Sizes, ChecksumByte DEF Bytes
<1>2. /\ <<Len(p)>> \in Seq(Byte) /\ Len(<<Len(p)>>) = 1 /\ <<Len(p)>>[1] = Len(p)
      /\ MagicBytes \in Seq(Byte) /\ Len(MagicBytes) = 2
      /\ MagicBytes[1] = 1 /\ MagicBytes[2] = 2
      /\ <<check>> \in Seq(Byte) /\ Len(<<check>>) = 1 /\ <<check>>[1] = check
  <2> HIDE DEF check
  <2> QED
    BY <1>1, Sizes DEF MagicBytes
<1> HIDE DEF check
<1>3. /\ body \in Seq(Byte) /\ Len(body) = Len(p) + 1
      /\ body[1] = Len(p) /\ \A k \in 1 .. Len(p) : body[k + 1] = p[k]
  <2>1. /\ body \in Seq(Byte) /\ Len(body) = 1 + Len(p)
        /\ \A i \in 1 .. 1 + Len(p) : body[i] = IF i <= 1 THEN <<Len(p)>>[i] ELSE p[i - 1]
    BY <1>1, <1>2, ConcatProperties DEF Bytes
  <2> HIDE DEF body
  <2>2. \A k \in 1 .. Len(p) : k + 1 \in 1 .. 1 + Len(p) /\ ~ (k + 1 <= 1) /\ (k + 1) - 1 = k
    BY <1>1
  <2>3. 1 \in 1 .. 1 + Len(p)
    BY <1>1
  <2> QED
    BY <1>1, <1>2, <2>1, <2>2, <2>3
<1> HIDE DEF body
<1>4. /\ head \in Seq(Byte) /\ Len(head) = Len(p) + 3
      /\ head[1] = 1 /\ head[2] = 2 /\ \A k \in 1 .. Len(p) + 1 : head[k + 2] = body[k]
  <2>1. /\ head \in Seq(Byte) /\ Len(head) = 2 + Len(body)
        /\ \A i \in 1 .. 2 + Len(body) :
              head[i] = IF i <= 2 THEN MagicBytes[i] ELSE body[i - 2]
    <3>1. MagicBytes \in Seq(Byte) /\ body \in Seq(Byte)
      BY <1>2, <1>3
    <3>2. /\ head \in Seq(Byte) /\ Len(head) = Len(MagicBytes) + Len(body)
          /\ \A i \in 1 .. Len(MagicBytes) + Len(body) :
                head[i] = IF i <= Len(MagicBytes) THEN MagicBytes[i]
                          ELSE body[i - Len(MagicBytes)]
      BY <3>1, ConcatProperties
    <3>3. Len(MagicBytes) = 2
      BY <1>2
    <3> QED
      BY <3>2, <3>3
  <2> HIDE DEF head
  <2>2. \A k \in 1 .. Len(p) + 1 :
            k + 2 \in 1 .. 2 + Len(body) /\ ~ (k + 2 <= 2) /\ (k + 2) - 2 = k
    BY <1>1, <1>3
  <2>3. 1 \in 1 .. 2 + Len(body) /\ 2 \in 1 .. 2 + Len(body)
    BY <1>1, <1>3
  <2> QED
    BY <1>1, <1>2, <1>3, <2>1, <2>2, <2>3
<1>5. Encode(p) = head \o <<check>>
  BY DEF Encode, body, head, check
<1> HIDE DEF head
<1>6. /\ Encode(p) \in Seq(Byte) /\ Len(Encode(p)) = Len(p) + 4
      /\ \A i \in 1 .. Len(p) + 3 : Encode(p)[i] = head[i]
      /\ Encode(p)[Len(p) + 4] = check
  <2>1. /\ Encode(p) \in Seq(Byte) /\ Len(Encode(p)) = Len(head) + 1
        /\ \A i \in 1 .. Len(head) + 1 :
              Encode(p)[i] = IF i <= Len(head) THEN head[i] ELSE <<check>>[i - Len(head)]
    BY <1>2, <1>4, <1>5, ConcatProperties
  <2>2. /\ Len(head) + 1 = Len(p) + 4 /\ Len(p) + 4 \in 1 .. Len(head) + 1
        /\ ~ (Len(p) + 4 <= Len(head)) /\ Len(p) + 4 - Len(head) = 1
        /\ 1 .. Len(p) + 3 \subseteq 1 .. Len(head) + 1
        /\ \A i \in 1 .. Len(p) + 3 : i <= Len(head)
    BY <1>1, <1>4
  <2> QED
    BY <1>2, <2>1, <2>2
<1>7. /\ 1 \in 1 .. Len(p) + 3 /\ 2 \in 1 .. Len(p) + 3 /\ 3 \in 1 .. Len(p) + 3
      /\ 1 \in 1 .. Len(p) + 1 /\ 1 + 2 = 3
      /\ \A k \in 1 .. Len(p) : /\ k + 3 \in 1 .. Len(p) + 3 /\ (k + 1) + 2 = k + 3
                                /\ k + 1 \in 1 .. Len(p) + 1
  BY <1>1
<1>8. Encode(p)[3] = Len(p)
  BY <1>3, <1>4, <1>6, <1>7
<1>9. \A k \in 1 .. Len(p) : Encode(p)[k + 3] = p[k]
  BY <1>3, <1>4, <1>6, <1>7
<1> QED
  BY <1>4, <1>6, <1>7, <1>8, <1>9 DEF Bytes, body, check

(* The body of the frame at i, taken apart and put together again.         *)
LEMMA BodyIs ==
    ASSUME NEW r \in Bytes, NEW i \in Nat, NEW n \in 0 .. MaxPayload,
           i + n + 4 <= Len(r), r[i + 3] = n
    PROVE  <<n>> \o SubSeq(r, i + 4, i + n + 3) = SubSeq(r, i + 3, i + 3 + n)
<1>1. /\ n \in Nat /\ Len(r) \in Nat
      /\ i + 3 \in 1 .. Len(r) + 1 /\ i + 3 \in 1 .. Len(r) /\ i + 3 + n \in i + 3 .. Len(r)
      /\ (i + 3) + 1 = i + 4 /\ i + n + 3 = i + 3 + n
  BY Sizes, LenProperties DEF Bytes
<1>2. SubSeq(r, i + 3, i + 3 + n) = <<r[i + 3]>> \o SubSeq(r, (i + 3) + 1, i + 3 + n)
  BY <1>1, SubSeqRecursiveFirst DEF Bytes
<1> QED
  BY <1>1, <1>2

(* A frame with n bytes of payload is at i, told from its fields.          *)
Fields(r, i, n) ==
    /\ i + n + 4 <= Len(r)
    /\ r[i + 1] = 1 /\ r[i + 2] = 2 /\ r[i + 3] = n
    /\ r[i + n + 4] = Checksum(SubSeq(r, i + 3, i + 3 + n))

LEMMA FieldsTell ==
    ASSUME NEW r \in Bytes, NEW i \in Nat, NEW n \in 0 .. MaxPayload, i + n + 4 <= Len(r)
    PROVE  SubSeq(r, i + 1, i + n + 4) = Encode(SubSeq(r, i + 4, i + n + 3)) <=> Fields(r, i, n)
<1> DEFINE p == SubSeq(r, i + 4, i + n + 3)
           s == SubSeq(r, i + 1, i + n + 4)
<1>1. n \in Nat /\ n <= MaxPayload /\ Len(r) \in Nat
  BY Sizes, LenProperties DEF Bytes
<1>2. /\ p \in Bytes /\ Len(p) = n
      /\ \A k \in 1 .. n : p[k] = r[i + k + 3]
  <2>1. /\ i + 4 \in Nat /\ i + n + 3 \in Nat /\ 1 <= i + 4 /\ i + 4 <= i + n + 3 + 1
        /\ i + n + 3 <= Len(r) /\ i + n + 3 + 1 - (i + 4) = n
        /\ \A k \in 1 .. n : (i + 4) + k - 1 = i + k + 3
    BY <1>1
  <2>2. /\ p \in Bytes /\ Len(p) = i + n + 3 + 1 - (i + 4)
        /\ \A k \in 1 .. i + n + 3 + 1 - (i + 4) : p[k] = r[(i + 4) + k - 1]
    BY <2>1, PieceIs
  <2> HIDE DEF p
  <2> QED
    BY <2>1, <2>2
<1>3. /\ s \in Bytes /\ Len(s) = n + 4
      /\ \A k \in 1 .. n + 4 : s[k] = r[i + k]
  <2>1. /\ i + 1 \in Nat /\ i + n + 4 \in Nat /\ 1 <= i + 1 /\ i + 1 <= i + n + 4 + 1
        /\ i + n + 4 <= Len(r) /\ i + n + 4 + 1 - (i + 1) = n + 4
        /\ \A k \in 1 .. n + 4 : (i + 1) + k - 1 = i + k
    BY <1>1
  <2>2. /\ s \in Bytes /\ Len(s) = i + n + 4 + 1 - (i + 1)
        /\ \A k \in 1 .. i + n + 4 + 1 - (i + 1) : s[k] = r[(i + 1) + k - 1]
    BY <2>1, PieceIs
  <2> HIDE DEF s
  <2> QED
    BY <2>1, <2>2
<1>4. r[i + 3] = n => <<n>> \o p = SubSeq(r, i + 3, i + 3 + n)
  BY BodyIs
<1> DEFINE e == Encode(p)  body == SubSeq(r, i + 3, i + 3 + n)
<1> HIDE DEF p, s, body
<1>5. /\ e \in Bytes /\ Len(e) = n + 4 /\ e[1] = 1 /\ e[2] = 2 /\ e[3] = n
      /\ \A k \in 1 .. n : e[k + 3] = p[k]
      /\ e[n + 4] = Checksum(<<n>> \o p)
  BY <1>1, <1>2, EncodeIs
<1> HIDE DEF e
<1>6. /\ 1 \in 1 .. n + 4 /\ 2 \in 1 .. n + 4 /\ 3 \in 1 .. n + 4 /\ n + 4 \in 1 .. n + 4
      /\ i + (n + 4) = i + n + 4
  BY <1>1
<1>7. /\ s[1] = r[i + 1] /\ s[2] = r[i + 2] /\ s[3] = r[i + 3] /\ s[n + 4] = r[i + n + 4]
  BY <1>3, <1>6
<1>8. ASSUME s = e PROVE Fields(r, i, n)
  <2>1. r[i + 1] = 1 /\ r[i + 2] = 2 /\ r[i + 3] = n /\ r[i + n + 4] = Checksum(<<n>> \o p)
    BY <1>5, <1>7, <1>8
  <2> QED
    BY <1>4, <2>1 DEF Fields, body
<1>9. ASSUME Fields(r, i, n) PROVE s = e
  <2>1. /\ r[i + 1] = 1 /\ r[i + 2] = 2 /\ r[i + 3] = n
        /\ r[i + n + 4] = Checksum(<<n>> \o p)
    BY <1>4, <1>9 DEF Fields, body
  <2>2. s[1] = e[1] /\ s[2] = e[2] /\ s[3] = e[3] /\ s[n + 4] = e[n + 4]
    BY <1>5, <1>7, <2>1
  <2>3. \A k \in 1 .. n : s[k + 3] = e[k + 3]
    <3> SUFFICES ASSUME NEW k \in 1 .. n PROVE s[k + 3] = e[k + 3]
      OBVIOUS
    <3>1. k + 3 \in 1 .. n + 4 /\ i + (k + 3) = i + k + 3
      BY <1>1
    <3> QED
      BY <1>2, <1>3, <1>5, <3>1
  <2>4. \A k \in 1 .. n + 4 : k \in {1, 2, 3, n + 4} \/ (k - 3 \in 1 .. n /\ (k - 3) + 3 = k)
    BY <1>1
  <2>5. \A k \in 1 .. n + 4 : s[k] = e[k]
    BY <2>2, <2>3, <2>4
  <2> QED
    BY <1>3, <1>5, <2>5, SeqEqual DEF Bytes
<1> QED
  BY <1>8, <1>9 DEF p, s, e

-------------------------------------------------------------------------------
(* What parse says of a buffer: which field gave a corrupt one away, what  *)
(* a whole frame has in it, and how little is held back for more.          *)
LEMMA ParseSays ==
    ASSUME NEW b \in Bytes
    PROVE  /\ Parse(b) = Incomplete => Len(b) < MaxPayload + 4
           /\ Parse(b).is = "corrupt" =>
                  /\ Parse(b).discard = SeekNextMagic(b) /\ Len(b) >= 1
                  /\ \/ b[1] # 1
                     \/ Len(b) >= 2 /\ b[2] # 2
                     \/ Len(b) >= 3 /\ b[3] > MaxPayload
                     \/ /\ Len(b) >= 3 /\ Len(b) >= b[3] + 4
                        /\ b[b[3] + 4] # Checksum(SubSeq(b, 3, 3 + b[3]))
           /\ Parse(b).is = "ok" =>
                  /\ b[3] \in 0 .. MaxPayload /\ Len(b) >= b[3] + 4
                  /\ b[1] = 1 /\ b[2] = 2
                  /\ b[b[3] + 4] = Checksum(SubSeq(b, 3, 3 + b[3]))
                  /\ Parse(b).payload = SubSeq(b, 4, 3 + b[3])
                  /\ Parse(b).consumed = b[3] + 4
<1> DEFINE bad == \E k \in 1 .. Len(MagicBytes) : k <= Len(b) /\ b[k] # MagicBytes[k]
           torn == b[Overhead + b[3]] # Checksum(SubSeq(b, 3, 3 + b[3]))
<1>1. Len(b) \in Nat /\ (Len(b) >= 3 => b[3] \in Byte /\ b[3] \in Nat)
  <2>1. 2 \in Nat /\ 2 + 1 = 3
    OBVIOUS
  <2> QED
    BY <2>1, ByteOf, LenProperties DEF Bytes
<1>2. bad <=> (Len(b) >= 1 /\ b[1] # 1) \/ (Len(b) >= 2 /\ b[2] # 2)
  <2>1. \A k \in 1 .. Len(MagicBytes) : k = 1 \/ k = 2
    BY OverheadIs
  <2>2. 1 \in 1 .. Len(MagicBytes) /\ 2 \in 1 .. Len(MagicBytes)
        /\ MagicBytes[1] = 1 /\ MagicBytes[2] = 2
    BY OverheadIs
  <2> QED
    BY <1>1, <2>1, <2>2
<1>3. Corrupt(b).is = "corrupt" /\ Corrupt(b).discard = SeekNextMagic(b)
      /\ Incomplete.is = "incomplete"
  BY DEF Corrupt, Incomplete
<1> HIDE DEF bad
<1>4. CASE bad
  <2>1. Parse(b) = Corrupt(b)
    BY <1>4 DEF Parse, bad
  <2>2. Parse(b).is = "corrupt" /\ Parse(b).discard = SeekNextMagic(b) /\ Parse(b) # Incomplete
    BY <1>3, <2>1
  <2>3. Len(b) >= 1 /\ (b[1] # 1 \/ (Len(b) >= 2 /\ b[2] # 2))
    BY <1>1, <1>2, <1>4
  <2> QED
    BY <2>2, <2>3
<1>5. CASE ~bad /\ Len(b) < 3
  <2>1. Parse(b) = Incomplete
    BY <1>5 DEF Parse, bad
  <2> QED
    BY <1>1, <1>3, <1>5, <2>1, Sizes
<1>6. CASE ~bad /\ ~(Len(b) < 3) /\ b[3] > MaxPayload
  <2>1. Parse(b) = Corrupt(b)
    BY <1>6 DEF Parse, bad
  <2>2. Parse(b).is = "corrupt" /\ Parse(b).discard = SeekNextMagic(b) /\ Parse(b) # Incomplete
    BY <1>3, <2>1
  <2>3. Len(b) >= 3 /\ Len(b) >= 1
    BY <1>1, <1>6
  <2> QED
    BY <1>6, <2>2, <2>3
<1>7. CASE ~bad /\ ~(Len(b) < 3) /\ ~(b[3] > MaxPayload) /\ Len(b) < Overhead + b[3]
  <2>1. Parse(b) = Incomplete
    BY <1>7 DEF Parse, bad
  <2>2. Len(b) < MaxPayload + 4
    BY <1>1, <1>7, OverheadIs, Sizes
  <2> QED
    BY <1>3, <2>1, <2>2
<1>8. CASE ~bad /\ ~(Len(b) < 3) /\ ~(b[3] > MaxPayload) /\ ~(Len(b) < Overhead + b[3])
  <2>1. /\ b[3] \in 0 .. MaxPayload /\ Len(b) >= b[3] + 4 /\ Overhead + b[3] = b[3] + 4
        /\ b[1] = 1 /\ b[2] = 2 /\ Len(b) >= 1
    BY <1>1, <1>2, <1>8, OverheadIs, Sizes
  <2>2. CASE torn
    <3>1. Parse(b) = Corrupt(b)
      BY <1>8, <2>2 DEF Parse, bad
    <3>2. Parse(b).is = "corrupt" /\ Parse(b).discard = SeekNextMagic(b) /\ Parse(b) # Incomplete
      BY <1>3, <3>1
    <3> QED
      BY <2>1, <2>2, <3>2
  <2>3. CASE ~torn
    <3>1. Parse(b) = [is |-> "ok", payload |-> SubSeq(b, 4, 3 + b[3]),
                      consumed |-> Overhead + b[3]]
      BY <1>8, <2>3 DEF Parse, bad
    <3> DEFINE pay == SubSeq(b, 4, 3 + b[3])  used == Overhead + b[3]
    <3> HIDE DEF pay, used
    <3>2. Parse(b) = [is |-> "ok", payload |-> pay, consumed |-> used]
      BY <3>1 DEF pay, used
    <3>3. Parse(b).is = "ok" /\ Parse(b).payload = pay /\ Parse(b).consumed = used
      BY <3>2
    <3>4. Parse(b) # Incomplete
      BY <1>3, <3>3
    <3> QED
      BY <2>1, <2>3, <3>3, <3>4 DEF pay, used
  <2> QED
    BY <2>2, <2>3
<1> QED
  BY <1>4, <1>5, <1>6, <1>7, <1>8

(* What seek_next_magic skips has no first magic byte in it.               *)
LEMMA SeekSkips ==
    ASSUME NEW b \in Bytes, Len(b) >= 1
    PROVE  /\ SeekNextMagic(b) \in 1 .. Len(b)
           /\ \A k \in 2 .. SeekNextMagic(b) : b[k] # 1
<1> DEFINE at == {k \in 2 .. Len(b) : b[k] = MagicBytes[1]}
           least == CHOOSE k \in at : \A j \in at : k <= j
<1>1. Len(b) \in Nat /\ MagicBytes[1] = 1
  BY LenProperties, OverheadIs DEF Bytes
<1>2. SeekNextMagic(b) = IF at = {} THEN Len(b) ELSE least - 1
  BY DEF SeekNextMagic
<1>3. CASE at = {}
  <2>1. \A k \in 2 .. Len(b) : b[k] # 1
    BY <1>1, <1>3
  <2> QED
    BY <1>1, <1>2, <1>3, <2>1
<1>4. CASE at # {}
  <2>1. at \subseteq Nat /\ at \subseteq 2 .. Len(b) /\ \A k \in 2 .. Len(b) : b[k] = 1 => k \in at
    BY <1>1
  <2> HIDE DEF at
  <2>2. PICK m \in at : \A j \in at : ~ (<<j, m>> \in OpToRel(<, Nat))
    <3> DEFINE R == OpToRel(<, Nat)
    <3>1. IsWellFoundedOn(R, Nat)
      BY NatLessThanWellFounded
    <3> HIDE DEF R
    <3>2. \E m \in at : \A j \in at : ~ (<<j, m>> \in R)
      BY <1>4, <2>1, <3>1, WFMin
    <3> QED
      BY <3>2 DEF R
  <2>3. \A j \in at : m <= j
    <3> SUFFICES ASSUME NEW j \in at PROVE m <= j
      OBVIOUS
    <3>1. j \in Nat /\ m \in Nat /\ ~ (j < m)
      BY <2>1, <2>2 DEF OpToRel
    <3> QED
      BY <3>1
  <2>4. least \in at /\ \A j \in at : least <= j
    BY <2>3
  <2> HIDE DEF least
  <2>5. least \in 2 .. Len(b) /\ SeekNextMagic(b) = least - 1
    BY <1>2, <1>4, <2>1, <2>4
  <2>6. ASSUME NEW k \in 2 .. least - 1 PROVE b[k] # 1
    <3>1. k \in 2 .. Len(b) /\ ~ (least <= k)
      BY <1>1, <2>5
    <3> QED
      BY <2>1, <2>4, <3>1
  <2> QED
    BY <1>1, <2>5, <2>6
<1> QED
  BY <1>3, <1>4

-------------------------------------------------------------------------------
(* What is judged, and what stands, in all that was read.                  *)

(* No frame is at i, and none will be however the stream goes on.          *)
Refuted(r, i) ==
    \/ r[i + 1] # 1
    \/ i + 2 <= Len(r) /\ r[i + 2] # 2
    \/ i + 3 <= Len(r) /\ r[i + 3] > MaxPayload
    \/ /\ i + 3 <= Len(r) /\ i + r[i + 3] + 4 <= Len(r)
       /\ r[i + r[i + 3] + 4] # Checksum(SubSeq(r, i + 3, i + 3 + r[i + 3]))

LEMMA RefutedMeans ==
    ASSUME NEW r \in Bytes, NEW i \in Nat, NEW n \in 0 .. MaxPayload, Fields(r, i, n)
    PROVE  ~ Refuted(r, i)
<1>1. /\ n \in Nat /\ n <= MaxPayload /\ MaxPayload \in Nat
      /\ r[i + 1] = 1 /\ r[i + 2] = 2 /\ r[i + 3] = n
      /\ r[i + n + 4] = Checksum(SubSeq(r, i + 3, i + 3 + n))
  BY Sizes DEF Fields
<1>2. ~ (n > MaxPayload)
  BY <1>1
<1> QED
  BY <1>1, <1>2 DEF Refuted

(* Reading on changes neither.                                             *)
LEMMA ReadOn ==
    ASSUME NEW r \in Bytes, NEW w \in Bytes
    PROVE  /\ r \o w \in Bytes /\ Len(r \o w) = Len(r) + Len(w)
           /\ \A k \in 1 .. Len(r) : (r \o w)[k] = r[k]
           /\ \A a, b \in 1 .. Len(r) : SubSeq(r \o w, a, b) = SubSeq(r, a, b)
<1>1. /\ r \o w \in Bytes /\ Len(r \o w) = Len(r) + Len(w)
      /\ \A k \in 1 .. Len(r) + Len(w) :
            (r \o w)[k] = IF k <= Len(r) THEN r[k] ELSE w[k - Len(r)]
  BY ConcatProperties DEF Bytes
<1>2. Len(r) \in Nat /\ Len(w) \in Nat
  BY LenProperties DEF Bytes
<1>3. \A k \in 1 .. Len(r) : k \in 1 .. Len(r) + Len(w) /\ k <= Len(r)
  BY <1>2
<1>4. \A a, b \in 1 .. Len(r) : SubSeq(r \o w, a, b) = SubSeq(r, a, b)
  BY SubSeqOfConcat1 DEF Bytes
<1> QED
  BY <1>1, <1>3, <1>4

LEMMA RefutedStays ==
    ASSUME NEW r \in Bytes, NEW w \in Bytes, NEW i \in Nat, i < Len(r), Refuted(r, i)
    PROVE  Refuted(r \o w, i)
<1> DEFINE q == r \o w
<1>1. /\ q \in Bytes /\ Len(q) = Len(r) + Len(w)
      /\ \A k \in 1 .. Len(r) : q[k] = r[k]
      /\ \A a, b \in 1 .. Len(r) : SubSeq(q, a, b) = SubSeq(r, a, b)
  BY ReadOn
<1> HIDE DEF q
<1>2. Len(r) \in Nat /\ Len(w) \in Nat
  BY LenProperties DEF Bytes
<1>3. \A k \in Nat : i + k + 1 <= Len(r) => /\ q[i + k + 1] = r[i + k + 1]
                                            /\ i + k + 1 <= Len(q)
  BY <1>1, <1>2
<1>4. 0 \in Nat /\ 1 \in Nat /\ 2 \in Nat /\ i + 0 + 1 = i + 1 /\ i + 1 + 1 = i + 2
      /\ i + 2 + 1 = i + 3
      /\ i + 1 <= Len(r)
  BY <1>2
<1>5. /\ q[i + 1] = r[i + 1]
      /\ i + 2 <= Len(r) => q[i + 2] = r[i + 2] /\ i + 2 <= Len(q)
      /\ i + 3 <= Len(r) => q[i + 3] = r[i + 3] /\ i + 3 <= Len(q)
  BY <1>3, <1>4
<1>6. CASE /\ i + 3 <= Len(r) /\ i + r[i + 3] + 4 <= Len(r)
           /\ r[i + r[i + 3] + 4] # Checksum(SubSeq(r, i + 3, i + 3 + r[i + 3]))
  <2> DEFINE n == r[i + 3]
  <2>1. n \in Nat
    <3>1. i + 2 \in Nat /\ i + 2 < Len(r) /\ (i + 2) + 1 = i + 3
      BY <1>2, <1>6
    <3> QED
      BY <3>1, ByteOf
  <2>2. i + n + 4 <= Len(r)
    BY <1>6
  <2> HIDE DEF n
  <2>3. /\ i + n + 4 \in 1 .. Len(r) /\ i + 3 \in 1 .. Len(r) /\ i + 3 + n \in 1 .. Len(r)
        /\ i + n + 4 <= Len(q)
    BY <1>1, <1>2, <2>1, <2>2
  <2>4. q[i + n + 4] = r[i + n + 4] /\ SubSeq(q, i + 3, i + 3 + n) = SubSeq(r, i + 3, i + 3 + n)
    BY <1>1, <2>3
  <2>5. q[i + 3] = n /\ i + 3 <= Len(q) /\ q[i + n + 4] # Checksum(SubSeq(q, i + 3, i + 3 + n))
    BY <1>5, <1>6, <2>4 DEF n
  <2>6. Refuted(q, i)
    BY <2>3, <2>5 DEF Refuted
  <2> QED
    BY <2>6 DEF q
<1>7. CASE \/ r[i + 1] # 1
           \/ i + 2 <= Len(r) /\ r[i + 2] # 2
           \/ i + 3 <= Len(r) /\ r[i + 3] > MaxPayload
  <2>1. Refuted(q, i)
    BY <1>5, <1>7 DEF Refuted
  <2> QED
    BY <2>1 DEF q
<1> QED
  BY <1>6, <1>7 DEF Refuted

LEMMA FieldsStay ==
    ASSUME NEW r \in Bytes, NEW w \in Bytes, NEW i \in Nat, NEW n \in 0 .. MaxPayload,
           Fields(r, i, n)
    PROVE  /\ Fields(r \o w, i, n)
           /\ SubSeq(r \o w, i + 4, i + n + 3) = SubSeq(r, i + 4, i + n + 3)
<1> DEFINE q == r \o w
<1>1. /\ Len(q) = Len(r) + Len(w)
      /\ \A k \in 1 .. Len(r) : q[k] = r[k]
      /\ \A a, b \in 1 .. Len(r) : SubSeq(q, a, b) = SubSeq(r, a, b)
  BY ReadOn
<1> HIDE DEF q
<1>2. Len(r) \in Nat /\ Len(w) \in Nat /\ n \in Nat /\ i + n + 4 <= Len(r)
  BY LenProperties, Sizes DEF Bytes, Fields
<1>3. /\ i + 1 \in 1 .. Len(r) /\ i + 2 \in 1 .. Len(r) /\ i + 3 \in 1 .. Len(r)
      /\ i + 4 \in 1 .. Len(r) /\ i + n + 3 \in 1 .. Len(r) /\ i + n + 4 \in 1 .. Len(r)
      /\ i + 3 + n \in 1 .. Len(r)
      /\ i + n + 4 <= Len(q)
  BY <1>1, <1>2
<1>4. /\ q[i + 1] = r[i + 1] /\ q[i + 2] = r[i + 2] /\ q[i + 3] = r[i + 3]
      /\ q[i + n + 4] = r[i + n + 4]
      /\ SubSeq(q, i + 3, i + 3 + n) = SubSeq(r, i + 3, i + 3 + n)
      /\ SubSeq(q, i + 4, i + n + 3) = SubSeq(r, i + 4, i + n + 3)
  BY <1>1, <1>3
<1>5. Fields(q, i, n)
  BY <1>3, <1>4 DEF Fields
<1> QED
  BY <1>4, <1>5 DEF q

(* A frame that stands in r.                                               *)
FrameIn(r, f) ==
    \E i \in Nat, n \in 0 .. MaxPayload :
        Fields(r, i, n) /\ f = [at |-> i, payload |-> SubSeq(r, i + 4, i + n + 3)]

LEMMA FrameIs ==
    ASSUME NEW r \in Bytes, NEW f, FrameIn(r, f)
    PROVE  /\ f.at \in Nat /\ f.payload \in Bytes /\ Len(f.payload) \in 0 .. MaxPayload
           /\ Fields(r, f.at, Len(f.payload))
           /\ f = [at |-> f.at,
                   payload |-> SubSeq(r, f.at + 4, f.at + Len(f.payload) + 3)]
           /\ EndOf(f) = f.at + Len(f.payload) + 4 /\ EndOf(f) <= Len(r)
<1>1. PICK i \in Nat, n \in 0 .. MaxPayload :
          Fields(r, i, n) /\ f = [at |-> i, payload |-> SubSeq(r, i + 4, i + n + 3)]
  BY DEF FrameIn
<1> DEFINE p == SubSeq(r, i + 4, i + n + 3)
<1>2. n \in Nat /\ Len(r) \in Nat /\ i + n + 4 <= Len(r)
  BY <1>1, Sizes, LenProperties DEF Bytes, Fields
<1>3. /\ i + 4 \in Nat /\ i + n + 3 \in Nat /\ 1 <= i + 4 /\ i + 4 <= i + n + 3 + 1
      /\ i + n + 3 <= Len(r) /\ i + n + 3 + 1 - (i + 4) = n
  BY <1>2
<1>4. p \in Bytes /\ Len(p) = n
  BY <1>3, PieceIs
<1>5. f.at = i /\ f.payload = p
  BY <1>1
<1>6. EndOf(f) = i + n + 4
  BY <1>2, <1>4, <1>5, OverheadIs DEF EndOf
<1> QED
  BY <1>1, <1>2, <1>4, <1>5, <1>6

LEMMA CandidatesAre ==
    ASSUME read \in Bytes
    PROVE  \A f : f \in Candidates <=> FrameIn(read, f)
<1>1. Len(read) \in Nat
  BY LenProperties DEF Bytes
<1>2. ASSUME NEW i \in Nat, NEW n \in 0 .. MaxPayload
      PROVE  Stands(i, n) <=> Fields(read, i, n)
  <2>1. n \in Nat /\ i + n + Overhead = i + n + 4
    BY Sizes, OverheadIs
  <2>2. i + n + 4 <= Len(read) =>
            (SubSeq(read, i + 1, i + n + 4) = Encode(Piece(i, n)) <=> Fields(read, i, n))
    BY FieldsTell DEF Piece
  <2> QED
    BY <2>1, <2>2 DEF Stands, Fields
<1>3. ASSUME NEW f, f \in Candidates PROVE FrameIn(read, f)
  <2>1. PICK i \in 0 .. Len(read), n \in 0 .. MaxPayload :
            Stands(i, n) /\ f = [at |-> i, payload |-> Piece(i, n)]
    BY <1>3 DEF Candidates
  <2>2. i \in Nat
    BY <1>1
  <2> QED
    BY <1>2, <2>1, <2>2 DEF FrameIn, Piece
<1>4. ASSUME NEW f, FrameIn(read, f) PROVE f \in Candidates
  <2>1. PICK i \in Nat, n \in 0 .. MaxPayload :
            Fields(read, i, n) /\ f = [at |-> i, payload |-> Piece(i, n)]
    BY <1>4 DEF FrameIn, Piece
  <2>2. i \in 0 .. Len(read)
    <3>1. n \in Nat /\ i + n + 4 <= Len(read)
      BY <2>1, Sizes DEF Fields
    <3> QED
      BY <1>1, <3>1
  <2>3. Stands(i, n)
    BY <1>2, <2>1
  <2> QED
    BY <2>1, <2>2, <2>3 DEF Candidates
<1> QED
  BY <1>3, <1>4

(* At one place stands one frame.                                          *)
LEMMA OneFrameAt ==
    ASSUME NEW r \in Bytes, NEW f, FrameIn(r, f), NEW g, FrameIn(r, g), f.at = g.at
    PROVE  f = g
<1>1. /\ Fields(r, f.at, Len(f.payload)) /\ Fields(r, g.at, Len(g.payload))
      /\ f = [at |-> f.at, payload |-> SubSeq(r, f.at + 4, f.at + Len(f.payload) + 3)]
      /\ g = [at |-> g.at, payload |-> SubSeq(r, g.at + 4, g.at + Len(g.payload) + 3)]
  BY FrameIs
<1>2. Len(f.payload) = Len(g.payload)
  BY <1>1 DEF Fields
<1> QED
  BY <1>1, <1>2

LEMMA FrameStays ==
    ASSUME NEW r \in Bytes, NEW w \in Bytes, NEW f, FrameIn(r, f)
    PROVE  FrameIn(r \o w, f)
<1>1. PICK i \in Nat, n \in 0 .. MaxPayload :
          Fields(r, i, n) /\ f = [at |-> i, payload |-> SubSeq(r, i + 4, i + n + 3)]
  BY DEF FrameIn
<1> QED
  BY <1>1, FieldsStay DEF FrameIn

-------------------------------------------------------------------------------
(* The decoder.                                                            *)
LEMMA BufferIs ==
    ASSUME read \in Bytes, pos \in 0 .. Len(read)
    PROVE  /\ Buffered \in Bytes /\ Len(Buffered) = Len(read) - pos
           /\ \A k \in 1 .. Len(read) - pos : Buffered[k] = read[pos + k]
           /\ \A a, b \in 1 .. Len(read) - pos :
                  SubSeq(Buffered, a, b) = SubSeq(read, pos + a, pos + b)
<1>1. Len(read) \in Nat /\ pos \in Nat /\ pos <= Len(read)
  BY LenProperties DEF Bytes
<1>2. /\ pos + 1 \in Nat /\ 1 <= pos + 1 /\ pos + 1 <= Len(read) + 1
      /\ Len(read) + 1 - (pos + 1) = Len(read) - pos
      /\ \A k \in 1 .. Len(read) - pos : (pos + 1) + k - 1 = pos + k
  BY <1>1
<1>3. /\ Buffered \in Bytes /\ Len(Buffered) = Len(read) + 1 - (pos + 1)
      /\ \A k \in 1 .. Len(read) + 1 - (pos + 1) : Buffered[k] = read[(pos + 1) + k - 1]
  <2>1. Buffered = SubSeq(read, pos + 1, Len(read))
    BY DEF Buffered
  <2>2. Len(read) <= Len(read)
    BY <1>1
  <2> QED
    BY <1>1, <1>2, <2>1, <2>2, PieceIs
<1>4. ASSUME NEW a \in 1 .. Len(read) - pos, NEW b \in 1 .. Len(read) - pos
      PROVE  SubSeq(Buffered, a, b) = SubSeq(read, pos + a, pos + b)
  <2>1. /\ pos + 1 \in 1 .. Len(read) /\ Len(read) \in 1 .. Len(read)
        /\ a \in 1 .. Len(read) - (pos + 1) + 1 /\ b \in 1 .. Len(read) - (pos + 1) + 1
        /\ (pos + 1) + a - 1 = pos + a /\ (pos + 1) + b - 1 = pos + b
    BY <1>1
  <2>2. SubSeq(SubSeq(read, pos + 1, Len(read)), a, b)
            = SubSeq(read, (pos + 1) + a - 1, (pos + 1) + b - 1)
    BY <2>1, SubSeqOfSubSeq DEF Bytes
  <2> QED
    BY <2>1, <2>2 DEF Buffered
<1> QED
  BY <1>2, <1>3, <1>4

(* A frame parsed is one that stands at the judged position.               *)
LEMMA ParsedStands ==
    ASSUME read \in Bytes, pos \in 0 .. Len(read), Parse(Buffered).is = "ok",
           NEW f, f = [at |-> pos, payload |-> Parse(Buffered).payload]
    PROVE  /\ FrameIn(read, f) /\ f.at = pos
           /\ EndOf(f) = pos + Parse(Buffered).consumed /\ EndOf(f) \in pos + 1 .. Len(read)
<1> DEFINE b == Buffered  n == b[3]
<1>1. Len(read) \in Nat /\ pos \in Nat /\ pos <= Len(read)
  BY LenProperties DEF Bytes
<1>2. /\ b \in Bytes /\ Len(b) = Len(read) - pos
      /\ \A k \in 1 .. Len(read) - pos : b[k] = read[pos + k]
      /\ \A a, c \in 1 .. Len(read) - pos : SubSeq(b, a, c) = SubSeq(read, pos + a, pos + c)
  BY BufferIs
<1> HIDE DEF b
<1>3. /\ n \in 0 .. MaxPayload /\ Len(b) >= n + 4 /\ b[1] = 1 /\ b[2] = 2
      /\ b[n + 4] = Checksum(SubSeq(b, 3, 3 + n))
      /\ Parse(b).payload = SubSeq(b, 4, 3 + n) /\ Parse(b).consumed = n + 4
  <2>1. Parse(b).is = "ok"
    BY DEF b
  <2> QED
    BY <1>2, <2>1, ParseSays
<1>4. n \in Nat
  BY <1>3, Sizes
<1> HIDE DEF n
<1>5. /\ 1 \in 1 .. Len(read) - pos /\ 2 \in 1 .. Len(read) - pos /\ 3 \in 1 .. Len(read) - pos
      /\ 4 \in 1 .. Len(read) - pos /\ 3 + n \in 1 .. Len(read) - pos
      /\ n + 4 \in 1 .. Len(read) - pos
      /\ pos + (n + 4) = pos + n + 4 /\ pos + (3 + n) = pos + n + 3 /\ pos + 3 + n = pos + (3 + n)
      /\ pos + n + 4 <= Len(read)
  BY <1>1, <1>2, <1>3, <1>4
<1>6. /\ read[pos + 1] = 1 /\ read[pos + 2] = 2 /\ read[pos + 3] = n
      /\ read[pos + n + 4] = b[n + 4]
      /\ SubSeq(b, 3, 3 + n) = SubSeq(read, pos + 3, pos + 3 + n)
      /\ SubSeq(b, 4, 3 + n) = SubSeq(read, pos + 4, pos + n + 3)
  <2>1. read[pos + 1] = 1 /\ read[pos + 2] = 2
    BY <1>2, <1>3, <1>5
  <2>2. read[pos + 3] = n
    BY <1>2, <1>5 DEF n
  <2>3. read[pos + n + 4] = b[n + 4]
    BY <1>2, <1>5
  <2>4. /\ SubSeq(b, 3, 3 + n) = SubSeq(read, pos + 3, pos + 3 + n)
        /\ SubSeq(b, 4, 3 + n) = SubSeq(read, pos + 4, pos + n + 3)
    <3>1. \A a, c \in 1 .. Len(read) - pos : SubSeq(b, a, c) = SubSeq(read, pos + a, pos + c)
      BY <1>2
    <3>2. SubSeq(b, 3, 3 + n) = SubSeq(read, pos + 3, pos + (3 + n))
      BY <1>5, <3>1
    <3>3. SubSeq(b, 4, 3 + n) = SubSeq(read, pos + 4, pos + (3 + n))
      BY <1>5, <3>1
    <3> QED
      BY <1>5, <3>2, <3>3
  <2> QED
    BY <2>1, <2>2, <2>3, <2>4
<1>7. Fields(read, pos, n)
  BY <1>3, <1>5, <1>6 DEF Fields
<1>8. f = [at |-> pos, payload |-> SubSeq(read, pos + 4, pos + n + 3)]
  BY <1>3, <1>6 DEF b
<1>9. FrameIn(read, f)
  BY <1>1, <1>3, <1>7, <1>8 DEF FrameIn
<1>10. f.at = pos /\ Len(f.payload) = n
  <2>1. f.at = pos /\ f.payload = SubSeq(read, pos + 4, pos + n + 3)
    BY <1>8
  <2>2. /\ pos + 4 \in Nat /\ pos + n + 3 \in Nat /\ 1 <= pos + 4 /\ pos + 4 <= pos + n + 3 + 1
        /\ pos + n + 3 <= Len(read) /\ pos + n + 3 + 1 - (pos + 4) = n
    BY <1>1, <1>4, <1>5
  <2>3. Len(SubSeq(read, pos + 4, pos + n + 3)) = pos + n + 3 + 1 - (pos + 4)
    BY <2>2, PieceIs
  <2> QED
    BY <2>1, <2>2, <2>3
<1>11. EndOf(f) = pos + n + 4
  <2>1. EndOf(f) = pos + 4 + n
    BY <1>10, OverheadIs, Zenon DEF EndOf
  <2> QED
    BY <1>1, <1>4, <2>1
<1>12. pos + Parse(b).consumed = pos + n + 4 /\ pos + n + 4 \in pos + 1 .. Len(read)
  BY <1>1, <1>3, <1>4, <1>5
<1> QED
  BY <1>9, <1>10, <1>11, <1>12 DEF b

(* Nothing stands, or ever will, in what is discarded.                     *)
LEMMA DiscardedRefuted ==
    ASSUME read \in Bytes, pos \in 0 .. Len(read), Parse(Buffered).is = "corrupt",
           NEW ahead, ahead = pos + Parse(Buffered).discard
    PROVE  ahead \in pos + 1 .. Len(read) /\ \A i \in pos .. ahead - 1 : Refuted(read, i)
<1> DEFINE b == Buffered  d == SeekNextMagic(b)
<1>1. Len(read) \in Nat /\ pos \in Nat /\ pos <= Len(read)
  BY LenProperties DEF Bytes
<1>2. /\ b \in Bytes /\ Len(b) = Len(read) - pos
      /\ \A k \in 1 .. Len(read) - pos : b[k] = read[pos + k]
      /\ \A a, c \in 1 .. Len(read) - pos : SubSeq(b, a, c) = SubSeq(read, pos + a, pos + c)
  BY BufferIs
<1> HIDE DEF b
<1>3. /\ Parse(b).discard = d /\ Len(b) >= 1
      /\ \/ b[1] # 1
         \/ Len(b) >= 2 /\ b[2] # 2
         \/ Len(b) >= 3 /\ b[3] > MaxPayload
         \/ /\ Len(b) >= 3 /\ Len(b) >= b[3] + 4
            /\ b[b[3] + 4] # Checksum(SubSeq(b, 3, 3 + b[3]))
  <2>1. Parse(b).is = "corrupt"
    BY DEF b
  <2> QED
    BY <1>2, <2>1, ParseSays
<1>4. d \in 1 .. Len(b) /\ \A k \in 2 .. d : b[k] # 1
  BY <1>2, <1>3, SeekSkips
<1> HIDE DEF d
<1>5. ahead = pos + d /\ ahead \in pos + 1 .. Len(read)
  <2>1. ahead = pos + d
    BY <1>3 DEF b
  <2> QED
    BY <1>1, <1>2, <1>4, <2>1
<1>6. /\ Len(b) \in Nat
      /\ \A k \in Nat :
             k >= 1 /\ Len(b) >= k => b[k] = read[pos + k] /\ pos + k <= Len(read)
  BY <1>1, <1>2
<1>7. Refuted(read, pos)
  <2>1. CASE b[1] # 1
    <3>1. b[1] = read[pos + 1]
      BY <1>3, <1>6
    <3> QED
      BY <2>1, <3>1 DEF Refuted
  <2>2. CASE Len(b) >= 2 /\ b[2] # 2
    <3>1. b[2] = read[pos + 2] /\ pos + 2 <= Len(read)
      BY <1>6, <2>2
    <3> QED
      BY <2>2, <3>1 DEF Refuted
  <2>3. CASE Len(b) >= 3 /\ b[3] > MaxPayload
    <3>1. b[3] = read[pos + 3] /\ pos + 3 <= Len(read)
      BY <1>6, <2>3
    <3> QED
      BY <2>3, <3>1 DEF Refuted
  <2>4. CASE /\ Len(b) >= 3 /\ Len(b) >= b[3] + 4
             /\ b[b[3] + 4] # Checksum(SubSeq(b, 3, 3 + b[3]))
    <3> DEFINE n == b[3]
    <3>1. n \in Nat
      <4>1. 2 \in Nat /\ 2 < Len(b) /\ 2 + 1 = 3
        BY <1>6, <2>4
      <4> QED
        BY <1>2, <4>1, ByteOf
    <3>2. Len(b) >= n + 4 /\ n = read[pos + 3] /\ pos + 3 <= Len(read)
      BY <1>6, <2>4
    <3> HIDE DEF n
    <3>3. /\ n + 4 \in Nat /\ n + 4 >= 1 /\ pos + (n + 4) = pos + n + 4
          /\ 3 \in 1 .. Len(read) - pos /\ 3 + n \in 1 .. Len(read) - pos
          /\ pos + (3 + n) = pos + 3 + n
      <4>1. Len(b) = Len(read) - pos
        BY <1>2
      <4>2. Len(read) - pos \in Nat /\ Len(read) - pos >= n + 4
        BY <1>1, <3>2, <4>1
      <4> QED
        BY <1>1, <3>1, <4>2
    <3>4. b[n + 4] = read[pos + n + 4] /\ pos + n + 4 <= Len(read)
      BY <1>6, <3>2, <3>3
    <3>5. SubSeq(b, 3, 3 + n) = SubSeq(read, pos + 3, pos + 3 + n)
      BY <1>2, <3>3
    <3>6. read[pos + n + 4] # Checksum(SubSeq(read, pos + 3, pos + 3 + n))
      BY <2>4, <3>4, <3>5 DEF n
    <3> QED
      BY <3>2, <3>4, <3>6 DEF Refuted
  <2> QED
    BY <1>3, <2>1, <2>2, <2>3, <2>4
<1>8. ASSUME NEW i \in pos .. ahead - 1 PROVE Refuted(read, i)
  <2>1. CASE i = pos
    BY <1>7, <2>1
  <2>2. CASE i # pos
    <3>1. /\ i - pos + 1 \in 2 .. d /\ i - pos + 1 \in 1 .. Len(read) - pos
          /\ pos + (i - pos + 1) = i + 1
      BY <1>1, <1>2, <1>4, <1>5, <2>2
    <3>2. read[i + 1] # 1
      BY <1>2, <1>4, <3>1
    <3> QED
      BY <3>2 DEF Refuted
  <2> QED
    BY <2>1, <2>2
<1> QED
  BY <1>5, <1>8

-------------------------------------------------------------------------------
(* The inductive invariant: whatever was decoded stands in what was read   *)
(* and lies behind the judged position, no decoded frame begins inside     *)
(* another, and every offset judged either can never be a frame's start or *)
(* lies in a decoded frame.                                                *)
Typed ==
    /\ wire \in Bytes /\ read \in Bytes /\ pos \in 0 .. Len(read)
    /\ out \in Seq([at : Nat, payload : Bytes])
    /\ frames \in 0 .. MaxFrames /\ cuts \in 0 .. MaxCuts /\ reopens \in 0 .. MaxReopens
Stood == \A d \in Range(out) : FrameIn(read, d) /\ EndOf(d) <= pos
Apart == \A d, e \in Range(out) : ~ Overlap(d, e)
Judged ==
    \A i \in 0 .. pos - 1 :
        Refuted(read, i) \/ \E d \in Range(out) : d.at <= i /\ i < EndOf(d)
DecoderInv == Typed /\ Stood /\ Apart /\ Judged

LEMMA Started == ASSUME Init PROVE DecoderInv
<1>1. Range(out) = {}
  BY DEF Init, Range
<1>2. <<>> \in Bytes /\ <<>> \in Seq([at : Nat, payload : Bytes]) /\ Len(<<>>) = 0
  BY DEF Bytes
<1>3. Typed
  BY <1>2, LinkAssumption DEF Init, Typed
<1>4. 0 .. pos - 1 = {}
  BY DEF Init
<1> QED
  BY <1>1, <1>3, <1>4 DEF DecoderInv, Stood, Apart, Judged

(* What is only written leaves the decoder alone.                          *)
LEMMA PayloadIs ==
    ASSUME NEW p \in Payloads
    PROVE  p \in Bytes /\ Len(p) <= MaxPayload /\ Encode(p) \in Bytes
<1>1. PICK n \in 0 .. MaxPayload : p \in [1 .. n -> Byte]
  BY LinkAssumption
<1>2. n \in Nat /\ n <= MaxPayload
  BY <1>1, Sizes
<1>3. p \in Seq(Byte) /\ Len(p) = n
  BY <1>1, <1>2
<1>4. p \in Bytes /\ Len(p) <= MaxPayload
  BY <1>2, <1>3 DEF Bytes
<1> QED
  BY <1>4, EncodeIs

LEMMA Written ==
    ASSUME DecoderInv, wire' \in Bytes, UNCHANGED <<read, pos, out>>,
           frames' \in 0 .. MaxFrames, cuts' \in 0 .. MaxCuts, reopens' \in 0 .. MaxReopens
    PROVE  DecoderInv'
<1>1. Typed'
  BY DEF DecoderInv, Typed
<1>2. Stood' /\ Apart' /\ Judged'
  BY DEF DecoderInv, Stood, Apart, Judged
<1> QED
  BY <1>1, <1>2 DEF DecoderInv

LEMMA StepWriteFrame == ASSUME DecoderInv, WriteFrame PROVE DecoderInv'
<1>1. PICK p \in Payloads : wire' = wire \o Encode(p)
  BY DEF WriteFrame
<1>2. wire' \in Bytes
  BY <1>1, PayloadIs, ConcatProperties DEF DecoderInv, Typed, Bytes
<1>3. frames' \in 0 .. MaxFrames
  BY LinkAssumption DEF WriteFrame, DecoderInv, Typed
<1> QED
  BY <1>2, <1>3, Written DEF WriteFrame, DecoderInv, Typed

LEMMA StepCutFrame == ASSUME DecoderInv, CutFrame PROVE DecoderInv'
<1>1. PICK p \in Payloads, n \in 1 .. Overhead + MaxPayload :
          n < Len(Encode(p)) /\ wire' = wire \o SubSeq(Encode(p), 1, n)
  BY DEF CutFrame
<1>2. Encode(p) \in Bytes /\ Len(Encode(p)) \in Nat /\ n \in Nat
  <2>1. Encode(p) \in Bytes /\ Len(Encode(p)) \in Nat
    BY PayloadIs, LenProperties DEF Bytes
  <2>2. n \in Nat
    BY OverheadIs, Sizes
  <2> QED
    BY <2>1, <2>2
<1>3. 1 \in Nat /\ 1 <= 1 /\ 1 <= n + 1 /\ n <= Len(Encode(p))
  BY <1>1, <1>2
<1>4. SubSeq(Encode(p), 1, n) \in Bytes
  BY <1>2, <1>3, PieceIs
<1>5. wire' \in Bytes
  BY <1>1, <1>4, ConcatProperties DEF DecoderInv, Typed, Bytes
<1>6. frames' \in 0 .. MaxFrames /\ cuts' \in 0 .. MaxCuts
  BY LinkAssumption DEF CutFrame, DecoderInv, Typed
<1> QED
  BY <1>5, <1>6, Written DEF CutFrame, DecoderInv, Typed

(* A piece taken from the wire.                                            *)
LEMMA WireSplit ==
    ASSUME wire \in Bytes, NEW n \in 0 .. Len(wire)
    PROVE  SubSeq(wire, 1, n) \in Bytes /\ SubSeq(wire, n + 1, Len(wire)) \in Bytes
<1>1. Len(wire) \in Nat /\ n \in Nat /\ n <= Len(wire)
  BY LenProperties DEF Bytes
<1>2. /\ 1 \in Nat /\ n + 1 \in Nat /\ 1 <= 1 /\ 1 <= n + 1 /\ n + 1 <= Len(wire) + 1
      /\ Len(wire) <= Len(wire)
  BY <1>1
<1> QED
  BY <1>1, <1>2, PieceIs

LEMMA StepFill == ASSUME DecoderInv, Fill PROVE DecoderInv'
<1>1. PICK n \in 1 .. Len(wire) :
          read' = read \o SubSeq(wire, 1, n) /\ wire' = SubSeq(wire, n + 1, Len(wire))
  BY DEF Fill
<1> DEFINE w == SubSeq(wire, 1, n)
<1>2. wire \in Bytes /\ read \in Bytes /\ pos \in 0 .. Len(read) /\ Len(read) \in Nat
  BY LenProperties DEF DecoderInv, Typed, Bytes
<1>3. w \in Bytes /\ wire' \in Bytes
  <2>1. n \in 0 .. Len(wire)
    BY <1>2, LenProperties DEF Bytes
  <2> QED
    BY <1>1, <1>2, <2>1, WireSplit
<1> HIDE DEF w
<1>4. read' \in Bytes /\ read' = read \o w /\ Len(read') = Len(read) + Len(w) /\ Len(w) \in Nat
  <2>1. read' = read \o w
    BY <1>1 DEF w
  <2>2. read \o w \in Bytes /\ Len(read \o w) = Len(read) + Len(w) /\ Len(w) \in Nat
    BY <1>2, <1>3, ReadOn, LenProperties DEF Bytes
  <2> QED
    BY <2>1, <2>2
<1>5. pos' = pos /\ out' = out /\ frames' = frames /\ cuts' = cuts /\ reopens' = reopens
  BY DEF Fill
<1>6. Typed'
  <2>1. pos \in 0 .. Len(read')
    BY <1>2, <1>4
  <2> QED
    BY <1>3, <1>4, <1>5, <2>1 DEF DecoderInv, Typed
<1>7. Stood'
  BY <1>2, <1>3, <1>4, <1>5, FrameStays DEF DecoderInv, Stood
<1>8. Apart'
  BY <1>5 DEF DecoderInv, Apart
<1>9. Judged'
  <2>1. \A i \in 0 .. pos - 1 : i \in Nat /\ i < Len(read)
    BY <1>2
  <2>2. \A i \in 0 .. pos - 1 : Refuted(read, i) => Refuted(read', i)
    BY <1>2, <1>3, <1>4, <2>1, RefutedStays
  <2> QED
    BY <1>5, <2>2 DEF DecoderInv, Judged
<1> QED
  BY <1>6, <1>7, <1>8, <1>9 DEF DecoderInv

LEMMA StepReopen == ASSUME DecoderInv, Reopen PROVE DecoderInv'
<1>1. PICK n \in 0 .. Len(wire) : wire' = SubSeq(wire, n + 1, Len(wire))
  BY DEF Reopen
<1>2. wire' \in Bytes
  BY <1>1, WireSplit DEF DecoderInv, Typed
<1>3. <<>> \in Bytes /\ <<>> \in Seq([at : Nat, payload : Bytes]) /\ Len(<<>>) = 0
  BY DEF Bytes
<1>4. reopens' \in 0 .. MaxReopens
  BY LinkAssumption DEF Reopen, DecoderInv, Typed
<1>5. Typed'
  BY <1>2, <1>3, <1>4 DEF Reopen, DecoderInv, Typed
<1>6. Range(out') = {} /\ 0 .. pos' - 1 = {}
  BY DEF Reopen, Range
<1> QED
  BY <1>5, <1>6 DEF DecoderInv, Stood, Apart, Judged

(* A frame decoded begins at the judged position and ends behind it.       *)
LEMMA StepDecoded ==
    ASSUME DecoderInv, Decode, Parse(Buffered).is = "ok",
           out' = Append(out, [at |-> pos, payload |-> Parse(Buffered).payload]),
           pos' = pos + Parse(Buffered).consumed
    PROVE  DecoderInv'
<1> DEFINE f == [at |-> pos, payload |-> Parse(Buffered).payload]
<1>1. /\ wire \in Bytes /\ read \in Bytes /\ pos \in 0 .. Len(read) /\ pos \in Nat
      /\ Len(read) \in Nat /\ out \in Seq([at : Nat, payload : Bytes])
  BY LenProperties DEF DecoderInv, Typed, Bytes
<1>2. /\ FrameIn(read, f) /\ f.at = pos
      /\ EndOf(f) = pos + Parse(Buffered).consumed /\ EndOf(f) \in pos + 1 .. Len(read)
  BY <1>1, ParsedStands
<1>3. wire' = wire /\ read' = read /\ frames' = frames /\ cuts' = cuts /\ reopens' = reopens
  BY DEF Decode
<1>4. out' = Append(out, f) /\ pos' = EndOf(f)
  BY <1>2
<1> HIDE DEF f
<1>5. f \in [at : Nat, payload : Bytes]
  <2>1. f.at \in Nat /\ f.payload \in Bytes
        /\ f = [at |-> f.at,
                payload |-> SubSeq(read, f.at + 4, f.at + Len(f.payload) + 3)]
    BY <1>1, <1>2, FrameIs
  <2>2. f = [at |-> f.at, payload |-> f.payload]
    BY DEF f
  <2> QED
    BY <2>1, <2>2
<1>6. out' \in Seq([at : Nat, payload : Bytes]) /\ Range(out') = Range(out) \cup {f}
  <2>1. /\ Append(out, f) \in Seq([at : Nat, payload : Bytes])
        /\ Len(Append(out, f)) = Len(out) + 1
        /\ \A i \in 1 .. Len(out) : Append(out, f)[i] = out[i]
        /\ Append(out, f)[Len(out) + 1] = f
    BY <1>1, <1>5, AppendProperties
  <2>2. DOMAIN out = 1 .. Len(out) /\ DOMAIN out' = 1 .. Len(out) + 1 /\ Len(out) \in Nat
    BY <1>1, <1>4, <2>1, LenProperties
  <2>3. 1 .. Len(out) + 1 = (1 .. Len(out)) \cup {Len(out) + 1}
    BY <2>2
  <2>4. \A x : x \in Range(out') <=> x \in Range(out) \/ x = f
    BY <1>4, <2>1, <2>2, <2>3 DEF Range
  <2> QED
    BY <1>4, <2>1, <2>4
<1>7. Typed'
  <2>1. pos' \in 0 .. Len(read')
    BY <1>1, <1>2, <1>3, <1>4
  <2> QED
    BY <1>3, <1>6, <2>1 DEF DecoderInv, Typed
<1>8. \A d \in Range(out) : FrameIn(read, d) /\ EndOf(d) <= pos /\ EndOf(d) \in Nat /\ d.at \in Nat
                            /\ d.at < EndOf(d)
  <2> SUFFICES ASSUME NEW d \in Range(out)
               PROVE  /\ FrameIn(read, d) /\ EndOf(d) <= pos
                      /\ EndOf(d) \in Nat /\ d.at \in Nat /\ d.at < EndOf(d)
    OBVIOUS
  <2>1. FrameIn(read, d) /\ EndOf(d) <= pos
    BY DEF DecoderInv, Stood
  <2>2. d.at \in Nat /\ Len(d.payload) \in Nat /\ EndOf(d) = d.at + Len(d.payload) + 4
    BY <1>1, <2>1, FrameIs, Sizes
  <2> QED
    BY <2>1, <2>2
<1>9. EndOf(f) \in Nat /\ pos < EndOf(f) /\ EndOf(f) <= EndOf(f)
  BY <1>1, <1>2
<1>10. Stood'
  <2>1. \A d \in Range(out) : EndOf(d) <= EndOf(f)
    BY <1>1, <1>8, <1>9
  <2> QED
    BY <1>2, <1>3, <1>4, <1>6, <1>8, <1>9, <2>1 DEF Stood
<1>11. Apart'
  <2>1. \A d, e \in Range(out) : ~ Overlap(d, e)
    BY DEF DecoderInv, Apart
  <2>2. \A d \in Range(out) : ~ (pos < EndOf(d)) /\ ~ (pos < d.at)
    BY <1>1, <1>8
  <2>3. \A d \in Range(out) : ~ Overlap(d, f) /\ ~ Overlap(f, d)
    BY <1>2, <2>2 DEF Overlap
  <2>4. ~ Overlap(f, f)
    BY <1>1, <1>2 DEF Overlap
  <2> QED
    BY <1>6, <2>1, <2>3, <2>4 DEF Apart
<1>12. Judged'
  <2> SUFFICES ASSUME NEW i \in 0 .. pos' - 1
               PROVE  Refuted(read', i) \/ \E d \in Range(out') : d.at <= i /\ i < EndOf(d)
    BY DEF Judged
  <2>1. CASE i < pos
    <3>1. i \in 0 .. pos - 1
      BY <1>1, <2>1
    <3> QED
      BY <1>3, <1>6, <3>1 DEF DecoderInv, Judged
  <2>2. CASE ~ (i < pos)
    <3>1. f.at <= i /\ i < EndOf(f)
      BY <1>1, <1>2, <1>4, <1>9, <2>2
    <3> QED
      BY <1>6, <3>1
  <2> QED
    BY <2>1, <2>2
<1> QED
  BY <1>7, <1>10, <1>11, <1>12 DEF DecoderInv

(* A corrupt front is discarded up to where the next frame could begin.    *)
LEMMA StepDiscarded ==
    ASSUME DecoderInv, Decode, Parse(Buffered).is = "corrupt",
           out' = out, pos' = pos + Parse(Buffered).discard
    PROVE  DecoderInv'
<1>1. /\ wire \in Bytes /\ read \in Bytes /\ pos \in 0 .. Len(read) /\ pos \in Nat
      /\ Len(read) \in Nat
  BY LenProperties DEF DecoderInv, Typed, Bytes
<1>2. pos' \in pos + 1 .. Len(read) /\ \A i \in pos .. pos' - 1 : Refuted(read, i)
  BY <1>1, DiscardedRefuted
<1>3. wire' = wire /\ read' = read /\ frames' = frames /\ cuts' = cuts /\ reopens' = reopens
  BY DEF Decode
<1>4. pos' \in Nat /\ pos < pos' /\ pos' \in 0 .. Len(read)
  BY <1>1, <1>2
<1>5. Typed'
  BY <1>3, <1>4 DEF DecoderInv, Typed
<1>6. Stood'
  <2>1. \A e \in Range(out) : EndOf(e) <= pos'
    <3> SUFFICES ASSUME NEW e \in Range(out) PROVE EndOf(e) <= pos'
      OBVIOUS
    <3>1. FrameIn(read, e) /\ EndOf(e) <= pos
      BY DEF DecoderInv, Stood
    <3>2. e.at \in Nat /\ Len(e.payload) \in Nat /\ EndOf(e) = e.at + Len(e.payload) + 4
      BY <1>1, <3>1, FrameIs, Sizes
    <3>3. EndOf(e) \in Nat
      BY <3>2
    <3> QED
      BY <1>1, <1>4, <3>1, <3>3
  <2> QED
    BY <1>3, <2>1 DEF DecoderInv, Stood
<1>7. Apart'
  BY DEF DecoderInv, Apart
<1>8. Judged'
  <2> SUFFICES ASSUME NEW i \in 0 .. pos' - 1
               PROVE  Refuted(read, i) \/ \E e \in Range(out) : e.at <= i /\ i < EndOf(e)
    BY <1>3 DEF Judged
  <2>1. i \in 0 .. pos - 1 \/ i \in pos .. pos' - 1
    BY <1>1, <1>4
  <2> QED
    BY <1>2, <2>1 DEF DecoderInv, Judged
<1> QED
  BY <1>5, <1>6, <1>7, <1>8 DEF DecoderInv

LEMMA StepDecode == ASSUME DecoderInv, Decode PROVE DecoderInv'
  BY StepDecoded, StepDiscarded DEF Decode

LEMMA Step == ASSUME DecoderInv, [Next]_vars PROVE DecoderInv'
<1>1. CASE UNCHANGED vars
  BY <1>1, Written DEF vars, DecoderInv, Typed
<1> QED
  BY <1>1, StepWriteFrame, StepCutFrame, StepFill, StepDecode, StepReopen DEF Next

LEMMA Inductive == Spec => []DecoderInv
  BY Started, Step, PTL DEF Spec

-------------------------------------------------------------------------------
(* A frame begins where nothing is refuted: judged, it is out or hidden.   *)
LEMMA Accounted ==
    ASSUME DecoderInv, NEW f \in Candidates, f.at < pos
    PROVE  f \in Range(out) \/ \E d \in Range(out) : Overlap(d, f)
<1>1. read \in Bytes /\ pos \in 0 .. Len(read) /\ Len(read) \in Nat
  BY LenProperties DEF DecoderInv, Typed, Bytes
<1>2. FrameIn(read, f)
  BY <1>1, CandidatesAre
<1>3. f.at \in Nat /\ Len(f.payload) \in 0 .. MaxPayload /\ Fields(read, f.at, Len(f.payload))
  BY <1>1, <1>2, FrameIs
<1>4. ~ Refuted(read, f.at)
  BY <1>1, <1>3, RefutedMeans
<1>5. f.at \in 0 .. pos - 1
  BY <1>1, <1>3
<1>6. PICK d \in Range(out) : d.at <= f.at /\ f.at < EndOf(d)
  BY <1>4, <1>5 DEF DecoderInv, Judged
<1>7. FrameIn(read, d)
  BY DEF DecoderInv, Stood
<1>8. d.at \in Nat
  BY <1>1, <1>7, FrameIs
<1>9. CASE d.at = f.at
  BY <1>1, <1>2, <1>7, <1>9, OneFrameAt
<1>10. CASE d.at # f.at
  <2>1. d.at < f.at
    BY <1>3, <1>6, <1>8, <1>10
  <2> QED
    BY <1>6, <2>1 DEF Overlap
<1> QED
  BY <1>9, <1>10

(* The decoder never discards past what it holds, and what it yields are   *)
(* frames of bytes (Decoder::decode: src.advance).                         *)
THEOREM TypeCorrect == Spec => []TypeOK
<1>1. DecoderInv => TypeOK
  <2> SUFFICES ASSUME DecoderInv PROVE TypeOK
    OBVIOUS
  <2>1. read \in Bytes /\ Len(read) \in Nat /\ out \in Seq([at : Nat, payload : Bytes])
    BY LenProperties DEF DecoderInv, Typed, Bytes
  <2>2. ASSUME NEW i \in DOMAIN out
        PROVE  out[i].at \in 0 .. Len(read) /\ out[i].payload \in Seq(Byte)
    <3>1. out[i] \in Range(out)
      BY DEF Range
    <3>2. FrameIn(read, out[i])
      BY <3>1 DEF DecoderInv, Stood
    <3>3. /\ out[i].at \in Nat /\ out[i].payload \in Bytes
          /\ Len(out[i].payload) \in 0 .. MaxPayload
          /\ EndOf(out[i]) = out[i].at + Len(out[i].payload) + 4
          /\ EndOf(out[i]) <= Len(read)
      BY <2>1, <3>2, FrameIs
    <3>4. Len(out[i].payload) \in Nat
      BY <3>3, Sizes
    <3> QED
      BY <2>1, <3>3, <3>4 DEF Bytes
  <2> QED
    BY <2>2 DEF DecoderInv, Typed, TypeOK, Bytes
<1> QED
  BY <1>1, Inductive, PTL

(* However the bytes were cut into reads, what was decoded is what stands  *)
(* in the part already judged, less what begins inside a decoded frame     *)
(* (parse, seek_next_magic).                                               *)
THEOREM DecodesStanding == Spec => []DecodesWhatStands
<1>1. DecoderInv => DecodesWhatStands
  <2> SUFFICES ASSUME DecoderInv PROVE DecodesWhatStands
    OBVIOUS
  <2>1. read \in Bytes
    BY DEF DecoderInv, Typed
  <2>2. Range(out) \subseteq Candidates
    BY <2>1, CandidatesAre DEF DecoderInv, Stood
  <2>3. ASSUME NEW f \in Candidates, f.at < pos
        PROVE  f \in Range(out) <=> ~ \E d \in Range(out) : Overlap(d, f)
    <3>1. f \in Range(out) \/ \E d \in Range(out) : Overlap(d, f)
      BY <2>3, Accounted
    <3>2. f \in Range(out) => \A d \in Range(out) : ~ Overlap(d, f)
      BY DEF DecoderInv, Apart
    <3> QED
      BY <3>1, <3>2
  <2> QED
    BY <2>2, <2>3 DEF DecodesWhatStands
<1> QED
  BY <1>1, Inductive, PTL

(* A decoder that wants more has judged every frame that began a largest   *)
(* frame's length before the end of what was read (MAX_PAYLOAD_LEN).       *)
THEOREM NoneHeldBack == Spec => []LateByOneFrame
<1>1. DecoderInv => LateByOneFrame
  <2> SUFFICES ASSUME DecoderInv, Parse(Buffered) = Incomplete,
                      NEW f \in Candidates, Len(read) - f.at >= Overhead + MaxPayload
               PROVE  f \in Range(out) \/ \E d \in Range(out) : Overlap(d, f)
    BY DEF LateByOneFrame
  <2>1. read \in Bytes /\ pos \in 0 .. Len(read) /\ Len(read) \in Nat
    BY LenProperties DEF DecoderInv, Typed, Bytes
  <2>2. Buffered \in Bytes /\ Len(Buffered) = Len(read) - pos
    BY <2>1, BufferIs
  <2>3. Len(Buffered) < MaxPayload + 4
    BY <2>2, ParseSays
  <2>4. f.at \in Nat
    BY <2>1, CandidatesAre, FrameIs
  <2>5. Len(read) - f.at >= 4 + MaxPayload
    BY OverheadIs
  <2>6. f.at < pos
    BY <2>1, <2>2, <2>3, <2>4, <2>5, Sizes
  <2> QED
    BY <2>6, Accounted
<1> QED
  BY <1>1, Inductive, PTL

(* Each round of decode's loop moves the judged position forward, whether  *)
(* it yields a frame or discards (FrameParse::Corrupt: discard "is always  *)
(* >= 1").                                                                *)
THEOREM Advances == Spec => [][Decode => pos < pos']_vars
<1>1. DecoderInv /\ Decode => pos < pos'
  <2> SUFFICES ASSUME DecoderInv, Decode PROVE pos < pos'
    OBVIOUS
  <2>1. read \in Bytes /\ pos \in 0 .. Len(read) /\ Len(read) \in Nat /\ pos \in Nat
    BY LenProperties DEF DecoderInv, Typed, Bytes
  <2>2. CASE Parse(Buffered).is = "ok" /\ pos' = pos + Parse(Buffered).consumed
    <3> DEFINE f == [at |-> pos, payload |-> Parse(Buffered).payload]
    <3>1. EndOf(f) = pos + Parse(Buffered).consumed /\ EndOf(f) \in pos + 1 .. Len(read)
      BY <2>1, <2>2, ParsedStands
    <3>2. pos' = EndOf(f)
      BY <2>2, <3>1
    <3> HIDE DEF f
    <3> QED
      BY <2>1, <3>1, <3>2
  <2>3. CASE Parse(Buffered).is = "corrupt" /\ pos' = pos + Parse(Buffered).discard
    <3>1. pos' \in pos + 1 .. Len(read)
      BY <2>1, <2>3, DiscardedRefuted
    <3> QED
      BY <2>1, <3>1
  <2> QED
    BY <2>2, <2>3 DEF Decode
<1> QED
  BY <1>1, Inductive, PTL DEF Spec
===============================================================================
