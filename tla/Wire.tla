--------------------------------- MODULE Wire ---------------------------------
(***************************************************************************)
(* Numbers, names and keys as bytes: the little-endian values of the wire  *)
(* (common/src/wire.rs), device addresses (device_addr.rs), device keys as *)
(* hex (device_key.rs) and as the words of the UICR record                 *)
(* (uicr_record.rs).  A byte is a number, a hex digit is a number below 16.*)
(***************************************************************************)
EXTENDS Integers, Sequences

CONSTANT KeyWords    \* 8: words of four bytes in a device key

ASSUME KeyAssumption == KeyWords \in Nat \ {0}

Byte == 0 .. 255
Digit == 0 .. 15
Bytes(n) == [1 .. n -> Byte]

MaxU16 == 65535
MinI16 == -32768
MaxI16 == 32767
U16 == 0 .. MaxU16
I16 == MinI16 .. MaxI16
I8 == -128 .. 127
IsU32(n) == n \in Nat /\ n \div 65536 <= MaxU16

(* to_le_bytes: of a negative number, the two's complement.                *)
LE16(n) == <<n % 256, (n \div 256) % 256>>
LE32(n) == LET high == n \div 65536 IN
    <<n % 256, (n \div 256) % 256, high % 256, (high \div 256) % 256>>

(* from_le_bytes.                                                          *)
FromU16(b) == b[1] + 256 * b[2]
FromU32(b) == FromU16(b) + 65536 * FromU16(<<b[3], b[4]>>)
FromI8(b) == IF b > 127 THEN b - 256 ELSE b

(* Mutant: a signed value is read as it stands.                            *)
FromI16Unsigned(b) == FromU16(b)
FromI16(b) == IF FromU16(b) > 32767 THEN FromU16(b) - 65536 ELSE FromU16(b)

(***************************************************************************)
(* Device addresses: six bytes, least significant first, printed the other *)
(* way round.                                                              *)
(***************************************************************************)

DeviceAddr == Bytes(6)

(* from_ficr: the upper half of the second word is dropped and the two     *)
(* top bits are set.                                                       *)
FromFicr(addr0, addr1) ==
    LET low == LE32(addr0)  high == LE16(addr1) IN
    <<low[1], low[2], low[3], low[4], high[1], 192 + (high[2] % 64)>>

(* encode_hex: from the last byte to the first, high digit first.          *)
AddrHex(a) == [i \in 1 .. 12 |->
    LET byte == a[6 - (i - 1) \div 2] IN
    IF i % 2 = 1 THEN byte \div 16 ELSE byte % 16]

(* from_str, of twelve hex digits and nothing else.                        *)
IsAddrHex(h) == Len(h) = 12 /\ \A i \in 1 .. 12 : h[i] \in Digit
AddrFromHex(h) == [i \in 1 .. 6 |-> 16 * h[13 - 2 * i] + h[14 - 2 * i]]

(* A site's name: characters of [a-z0-9-], one at least (site.rs).         *)
SiteChar == 97 .. 122 \cup 48 .. 57 \cup {45}
IsSite(name) == Len(name) > 0 /\ \A i \in 1 .. Len(name) : name[i] \in SiteChar

(***************************************************************************)
(* Device keys.                                                            *)
(***************************************************************************)

KeySize == 4 * KeyWords
DeviceKey == Bytes(KeySize)

(* to_hex and from_hex: first byte first.                                  *)
KeyHex(key) == [i \in 1 .. 2 * KeySize |->
    LET byte == key[(i + 1) \div 2] IN
    IF i % 2 = 1 THEN byte \div 16 ELSE byte % 16]
KeyFromHex(h) == [i \in 1 .. KeySize |-> 16 * h[2 * i - 1] + h[2 * i]]

(* The record's words: the header, b"HK", the version and a zero, and the  *)
(* key four bytes to a word.                                               *)
Header == FromU32(<<72, 75, 1, 0>>)
EncodeRecord(key) == [w \in 0 .. KeyWords |->
    IF w = 0 THEN Header
    ELSE FromU32(<<key[4 * w - 3], key[4 * w - 2], key[4 * w - 1], key[4 * w]>>)]

(* decode_header: what word 0 says of the words behind it.                 *)
DecodeHeader(word) ==
    LET b == LE32(word) IN
    IF \A i \in 1 .. 4 : b[i] = 255 THEN "blank"
    ELSE IF b[1] # 72 \/ b[2] # 75 THEN "InvalidMagic"
    ELSE IF b[3] # 1 THEN "UnsupportedVersion"
    ELSE IF b[4] # 0 THEN "InvalidPadding"
    ELSE "present"

(* decode, of a record whose header is present.                            *)
DecodeKey(words) == [i \in 1 .. KeySize |->
    LE32(words[(i + 3) \div 4])[((i - 1) % 4) + 1]]
===============================================================================
