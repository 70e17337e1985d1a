-------------------------------- MODULE Framing --------------------------------
(***************************************************************************)
(* The serial link between receiver and gateway: frames written in USB     *)
(* chunks (firmware/receiver/src/main.rs), cut where the host goes away,   *)
(* read back in pieces of any size and decoded by the gateway              *)
(* (common/src/frame.rs, gateway/src/decoder.rs).                          *)
(*                                                                         *)
(* A byte is a number below ByteLimit, the length and the checksum one     *)
(* byte each; nothing rests on what the checksum is, and the runs take one *)
(* small enough for torn frames to pass it by accident, as one in 2^16     *)
(* does in the code.                                                       *)
(***************************************************************************)
EXTENDS Naturals, Sequences, Functions

CONSTANTS
    ByteLimit,      \* bytes are 0 .. ByteLimit - 1
    MaxPayload,     \* MAX_PAYLOAD_LEN
    Checksum(_),    \* the CRC over length and payload, as one byte
    Payloads,       \* what the receiver frames
    Chunk,          \* max_packet_size of the bulk endpoint
    MaxFrames,      \* bound: frames written
    MaxCuts,        \* bound: frames cut short
    MaxReopens      \* bound: gateway restarts

Byte == 0 .. ByteLimit - 1
MagicBytes == <<1, 2>>
Overhead == Len(MagicBytes) + 2

ASSUME LinkAssumption ==
    /\ ByteLimit \in Nat /\ MaxPayload \in 1 .. ByteLimit - 2
    /\ Payloads \subseteq UNION {[1 .. n -> Byte] : n \in 0 .. MaxPayload}
    /\ \A n \in 0 .. MaxPayload : \A p \in [1 .. n -> Byte] : Checksum(<<n>> \o p) \in Byte
    /\ Chunk \in Nat \ {0} /\ {MaxFrames, MaxCuts, MaxReopens} \subseteq Nat

VARIABLES
    wire,       \* bytes written and not yet read by the gateway
    read,       \* bytes read since the port was opened
    pos,        \* how many of them the decoder has discarded or consumed
    out,        \* frames decoded since the port was opened: [at, payload]
    frames,     \* bound counter of frames written
    cuts,       \* bound counter of frames cut
    reopens     \* bound counter of restarts

vars == <<wire, read, pos, out, frames, cuts, reopens>>

(* encode: magic, length, payload, checksum over length and payload.       *)
Encode(payload) ==
    LET body == <<Len(payload)>> \o payload IN
    MagicBytes \o body \o <<Checksum(body)>>

(* Mutants: the first magic byte is looked for from the judged position,   *)
(* only behind the second byte, or one past the end when there is none.    *)
SeekSame(bytes) ==
    LET at == {i \in 1 .. Len(bytes) : bytes[i] = MagicBytes[1]} IN
    IF at = {} THEN Len(bytes) ELSE (CHOOSE i \in at : \A j \in at : i <= j) - 1
SeekBehind(bytes) ==
    LET at == {i \in 3 .. Len(bytes) : bytes[i] = MagicBytes[1]} IN
    IF at = {} THEN Len(bytes) ELSE (CHOOSE i \in at : \A j \in at : i <= j) - 1
SeekPastEnd(bytes) ==
    LET at == {i \in 2 .. Len(bytes) : bytes[i] = MagicBytes[1]} IN
    IF at = {} THEN Len(bytes) + 1 ELSE (CHOOSE i \in at : \A j \in at : i <= j) - 1

(* Distance to the next first magic byte behind the judged position.       *)
SeekNextMagic(bytes) ==
    LET at == {i \in 2 .. Len(bytes) : bytes[i] = MagicBytes[1]} IN
    IF at = {} THEN Len(bytes) ELSE (CHOOSE i \in at : \A j \in at : i <= j) - 1

Incomplete == [is |-> "incomplete"]
Corrupt(bytes) == [is |-> "corrupt", discard |-> SeekNextMagic(bytes)]

(* Mutant: the length field is believed whatever it says.                  *)
ParseAnyLength(bytes) ==
    IF \E i \in 1 .. Len(MagicBytes) : i <= Len(bytes) /\ bytes[i] # MagicBytes[i]
      THEN Corrupt(bytes)
    ELSE IF Len(bytes) < 3 THEN Incomplete
    ELSE IF Len(bytes) < Overhead + bytes[3] THEN Incomplete
    ELSE IF bytes[Overhead + bytes[3]] # Checksum(SubSeq(bytes, 3, 3 + bytes[3]))
      THEN Corrupt(bytes)
    ELSE [is |-> "ok", payload |-> SubSeq(bytes, 4, 3 + bytes[3]),
          consumed |-> Overhead + bytes[3]]

(* parse: judges the front of the buffer, field by field as bytes arrive.  *)
Parse(bytes) ==
    IF \E i \in 1 .. Len(MagicBytes) : i <= Len(bytes) /\ bytes[i] # MagicBytes[i]
      THEN Corrupt(bytes)
    ELSE IF Len(bytes) < 3 THEN Incomplete
    ELSE IF bytes[3] > MaxPayload THEN Corrupt(bytes)
    ELSE IF Len(bytes) < Overhead + bytes[3] THEN Incomplete
    ELSE IF bytes[Overhead + bytes[3]] # Checksum(SubSeq(bytes, 3, 3 + bytes[3]))
      THEN Corrupt(bytes)
    ELSE [is |-> "ok", payload |-> SubSeq(bytes, 4, 3 + bytes[3]),
          consumed |-> Overhead + bytes[3]]

(* What the decoder's buffer holds.                                        *)
Buffered == SubSeq(read, pos + 1, Len(read))

Init ==
    /\ wire = <<>> /\ read = <<>> /\ pos = 0 /\ out = <<>>
    /\ frames = 0 /\ cuts = 0 /\ reopens = 0

(* The receiver writes all chunks of a frame.                              *)
WriteFrame ==
    /\ frames < MaxFrames
    /\ \E p \in Payloads : wire' = wire \o Encode(p)
    /\ frames' = frames + 1
    /\ UNCHANGED <<read, pos, out, cuts, reopens>>

(* DTR drops or the endpoint fails between two chunks: the rest of the     *)
(* frame is never written.                                                 *)
CutFrame ==
    /\ frames < MaxFrames /\ cuts < MaxCuts
    /\ \E p \in Payloads, n \in 1 .. Overhead + MaxPayload :
           /\ n % Chunk = 0 /\ n < Len(Encode(p))
           /\ wire' = wire \o SubSeq(Encode(p), 1, n)
    /\ frames' = frames + 1 /\ cuts' = cuts + 1
    /\ UNCHANGED <<read, pos, out, reopens>>

(* FramedRead asks the port for more only when decode returned None.       *)
Fill ==
    /\ Parse(Buffered) = Incomplete
    /\ \E n \in 1 .. Len(wire) :
           /\ read' = read \o SubSeq(wire, 1, n)
           /\ wire' = SubSeq(wire, n + 1, Len(wire))
    /\ UNCHANGED <<pos, out, frames, cuts, reopens>>

(* One round of decode's loop.                                             *)
Decode ==
    LET parsed == Parse(Buffered) IN
    /\ parsed # Incomplete
    /\ \/ /\ parsed.is = "ok"
          /\ out' = Append(out, [at |-> pos, payload |-> parsed.payload])
          /\ pos' = pos + parsed.consumed
       \/ /\ parsed.is = "corrupt"
          /\ pos' = pos + parsed.discard
          /\ out' = out
    /\ UNCHANGED <<wire, read, frames, cuts, reopens>>

(* The gateway exits when the stream ends or fails and is started again:   *)
(* its buffer is gone, and so is any part of what nobody had read.         *)
Reopen ==
    /\ reopens < MaxReopens
    /\ reopens' = reopens + 1
    /\ \E n \in 0 .. Len(wire) : wire' = SubSeq(wire, n + 1, Len(wire))
    /\ read' = <<>> /\ pos' = 0 /\ out' = <<>>
    /\ UNCHANGED <<frames, cuts>>

Next == WriteFrame \/ CutFrame \/ Fill \/ Decode \/ Reopen

Spec == Init /\ [][Next]_vars

(* The gateway's read loop is never starved; the receiver and the host may *)
(* do nothing.                                                             *)
FairSpec == Spec /\ WF_vars(Decode) /\ WF_vars(Fill)

-------------------------------------------------------------------------------

(* What was read, decoded without regard to how it arrived: the offsets at *)
(* which an encoded frame stands, and of those, from the front, the ones   *)
(* that do not start inside the one before.                                *)
Piece(i, n) == SubSeq(read, i + 4, i + n + 3)
Stands(i, n) ==
    /\ i + n + Overhead <= Len(read)
    /\ SubSeq(read, i + 1, i + n + Overhead) = Encode(Piece(i, n))
Candidates ==
    UNION {{[at |-> i, payload |-> Piece(i, n)] : n \in {k \in 0 .. MaxPayload : Stands(i, k)}} :
               i \in 0 .. Len(read)}
EndOf(f) == f.at + Overhead + Len(f.payload)
Overlap(f, g) == f.at < g.at /\ g.at < EndOf(f)

(* TypeOK: the decoder never discards past what it holds.                  *)
TypeOK ==
    /\ wire \in Seq(Byte) /\ read \in Seq(Byte)
    /\ pos \in 0 .. Len(read)
    /\ \A i \in DOMAIN out : out[i].at \in 0 .. Len(read) /\ out[i].payload \in Seq(Byte)
    /\ frames \in 0 .. MaxFrames /\ cuts \in 0 .. MaxCuts /\ reopens \in 0 .. MaxReopens

(* However the bytes were cut into reads, whatever torn frame precedes     *)
(* them: what was decoded is exactly every frame standing in the part      *)
(* already judged, less those that begin inside a decoded one (parse,      *)
(* seek_next_magic: "never skips an unexamined magic candidate").          *)
DecodesWhatStands ==
    LET decoded == Range(out) IN
    /\ decoded \subseteq Candidates
    /\ \A f \in Candidates :
           f.at < pos => (f \in decoded <=> ~ \E d \in decoded : Overlap(d, f))

(* A cut frame or a damaged length delays the frames behind it by less     *)
(* than one largest frame: once that much has been read from a frame's     *)
(* start and the decoder wants more, the frame is out, or begins inside    *)
(* one that is (MAX_PAYLOAD_LEN: "bounds how much data a streaming parser  *)
(* will wait for on a corrupted length field").                            *)
LateByOneFrame ==
    Parse(Buffered) = Incomplete =>
        \A f \in Candidates :
            Len(read) - f.at >= Overhead + MaxPayload =>
                f \in Range(out) \/ \E d \in Range(out) : Overlap(d, f)

(* decode's loop, which never yields to the runtime, always comes to an    *)
(* end: every discard moves forward.                                       *)
NeverSpins == []<>(Parse(Buffered) = Incomplete)

===============================================================================
