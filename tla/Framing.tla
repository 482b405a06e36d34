------------------------------ MODULE Framing -------------------------------
(***************************************************************************)
(* How fields become a message and a message a frame: fd_binary.c,         *)
(* fd_crc16.c, fd_envelope.c and fd_cobs.c, and their counterparts in the  *)
(* host's gateway.py.                                                      *)
(*                                                                         *)
(* A binary is a record of the fields of fd_binary_t; buffer holds one     *)
(* number below Base for every byte.  The width of a byte is a parameter   *)
(* (8 in the code), and so is that of the widest integer (64), so that TLC *)
(* can go through every value.                                             *)
(*                                                                         *)
(* fd_cobs_encode works in place: the code bytes it puts in push the data  *)
(* behind the place it reads, so it reads ahead into a fifo.  The model    *)
(* keeps the buffer, the fifo and the three positions.                     *)
(***************************************************************************)
EXTENDS Integers, Sequences
LOCAL INSTANCE SequencesExt
LOCAL INSTANCE Bitwise

CONSTANTS ByteBits,     \* 8 in the code
          WordBits,     \* 64 in the code
          LookAhead     \* what the fifo holds: 31 in fd_envelope_encode

Base == 2 ^ ByteBits
Half == 2 ^ (ByteBits - 1)      \* the continuation bit of a varuint
Word == 2 ^ WordBits

Zeros(n) == [i \in 1..n |-> 0]

Initialize(buffer) == [buffer |-> buffer, put |-> 0, get |-> 0, errors |-> {}]
SizeOf(b) == Len(b.buffer)
Reset(b) == [b EXCEPT !.put = 0, !.get = 0, !.errors = {}]

Contents(b) == SubSeq(b.buffer, 1, b.put)

\* Little endian.
Pack(n, value) == [i \in 1..n |-> (value \div Base ^ (i - 1)) % Base]
Unpack(bytes) == FoldRight(LAMBDA byte, rest : byte + Base * rest, bytes, 0)

\* What a read outside of the buffer finds.
ByteAt(b, i) == IF i < SizeOf(b) THEN b.buffer[i + 1] ELSE Base - 1

\* memmove moves put - length bytes from index + length, as many as were put
\* in all: for an index above zero its source ends behind put.
RemoveBytes(b, index, length) ==
    LET amount == b.put - length
    IN  [b EXCEPT
           !.buffer = [i \in 1..SizeOf(b) |-> IF i - 1 \in index..(index + amount - 1)
                                            THEN ByteAt(b, i - 1 + length) ELSE @[i]],
           !.get = IF @ > index + length THEN @ - length ELSE IF @ > index THEN index ELSE @,
           !.put = @ - length]

RemainingLength(b) == SizeOf(b) - b.put

Fail(b, error) == [b EXCEPT !.errors = @ \cup {error}]

-----------------------------------------------------------------------------

\* Mutant: a field that ends exactly at the end of the buffer is refused.
PutCheckBefore(b, length) == b.put + length < SizeOf(b)

PutCheck(b, length) == b.put + length <= SizeOf(b)

PutBytes(b, bytes) ==
    IF ~PutCheck(b, Len(bytes)) THEN Fail(b, "overflow")
    ELSE [b EXCEPT !.buffer = [i \in 1..SizeOf(b) |-> IF i \in (b.put + 1)..(b.put + Len(bytes))
                                                    THEN bytes[i - b.put] ELSE @[i]],
                   !.put = @ + Len(bytes)]

PutUint8(b, value)  == PutBytes(b, Pack(1, value))
PutUint16(b, value) == PutBytes(b, Pack(2, value))
PutUint24(b, value) == PutBytes(b, Pack(3, value))
PutUint32(b, value) == PutBytes(b, Pack(4, value))
\* The check is for the eight bytes of the parameter's type, not for six.
PutUint48(b, value) == IF ~PutCheck(b, 8) THEN Fail(b, "overflow") ELSE PutBytes(b, Pack(6, value))
PutUint64(b, value) == PutBytes(b, Pack(8, value))

RECURSIVE PutVaruint(_, _)
PutVaruint(b, value) ==
    IF value < Half THEN PutUint8(b, value)
    ELSE PutVaruint(PutUint8(b, (value % Half) + Half), value \div Half)

PutVarint(b, value) == PutVaruint(b, IF value < 0 THEN -2 * value - 1 ELSE 2 * value)

PutString(b, string) == PutBytes(PutVaruint(b, Len(string)), string)

-----------------------------------------------------------------------------
(* A get returns the binary it leaves behind and the value. *)

Got(b, value) == [b |-> b, value |-> value]

GetCheck(b, length) == b.get + length <= SizeOf(b)

GetBytes(b, length) ==
    IF ~GetCheck(b, length) THEN Got(Fail(b, "underflow"), Zeros(length))
    ELSE Got([b EXCEPT !.get = @ + length], SubSeq(b.buffer, b.get + 1, b.get + length))

GetUint(b, length) ==
    LET bytes == GetBytes(b, length) IN [bytes EXCEPT !.value = Unpack(@)]

GetUint8(b)  == GetUint(b, 1)
GetUint16(b) == GetUint(b, 2)
GetUint24(b) == GetUint(b, 3)
GetUint32(b) == GetUint(b, 4)
GetUint48(b) == GetUint(b, 6)
GetUint64(b) == GetUint(b, 8)

\* The top three bits of the value must be clear before another byte is read.
RECURSIVE VaruintLoop(_, _, _, _)
VaruintLoop(b, value, index, remaining) ==
    LET byte  == ByteAt(b, b.get)
        next  == [b EXCEPT !.get = @ + 1]
        total == (value + (byte % Half) * Half ^ index) % Word
    IN  IF index >= remaining THEN Got(Fail(b, "out_of_bounds"), 0)
        ELSE IF byte < Half THEN Got(next, total)
        ELSE IF total >= 2 ^ (WordBits - 3) THEN Got(Fail(next, "invalid_representation"), 0)
        ELSE VaruintLoop(next, total, index + 1, remaining)

GetVaruint(b) == VaruintLoop(b, 0, 0, SizeOf(b) - b.get)

GetVarint(b) ==
    LET got == GetVaruint(b)
    IN  [got EXCEPT !.value = IF @ % 2 = 1 THEN -(@ \div 2) - 1 ELSE @ \div 2]

\* The length is compared with the room that is left for a put.
GetString(b) ==
    LET got    == GetVaruint(b)
        fits   == got.value <= RemainingLength(got.b)
        length == IF fits THEN got.value ELSE 0
        after  == IF fits THEN got.b ELSE Fail(got.b, "invalid_representation")
    IN  Got([after EXCEPT !.get = @ + length],
            [i \in 1..length |-> ByteAt(after, after.get + i - 1)])

-----------------------------------------------------------------------------
(* Frames. *)

\* The largest code: a block of that many bytes is not followed by a zero.
CodeLimit == Base - 1

\* One byte of data goes from the fifo to its place.
CobsStep(s) ==
    LET byte    == Head(s.fifo)
        more    == s.offset < s.length
        fifo    == IF more THEN Append(Tail(s.fifo), s.data[s.offset + 1]) ELSE Tail(s.fifo)
        stored  == IF byte = 0 THEN s.data ELSE [s.data EXCEPT ![s.dst + 1] = byte]
        dst     == IF byte = 0 THEN s.dst ELSE s.dst + 1
        code    == IF byte = 0 THEN s.code ELSE s.code + 1
        closed  == byte = 0 \/ code = CodeLimit
    IN  [s EXCEPT !.fifo = fifo,
                  !.offset = IF more THEN @ + 1 ELSE @,
                  !.data = IF closed THEN [stored EXCEPT ![s.at + 1] = code] ELSE stored,
                  !.code = IF closed THEN 1 ELSE code,
                  !.at = IF closed THEN dst ELSE @,
                  !.dst = IF closed THEN dst + 1 ELSE dst]

\* There is no check that the code bytes fit behind the data; the buffer of
\* the model is as long as they need.
CobsEncode(data) ==
    LET length == Len(data)
        n      == IF length > LookAhead THEN LookAhead ELSE length
        room   == data \o Zeros(2 + length \div (CodeLimit - 1))
        after[i \in 0..length] ==
            IF i = 0 THEN [data |-> room, fifo |-> SubSeq(data, 1, n), offset |-> n,
                           length |-> length, dst |-> 1, at |-> 0, code |-> 1]
            ELSE CobsStep(after[i - 1])
        s      == after[length]
    IN  SubSeq([s.data EXCEPT ![s.at + 1] = s.code], 1, s.dst)

RECURSIVE CobsBytes(_, _, _)
CobsBytes(src, code, block) ==
    IF src = <<>> THEN <<>>
    ELSE IF block > 0 THEN <<Head(src)>> \o CobsBytes(Tail(src), code, block - 1)
    ELSE LET zero == IF code # CodeLimit THEN <<0>> ELSE <<>>
             next == Head(src)
         IN  IF next = 0 THEN zero ELSE zero \o CobsBytes(Tail(src), next, next - 1)

CobsDecode(frame) == CobsBytes(frame, CodeLimit, 0)

-----------------------------------------------------------------------------

\* The code keeps the bits above the sixteenth, which no later step reads.
RECURSIVE Crc16Bits(_, _)
Crc16Bits(crc, bits) ==
    IF bits = 0 THEN crc
    ELSE Crc16Bits(IF crc >= 32768 THEN (2 * crc - 65536) ^^ 4129 ELSE 2 * crc, bits - 1)

\* The low byte of the crc moves up unchanged by the eight steps, so that they
\* are a table of the high byte.
Crc16Table == [high \in 0..255 |-> Crc16Bits(high * 256, 8)]
Crc16(data) ==
    LET crc[i \in 0..Len(data)] ==
            IF i = 0 THEN 0
            ELSE LET last == crc[i - 1]
                 IN  Crc16Table[(last \div 256) ^^ data[i]] ^^ ((last % 256) * 256)
    IN  crc[Len(data)]

EnvelopeSize == 10

\* The trailer of a message up to its crc.
EnvelopeHead(envelope, length) ==
    <<0, envelope.type, envelope.subsystem, envelope.system, envelope.source, envelope.target>>
        \o Pack(2, length)

\* What fd_envelope_encode leaves in the message: errors may be set.
Headed(b, envelope) == PutBytes(b, EnvelopeHead(envelope, b.put))
Sealed(b) == PutUint16(b, Crc16(Contents(b)))
Replaced(b, bytes) ==
    [b EXCEPT !.buffer = bytes \o SubSeq(@, Len(bytes) + 1, Len(@)), !.put = Len(bytes)]
Framed(b) == Replaced(b, CobsEncode(Contents(b)))
EnvelopeEncode(message, envelope) == Framed(Sealed(Headed(message, envelope)))

Invalid == [ok |-> FALSE]

\* The payload and the envelope of an unframed message.
EnvelopeOf(data) ==
    LET length == Len(data) - EnvelopeSize
        field(i) == data[length + i]
    IN  IF length < 0 THEN Invalid
        ELSE IF Crc16(SubSeq(data, 1, Len(data) - 2)) # Unpack(SubSeq(data, Len(data) - 1, Len(data)))
             THEN Invalid
        ELSE IF Unpack(SubSeq(data, length + 7, length + 8)) # length THEN Invalid
        ELSE [ok |-> TRUE, payload |-> SubSeq(data, 1, length),
              envelope |-> [type |-> field(2), subsystem |-> field(3), system |-> field(4),
                            source |-> field(5), target |-> field(6)]]

EnvelopeDecode(frame) == EnvelopeOf(CobsDecode(frame))

-----------------------------------------------------------------------------
(* gateway.py: the host's side of the same format. *)

AddEnvelope(payload, envelope) ==
    LET data == payload \o EnvelopeHead(envelope, Len(payload))
    IN  data \o Pack(2, Crc16(data))

GetEnvelope(data) == EnvelopeOf(data)

\* A delimiter comes before the frame as well as after it.
ToRaw(payload, envelope) == <<0>> \o CobsEncode(AddEnvelope(payload, envelope)) \o <<0>>

\* The decoder of the cobs package refuses a zero in the frame, and a frame
\* that ends inside of a block.
RECURSIVE CobsComplete(_)
CobsComplete(frame) ==
    \/ frame = <<>>
    \/ /\ Head(frame) <= Len(frame)
       /\ CobsComplete(SubSeq(frame, Head(frame) + 1, Len(frame)))
HostDecode(frame) == IF CobsComplete(frame) THEN GetEnvelope(CobsDecode(frame)) ELSE Invalid
=============================================================================
