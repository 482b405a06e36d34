------------------------------- MODULE Fields -------------------------------
(***************************************************************************)
(* A user of fd_binary.c: fields are put into a buffer, some bytes may be  *)
(* removed from its front, and a reader that was given just the bytes that *)
(* were put gets the fields again.  A reader is set up as fd_gateway and   *)
(* the boot loaders do it, with fd_binary_initialize over the bytes, so    *)
(* that put is zero and the size is the length of the message.             *)
(***************************************************************************)
EXTENDS Framing

CONSTANTS BufferSize,   \* the size of the buffer
          MaxFields     \* bound: how many fields are put

VARIABLES binary,       \* the fd_binary_t
          fields,       \* the fields that were put and not removed: [kind, value, end, room],
                        \* room is what was left of the buffer before the put
          got,          \* the fields the reader got
          stage          \* "put", "removed" or "get"

vars == <<binary, fields, got, stage>>

\* Values at the limits of each kind, and one in between.
Ends(n) == {0, 1, n \div 2, n - 1}
Values(kind) ==
    CASE kind = "uint8" -> Ends(Base)        [] kind = "uint16" -> Ends(Base ^ 2)
      [] kind = "uint24" -> Ends(Base ^ 3)   [] kind = "uint32" -> Ends(Base ^ 4)
      [] kind = "uint48" -> Ends(Base ^ 6)   [] kind = "uint64" -> Ends(Base ^ 8)
      [] kind = "varuint" -> IF fields = <<>> THEN 0..(Word - 1) ELSE Ends(Word)
      [] kind = "varint" -> IF fields = <<>> THEN (-(Word \div 2))..(Word \div 2 - 1) ELSE {-1, 1}
      [] kind = "string" -> {<<>>, <<1>>, <<Base - 1, 1>>}
      [] kind = "bytes" -> {<<1, 0>>}
Kinds == {"uint8", "uint16", "uint24", "uint32", "uint48", "uint64", "varuint", "varint", "string",
          "bytes"}

PutField(b, kind, value) ==
    CASE kind = "uint8" -> PutUint8(b, value)     [] kind = "uint16" -> PutUint16(b, value)
      [] kind = "uint24" -> PutUint24(b, value)   [] kind = "uint32" -> PutUint32(b, value)
      [] kind = "uint48" -> PutUint48(b, value)   [] kind = "uint64" -> PutUint64(b, value)
      [] kind = "varuint" -> PutVaruint(b, value) [] kind = "varint" -> PutVarint(b, value)
      [] kind = "string" -> PutString(b, value)   [] kind = "bytes" -> PutBytes(b, value)

GetField(b, kind, length) ==
    CASE kind = "uint8" -> GetUint8(b)     [] kind = "uint16" -> GetUint16(b)
      [] kind = "uint24" -> GetUint24(b)   [] kind = "uint32" -> GetUint32(b)
      [] kind = "uint48" -> GetUint48(b)   [] kind = "uint64" -> GetUint64(b)
      [] kind = "varuint" -> GetVaruint(b) [] kind = "varint" -> GetVarint(b)
      [] kind = "string" -> GetString(b)   [] kind = "bytes" -> GetBytes(b, length)

Init ==
    /\ binary = Initialize(Zeros(BufferSize))
    /\ fields = <<>>
    /\ got = <<>>
    /\ stage = "put"

Put(kind, value) ==
    /\ stage = "put"
    /\ Len(fields) < MaxFields
    /\ binary' = PutField(binary, kind, value)
    /\ fields' = Append(fields, [kind |-> kind, value |-> value, end |-> binary'.put,
                                 room |-> RemainingLength(binary)])
    /\ UNCHANGED <<got, stage>>

\* The first field is taken off the front of the buffer.
RemoveFirst ==
    /\ stage = "put"
    /\ fields # <<>>
    /\ binary.errors = {}
    /\ LET length == fields[1].end
       IN  /\ binary' = RemoveBytes(binary, 0, length)
           /\ fields' = [i \in 1..(Len(fields) - 1) |->
                            [fields[i + 1] EXCEPT !.end = @ - length]]
    /\ stage' = "removed"
    /\ UNCHANGED got

Read ==
    /\ stage \in {"put", "removed"}
    /\ fields # <<>>
    /\ stage' = "get"
    /\ binary' = [Initialize(Contents(binary)) EXCEPT !.errors = binary.errors]
    /\ UNCHANGED <<fields, got>>

Get ==
    /\ stage = "get"
    /\ Len(got) < Len(fields)
    /\ LET f == fields[Len(got) + 1]
           g == GetField(binary, f.kind, IF f.kind = "bytes" THEN Len(f.value) ELSE 0)
       IN  /\ binary' = g.b
           /\ got' = Append(got, g.value)
    /\ UNCHANGED <<fields, stage>>

Next ==
    \/ \E kind \in Kinds : \E value \in Values(kind) : Put(kind, value)
    \/ RemoveFirst
    \/ Read
    \/ Get

Spec == Init /\ [][Next]_vars

\* The frame of what was put holds no delimiter, is longer than it by one code
\* byte for each full block and one more, and decodes to it.
FramesReadBack ==
    LET data  == Contents(binary)
        frame == CobsEncode(data)
    IN  /\ CobsDecode(frame) = data
        /\ \A i \in DOMAIN frame : frame[i] \in 1..CodeLimit
        /\ Len(frame) <= Len(data) + 1 + Len(data) \div (CodeLimit - 1)
        /\ CobsComplete(frame)

-----------------------------------------------------------------------------
(* What the fields mean, for the properties. *)

\* The unsigned number that is put for a varint.
ZigZag(value) == IF value < 0 THEN -2 * value - 1 ELSE 2 * value

\* As many octets as the bits of the value need, one at least.
VaruintLength(value) ==
    CHOOSE n \in 1..WordBits : value < Half ^ n /\ (n > 1 => value >= Half ^ (n - 1))

FieldLength(f) ==
    CASE f.kind = "uint8" -> 1  [] f.kind = "uint16" -> 2 [] f.kind = "uint24" -> 3
      [] f.kind = "uint32" -> 4 [] f.kind = "uint48" -> 6 [] f.kind = "uint64" -> 8
      [] f.kind = "varuint" -> VaruintLength(f.value)
      [] f.kind = "varint" -> VaruintLength(ZigZag(f.value))
      [] f.kind = "string" -> VaruintLength(Len(f.value)) + Len(f.value)
      [] f.kind = "bytes" -> Len(f.value)
Fits(f) == FieldLength(f) <= f.room

\* fd_binary_put_uint48 checks the eight octets of its parameter for the six it
\* puts (fd_binary.c 345): it refuses a field that fits into the last six or seven.
RefusedThoughFits(f) == f.kind = "uint48" /\ f.room \in 6..7

\* fd_binary_get_varuint refuses a value with the highest bit of the word and one
\* of the two below it, which fits (fd_binary.c 260).
RefusedByGet(f) ==
    /\ f.kind \in {"varuint", "varint"}
    /\ LET v == IF f.kind = "varuint" THEN f.value ELSE ZigZag(f.value)
       IN  v >= Word \div 2 /\ v % (Word \div 2) >= Word \div 8

IsKept(f) == Fits(f) /\ ~RefusedThoughFits(f) /\ ~RefusedByGet(f)

(***************************************************************************)
(* Every field reads back as it was put, up to the first that is not kept, *)
(* and an error tells of that one.  overflow is set exactly when a put did *)
(* not fit, also by one octet, but for fd_binary_put_uint48, which refuses *)
(* a field that fits within the last seven octets (RefusedThoughFits).     *)
(* invalid_representation is set only at a get of a varuint that           *)
(* fd_binary_get_varuint cannot represent (RefusedByGet), underflow and    *)
(* out_of_bounds only behind one of these; a reader of what was put ends   *)
(* exactly at its end.  What was put reads back through a frame as well:   *)
(* the look-ahead of fd_cobs_encode never lets a code byte overwrite data  *)
(* that was not read yet (fd_cobs.c 8, 50).                                *)
(***************************************************************************)
FieldsReadBack ==
    /\ FramesReadBack
    /\ binary.put <= SizeOf(binary)
    /\ "overflow" \in binary.errors <=>
           \E i \in DOMAIN fields : ~Fits(fields[i]) \/ RefusedThoughFits(fields[i])
    /\ binary.errors # {} => \/ "overflow" \in binary.errors
                             \/ /\ "invalid_representation" \in binary.errors
                                /\ \E i \in DOMAIN got : RefusedByGet(fields[i])
    /\ \A i \in DOMAIN got : (\A j \in 1..i : IsKept(fields[j])) => got[i] = fields[i].value
    /\ stage = "get" /\ binary.errors = {} =>
           /\ \A i \in DOMAIN got : got[i] = fields[i].value
           /\ Len(got) = Len(fields) => binary.get = SizeOf(binary)
=============================================================================
