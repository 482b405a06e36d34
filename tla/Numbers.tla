------------------------------ MODULE Numbers -------------------------------
(***************************************************************************)
(* The conversions of the base library: half precision floats              *)
(* (fd_ieee754.c), calendar dates (fd_calendar.c), and the bit packed      *)
(* deltas of sensor samples (fd_bit.c, fd_delta.c), which api/python/      *)
(* delta.py implements a second time for the host.  A behaviour takes one  *)
(* sample through its conversion and back.                                 *)
(***************************************************************************)
EXTENDS Integers, Sequences

CONSTANTS Halves,         \* half precision bit patterns to convert
          Singles,        \* single precision numbers [s, e, m] to convert
          Days,           \* days since 1970-01-01 to convert
          Clocks,         \* seconds of a day to convert
          Series,         \* sequences of samples to pack
          Datasets,       \* data of several sensors to pack
          OctetBits,      \* 8 in the code: bits of a byte of packed data
          RegisterBits,   \* 32 in the code: bits of fd_bit_encoder_t.byte
          EncoderSize,    \* bytes the C encoder is given
          CountBits       \* width of the counts and identifiers of a dataset

VARIABLES sample,         \* what is converted: [kind, value]
          results         \* the outcome, once there is one

vars == <<sample, results>>

-----------------------------------------------------------------------------
(* fd_ieee754.c: s, e and m are the sign, exponent and mantissa bits of a  *)
(* float; a half is its 16 bit pattern.                                    *)

Sign16 == 2 ^ 15
Inf16  == 31 * 1024
Nan16  == Sign16 + Inf16 + 512
Nan32  == [s |-> 1, e |-> 255, m |-> 2 ^ 22]

\* Round half up: the bit below the last one that is kept is added to it.
Rounded(m, shift) == m \div 2 ^ shift + ((m \div 2 ^ (shift - 1)) % 2)

SinglesToHalf(x) ==
    LET sign == x.s * Sign16
        hes  == x.e - 127 + 15
    IN  CASE x.e = 0 -> sign
          [] x.e = 255 -> IF x.m = 0 THEN sign + Inf16 ELSE Nan16
          [] x.e \in 1..254 /\ hes >= 31 -> sign + Inf16
          [] x.e \in 1..254 /\ hes <= 0 ->
                 sign + (IF 14 - hes > 24 THEN 0 ELSE Rounded(x.m + 2 ^ 23, 14 - hes))
          [] OTHER -> sign + hes * 1024 + Rounded(x.m, 13)

HalfToSingle(h) ==
    LET s  == h \div Sign16
        he == (h % Sign16) \div 1024
        hm == h % 1024
        e  == CHOOSE k \in 0..9 : hm * 2 ^ (k + 1) \in 1024..2047
    IN  CASE he = 0 /\ hm = 0 -> [s |-> s, e |-> 0, m |-> 0]
          [] he = 0 /\ hm # 0 ->
                 [s |-> s, e |-> 127 - 15 - e, m |-> ((hm * 2 ^ (e + 1)) % 1024) * 8192]
          [] he = 31 -> IF hm = 0 THEN [s |-> s, e |-> 255, m |-> 0] ELSE Nan32
          [] OTHER -> [s |-> s, e |-> he - 15 + 127, m |-> hm * 8192]

-----------------------------------------------------------------------------
(* fd_calendar.c: a time is its day since 1970 and its second of the day,  *)
(* the two numbers that / and % 86400 take it apart into.                  *)

Leap(y) == (y % 4 = 0 /\ y % 100 # 0) \/ y % 400 = 0
\* Mutant: centuries are leap years.
LeapsBeforeJulian(y) == (y - 1969) \div 4

LeapsBefore(y) == (y - 1969) \div 4 - (y - 1901) \div 100 + (y - 1601) \div 400
YearDays == <<0, 31, 59, 90, 120, 151, 181, 212, 243, 273, 304, 334>>
MonthDays(leap) == <<31, IF leap THEN 29 ELSE 28, 31, 30, 31, 30, 31, 31, 30, 31, 30, 31>>
YearSize(y) == IF Leap(y) THEN 366 ELSE 365

ToTime(c) ==
    LET y    == c.year + 1900
        days == c.mday - 1 + YearDays[c.month + 1] + (IF c.month > 1 /\ Leap(y) THEN 1 ELSE 0)
    IN  [day |-> days + 365 * (y - 1970) + LeapsBefore(y), clock |-> 3600 * c.hour + 60 * c.min + c.sec]

RECURSIVE YearLoop(_, _), MonthLoop(_, _, _)
YearLoop(dayno, y) ==
    IF dayno >= YearSize(y) THEN YearLoop(dayno - YearSize(y), y + 1) ELSE [dayno |-> dayno, year |-> y]
MonthLoop(dayno, months, m) ==
    IF dayno >= months[m + 1] THEN MonthLoop(dayno - months[m + 1], months, m + 1)
    ELSE [mday |-> dayno + 1, month |-> m]

FromTime(t) ==
    LET y == YearLoop(t.day, 1970)
        m == MonthLoop(y.dayno, MonthDays(Leap(y.year)), 0)
    IN  [sec |-> t.clock % 60, min |-> (t.clock % 3600) \div 60, hour |-> t.clock \div 3600,
         wday |-> (t.day + 4) % 7, year |-> y.year - 1900, month |-> m.month, mday |-> m.mday]

TwelveHour(hour) ==
    CASE hour = 0 -> [meridiem |-> "a", hour |-> 12]
      [] hour \in 1..11 -> [meridiem |-> "a", hour |-> hour]
      [] hour = 12 -> [meridiem |-> "p", hour |-> 12]
      [] hour \in 13..23 -> [meridiem |-> "p", hour |-> hour - 12]
      [] OTHER -> [meridiem |-> "a", hour |-> 0]

-----------------------------------------------------------------------------
(* fd_bit.c.  ok is false once an assertion failed. *)

Octet == 2 ^ OctetBits

Encoder(size) == [data |-> <<>>, size |-> size, bit_count |-> 0, byte |-> 0, overflow |-> FALSE, ok |-> TRUE]

\* The bits of the new value that do not fit into the register are lost.
EncoderWrite(o, value, n) ==
    LET index == o.bit_count % OctetBits
        bits  == (o.byte + value * 2 ^ index) % 2 ^ RegisterBits
        whole == (index + n) \div OctetBits
    IN  IF o.bit_count + n > o.size * OctetBits THEN [o EXCEPT !.overflow = TRUE]
        ELSE [o EXCEPT !.data = @ \o [i \in 1..whole |-> (bits \div Octet ^ (i - 1)) % Octet],
                       !.byte = bits \div Octet ^ whole,
                       !.bit_count = @ + n,
                       !.ok = @ /\ value < 2 ^ n /\ bits \div Octet ^ whole < Octet]

EncoderFinalize(o) ==
    LET done == IF o.bit_count % OctetBits > 0 THEN [o EXCEPT !.data = Append(@, o.byte)] ELSE o
    IN  [done EXCEPT !.ok = @ /\ ~o.overflow /\ Len(done.data) = (o.bit_count + OctetBits - 1) \div OctetBits]

Decoder(data, bits) == [data |-> data, bit_count |-> bits, bit_index |-> 0, value |-> 0, ok |-> TRUE]

RECURSIVE ReadLoop(_, _, _)
ReadLoop(i, n, extracted) ==
    LET at    == i.bit_index % OctetBits
        rest  == n - extracted
        taken == IF OctetBits - at > rest THEN rest ELSE OctetBits - at
        byte  == i.data[i.bit_index \div OctetBits + 1]
    IN  IF extracted >= n THEN i
        ELSE ReadLoop([i EXCEPT !.value = @ + ((byte \div 2 ^ at) % 2 ^ rest) * 2 ^ extracted,
                                !.bit_index = @ + taken], n, extracted + taken)

\* Past the end the code asserts and reads on; here the read gives 0 and is noted in ok.
DecoderRead(i, n) ==
    IF i.bit_index + n > i.bit_count THEN [i EXCEPT !.ok = FALSE, !.value = 0]
    ELSE ReadLoop([i EXCEPT !.value = 0], n, 0)

-----------------------------------------------------------------------------
(* fd_delta.c, over an array of 32 bit fields *)

ZigzagEncode(v) == IF v < 0 THEN -2 * v - 1 ELSE 2 * v
ZigzagDecode(u) == IF u % 2 = 1 THEN -(u \div 2) - 1 ELSE u \div 2
Resolution(u) == CHOOSE n \in 0..30 : u < 2 ^ n /\ \A k \in 0..(n - 1) : u >= 2 ^ k

DeltaResolution(values) ==
    LET deltas == {Resolution(ZigzagEncode(values[i] - values[i - 1])) : i \in 2..Len(values)} \cup {0}
    IN  CHOOSE n \in deltas : \A k \in deltas : k <= n

RECURSIVE EncodeDeltas(_, _, _, _)
EncodeDeltas(o, values, i, deltaBits) ==
    IF i > Len(values) THEN o
    ELSE EncodeDeltas(EncoderWrite(o, ZigzagEncode(values[i] - values[i - 1]), deltaBits),
                      values, i + 1, deltaBits)

DeltaEncode(o, values, valueBits, deltaBits) ==
    LET first == EncoderWrite(o, ZigzagEncode(values[1]), valueBits)
    IN  IF deltaBits = 0 THEN first ELSE EncodeDeltas(first, values, 2, deltaBits)

RECURSIVE DecodeDeltas(_, _, _, _)
DecodeDeltas(i, values, count, deltaBits) ==
    IF Len(values) = count THEN [decoder |-> i, values |-> values]
    ELSE LET d == IF deltaBits = 0 THEN [i EXCEPT !.value = 0] ELSE DecoderRead(i, deltaBits)
         IN  DecodeDeltas(d, Append(values, values[Len(values)] + ZigzagDecode(d.value)), count, deltaBits)

\* For a resolution of zero every sample repeats the first one.
DeltaDecode(i, count, valueBits, deltaBits) ==
    LET first == DecoderRead(i, valueBits)
    IN  DecodeDeltas(first, <<ZigzagDecode(first.value)>>, count, deltaBits)

-----------------------------------------------------------------------------
(* delta.py: the same with integers of any width, and an exception where   *)
(* the C code asserts.                                                     *)

PyEncoder == [data |-> <<>>, bit_count |-> 0, byte |-> 0, raised |-> FALSE]

PyWrite(o, value, n) ==
    LET index == o.bit_count % OctetBits
        bits  == o.byte + value * 2 ^ index
        whole == (index + n) \div OctetBits
    IN  IF o.raised \/ value >= 2 ^ n THEN [o EXCEPT !.raised = TRUE]
        ELSE [data |-> o.data \o [i \in 1..whole |-> (bits \div Octet ^ (i - 1)) % Octet],
              byte |-> bits \div Octet ^ whole, bit_count |-> o.bit_count + n,
              raised |-> bits \div Octet ^ whole > Octet]

PyFinalize(o) == IF o.bit_count % OctetBits > 0 THEN [o EXCEPT !.data = Append(@, o.byte)] ELSE o

PyRead(i, n) == DecoderRead(i, n)

PyZigzagEncode(v) == IF v >= 0 THEN 2 * v ELSE 2 * (-v) - 1
PyZigzagDecode(u) == IF u % 2 # 0 THEN (-u) \div 2 ELSE u \div 2

RECURSIVE PyEncodeDeltas(_, _, _, _)
PyEncodeDeltas(o, values, i, deltaBits) ==
    IF i > Len(values) THEN o
    ELSE PyEncodeDeltas(PyWrite(o, PyZigzagEncode(values[i] - values[i - 1]), deltaBits),
                        values, i + 1, deltaBits)

PyDeltaEncode(o, values, valueBits, deltaBits) ==
    LET first == PyWrite(o, PyZigzagEncode(values[1]), valueBits)
    IN  IF deltaBits = 0 THEN first ELSE PyEncodeDeltas(first, values, 2, deltaBits)

RECURSIVE PyDecodeDeltas(_, _, _, _)
PyDecodeDeltas(i, values, count, deltaBits) ==
    IF Len(values) = count THEN [decoder |-> i, values |-> values]
    ELSE LET d == IF deltaBits = 0 THEN [i EXCEPT !.value = 0] ELSE PyRead(i, deltaBits)
         IN  PyDecodeDeltas(d, Append(values, values[Len(values)] + PyZigzagDecode(d.value)), count, deltaBits)

PyDeltaDecode(i, count, valueBits, deltaBits) ==
    LET first == PyRead(i, valueBits)
    IN  PyDecodeDeltas(first, <<PyZigzagDecode(first.value)>>, count, deltaBits)

\* SensingDeltaEncoding: a dataset is a sequence of [sensor, ordinal, channels],
\* a channel a sequence of samples; every sensor has the value resolution of
\* valueBits and two channels.
ChannelCount == 2
ValueBits == 4

RECURSIVE EncodeChannels(_, _), EncodeData(_, _)
EncodeChannels(o, channels) ==
    IF channels = <<>> THEN o
    ELSE LET values == channels[1]
             bits   == DeltaResolution(values)
         IN  EncodeChannels(PyDeltaEncode(PyWrite(o, bits, CountBits), values, ValueBits, bits),
                            Tail(channels))
EncodeData(o, dataset) ==
    IF dataset = <<>> THEN o
    ELSE LET d == dataset[1]
             header == PyWrite(PyWrite(PyWrite(o, d.sensor, CountBits), Len(d.channels[1]), CountBits),
                               d.ordinal, CountBits)
         IN  EncodeData(EncodeChannels(header, d.channels), Tail(dataset))
EncodeDataset(dataset) == PyFinalize(EncodeData(PyWrite(PyEncoder, Len(dataset), CountBits), dataset))

RECURSIVE DecodeChannels(_, _, _, _), DecodeData(_, _, _)
DecodeChannels(i, channels, left, count) ==
    IF left = 0 THEN [decoder |-> i, channels |-> channels]
    ELSE LET bits == PyRead(i, CountBits)
             c    == PyDeltaDecode(bits, count, ValueBits, bits.value)
         IN  DecodeChannels(c.decoder, Append(channels, c.values), left - 1, count)
DecodeData(i, dataset, left) ==
    IF left = 0 THEN dataset
    ELSE LET sensor  == PyRead(i, CountBits)
             count   == PyRead(sensor, CountBits)
             ordinal == PyRead(count, CountBits)
             c       == DecodeChannels(ordinal, <<>>, ChannelCount, count.value)
         IN  DecodeData(c.decoder, Append(dataset, [sensor |-> sensor.value, ordinal |-> ordinal.value,
                                                    channels |-> c.channels]), left - 1)
DecodeDataset(o) ==
    LET count == PyRead(Decoder(o.data, o.bit_count), CountBits) IN DecodeData(count, <<>>, count.value)

-----------------------------------------------------------------------------

Pack(values) ==
    LET first == Resolution(ZigzagEncode(values[1]))
        bits  == DeltaResolution(values)
        c     == EncoderFinalize(DeltaEncode(Encoder(EncoderSize), values, first, bits))
        py    == PyFinalize(PyDeltaEncode(PyEncoder, values, first, bits))
    IN  [c |-> c, py |-> py, first |-> first, bits |-> bits,
         device |-> IF c.overflow THEN <<>> ELSE
                    DeltaDecode(Decoder(c.data, c.bit_count), Len(values), first, bits).values,
         host |-> IF c.overflow THEN <<>> ELSE
                  PyDeltaDecode(Decoder(c.data, c.bit_count), Len(values), first, bits).values]

Convert(kind, value) ==
    CASE kind = "half" -> SinglesToHalf(HalfToSingle(value))
      [] kind = "single" -> HalfToSingle(SinglesToHalf(value))
      [] kind = "time" -> [calendar |-> FromTime(value), time |-> ToTime(FromTime(value)),
                           twelve |-> TwelveHour(FromTime(value).hour)]
      [] kind = "series" -> Pack(value)
      [] kind = "dataset" -> LET o == EncodeDataset(value)
                             IN  [raised |-> o.raised, dataset |-> IF o.raised THEN <<>> ELSE DecodeDataset(o)]

Init ==
    /\ \/ \E h \in Halves : sample = [kind |-> "half", value |-> h]
       \/ \E x \in Singles : sample = [kind |-> "single", value |-> x]
       \/ \E d \in Days, c \in Clocks : sample = [kind |-> "time", value |-> [day |-> d, clock |-> c]]
       \/ \E v \in Series : sample = [kind |-> "series", value |-> v]
       \/ \E d \in Datasets : sample = [kind |-> "dataset", value |-> d]
    /\ results = <<>>

Run ==
    /\ results = <<>>
    /\ results' = <<Convert(sample.kind, sample.value)>>
    /\ UNCHANGED sample

Next == Run

Spec == Init /\ [][Next]_vars

-----------------------------------------------------------------------------

result == results[1]

\* Adjacent floats have adjacent keys.
Key(x) == x.e * 2 ^ 23 + x.m
Distance(a, b) == IF a < b THEN b - a ELSE a - b
Nan(h) == (h % Sign16) \div 1024 = 31 /\ h % 1024 # 0

\* A half is exact in single precision; a single is off by no more than half
\* of the last place of the half it becomes.
HalfAgrees ==
    CASE sample.kind = "half" -> result = IF Nan(sample.value) THEN Nan16 ELSE sample.value
      [] sample.kind = "single" ->
             LET x   == sample.value
                 hes == x.e - 127 + 15
             IN  CASE x.e = 255 /\ x.m # 0 -> result = Nan32
                   [] x.e = 255 /\ x.m = 0 -> result = x
                   [] hes >= 31 \/ (hes = 30 /\ x.m >= 2 ^ 23 - 4096) ->
                          x.e < 255 => result = [s |-> x.s, e |-> 255, m |-> 0]
                   [] hes < -10 -> result = [s |-> x.s, e |-> 0, m |-> 0]
                   [] OTHER -> /\ result.s = x.s
                               /\ Distance(Key(result), Key(x)) <= 2 ^ (IF hes <= 0 THEN 13 - hes ELSE 12)
      [] OTHER -> TRUE

\* A time survives its calendar date; days follow each other, and the twelve
\* hour clock tells all hours apart.
CalendarAgrees ==
    sample.kind = "time" =>
        LET c == result.calendar
        IN  /\ result.time = sample.value
            /\ c.month \in 0..11 /\ c.mday \in 1..MonthDays(Leap(c.year + 1900))[c.month + 1]
            /\ c.hour \in 0..23 /\ c.min \in 0..59 /\ c.sec \in 0..59
            /\ FromTime([sample.value EXCEPT !.day = @ + 1]).wday = (c.wday + 1) % 7
            /\ \A h \in 0..23 : TwelveHour(h) = result.twelve => h = c.hour

\* What the device packs is what the host packs, and both read it back, as
\* long as a value and the bits before it fit into the encoder's register.
DeltaAgrees ==
    CASE sample.kind = "series" ->
             LET fits == /\ result.first + OctetBits - 1 <= RegisterBits
                         /\ result.bits + OctetBits - 1 <= RegisterBits
             IN  /\ ~result.py.raised
                 /\ fits /\ ~result.c.overflow =>
                        /\ result.c.ok
                        /\ result.c.data = result.py.data
                        /\ result.device = sample.value
                        /\ result.host = sample.value
                 /\ result.c.overflow <=> result.py.bit_count > EncoderSize * OctetBits
      [] sample.kind = "dataset" -> result.raised \/ result.dataset = sample.value
      [] OTHER -> TRUE

(***************************************************************************)
(* Every conversion agrees with its inverse and, where the repository has  *)
(* two implementations, with the other one.                                *)
(***************************************************************************)
NumbersAgree == results # <<>> => HalfAgrees /\ CalendarAgrees /\ DeltaAgrees
=============================================================================
