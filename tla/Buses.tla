------------------------------- MODULE Buses --------------------------------
(***************************************************************************)
(* The I2C and SPI masters of subsys/base (fd_i2cm*.c, fd_spim*.c).  Each  *)
(* has an implementation that toggles pins and one that uses a peripheral  *)
(* of the nRF5; the same calls go to either.  A call of a client is one    *)
(* step: it blocks until the bus is done.                                  *)
(*                                                                         *)
(* The devices on the buses are external.  The one on I2C watches the      *)
(* levels of the two wires: it takes an octet for an address after a start *)
(* condition, then has a pointer and cells that are written and read.      *)
(***************************************************************************)
EXTENDS Integers, Sequences, SequencesExt, Transfers

CONSTANTS
    BitsOfOctet,     \* 8 in the code
    Address,         \* the address of the device on I2C
    Cells,           \* its number of cells
    I2cCalls,        \* the [to, transfers] of clients, a transfer being [dir, bytes, count]
    SpiCalls,        \* the [to, transfers] of clients, a transfer being [tx, rx]
    Chunk,           \* what one start of the SPI peripheral transfers (255 in the code)
    SpiDevices,
    MaxIo

VARIABLES i2c, spi, io

busVars == <<i2c, spi, io>>

Octet == 0..(2 ^ BitsOfOctet - 1)
Bits(v) == [i \in 1..BitsOfOctet |-> (v \div 2 ^ (BitsOfOctet - i)) % 2]
Value(bits) == FoldLeft(LAMBDA v, b : 2 * v + b, 0, bits)

-----------------------------------------------------------------------------
(* The device on I2C.  n counts the clocks of an octet and its acknowledge. *)

NewDevice == [mode |-> "idle", n |-> 0, bits |-> <<>>, sda |-> 1, nak |-> FALSE, room |-> 2,
              first |-> TRUE, ptr |-> 0, cells |-> [c \in 0..(Cells - 1) |-> 1]]

\* The device has received octet v.
Taken(d, v) ==
    CASE d.mode = "address" /\ v \div 2 # Address -> [d EXCEPT !.mode = "deaf"]
      [] d.mode = "address" /\ v = 2 * Address -> [d EXCEPT !.mode = "write", !.first = TRUE, !.sda = 0]
      [] d.mode = "address" /\ v = 2 * Address + 1 -> [d EXCEPT !.mode = "read", !.sda = 0]
      [] d.mode = "write" /\ d.first -> [d EXCEPT !.ptr = v % Cells, !.first = FALSE, !.sda = 0]
      [] d.mode = "write" /\ ~d.first /\ d.room = 0 -> [d EXCEPT !.mode = "deaf"]
      [] d.mode = "write" /\ ~d.first /\ d.room > 0 ->
            [d EXCEPT !.cells[d.ptr] = v, !.ptr = (@ + 1) % Cells, !.room = @ - 1, !.sda = 0]

Rising(d, line) ==
    CASE d.mode \in {"address", "write"} /\ d.n < BitsOfOctet -> [d EXCEPT !.bits = Append(@, line)]
      [] d.mode = "read" /\ d.n = BitsOfOctet -> [d EXCEPT !.nak = line = 1]
      [] OTHER -> d

\* The first or the next bit of the cell is put on the wire.
Load(d, n) == [d EXCEPT !.n = n, !.sda = Bits(d.cells[d.ptr])[n + 1]]
NextOctet(d) ==
    LET e == [d EXCEPT !.n = 0, !.bits = <<>>, !.sda = 1] IN IF d.mode = "read" THEN Load(e, 0) ELSE e
Falling(d) ==
    LET n == d.n + 1
    IN CASE d.mode \in {"idle", "deaf"} -> [d EXCEPT !.sda = 1]
         [] d.mode \in {"address", "write"} /\ n = BitsOfOctet -> [Taken(d, Value(d.bits)) EXCEPT !.n = n]
         [] d.mode = "read" /\ d.bits = <<>> /\ n < BitsOfOctet -> Load(d, n)
         [] d.mode = "read" /\ d.bits = <<>> /\ n = BitsOfOctet ->
                [d EXCEPT !.n = n, !.sda = 1, !.ptr = (@ + 1) % Cells]
         [] d.mode = "read" /\ d.bits = <<>> /\ n > BitsOfOctet /\ d.nak ->
                [d EXCEPT !.mode = "deaf"]
         [] n > BitsOfOctet /\ ~(d.mode = "read" /\ d.bits = <<>> /\ d.nak) -> NextOctet(d)
         [] OTHER -> [d EXCEPT !.n = n]

-----------------------------------------------------------------------------
(* The wires: sda is low if one side pulls it low. *)

Line(w) == IF w.sda = 1 /\ w.d.sda = 1 THEN 1 ELSE 0
Sees(before, after) ==
    LET d == before.d
    IN CASE before.scl = 1 /\ after.scl = 1 /\ Line(before) > Line(after) ->
                [d EXCEPT !.mode = "address", !.n = -1, !.bits = <<>>, !.sda = 1]   \* start
         [] before.scl = 1 /\ after.scl = 1 /\ Line(before) < Line(after) ->
                [d EXCEPT !.mode = "idle"]                                          \* stop
         [] before.scl < after.scl -> Rising(d, Line(after))
         [] before.scl > after.scl -> Falling(d)
         [] OTHER -> d
Moved(w, v) == [v EXCEPT !.d = Sees(w, v)]
SetScl(w, level) == Moved(w, [w EXCEPT !.scl = level])
SetSda(w, level) == Moved(w, [w EXCEPT !.sda = level])

(* fd_i2cm_bitbang.c.  Configuring the pin as an input releases it. *)

Start(w) == SetScl(SetSda(SetSda(SetScl(w, 1), 1), 0), 0)
Stop(w) == SetSda(SetScl(SetSda(w, 0), 1), 1)
WriteBit(w, bit) == SetScl(SetScl(SetSda(w, bit), 1), 0)
Sampled(w) == [bit |-> Line(w), w |-> SetScl(w, 0)]
ReadBit(w) == Sampled(SetScl(SetSda(w, 1), 1))
ConfigureIn(w) == SetSda(w, 1)
ConfigureOut(w) == SetSda(w, 1)

Acknowledged(r) == [ack |-> r.bit = 0, w |-> ConfigureOut(r.w)]
WriteByte(w, byte) == Acknowledged(ReadBit(ConfigureIn(FoldLeft(WriteBit, w, Bits(byte)))))

Shifted(byte, r) == [byte |-> 2 * byte + r.bit, w |-> r.w]
ReadBits(w) ==
    FoldLeft(LAMBDA r, i : Shifted(r.byte, ReadBit(r.w)), [byte |-> 0, w |-> w],
             [i \in 1..BitsOfOctet |-> i])
Acknowledge(r, ack) == [r EXCEPT !.w = WriteBit(ConfigureOut(@), IF ack THEN 0 ELSE 1)]
ReadByte(w, ack) == Acknowledge(ReadBits(ConfigureIn(w)), ack)

\* Inside of an io: w the wires, ack, the octets received so far.
Sent(x, r) == [x EXCEPT !.ack = r.ack, !.w = r.w]
Received(x, r) == [x EXCEPT !.w = r.w, !.rx = Append(@, r.byte)]
BusTx(x, bytes) ==
    FoldLeft(LAMBDA y, b : IF y.ack THEN Sent(y, WriteByte(y.w, b)) ELSE y, x, bytes)
\* A mutant of BusRx: the last octet is never acknowledged.
BusRxNakLast(x, count, ack) ==
    FoldLeft(LAMBDA y, i : Received(y, ReadByte(y.w, i < count)), x, [i \in 1..count |-> i])

BusRx(x, count, ack) ==
    FoldLeft(LAMBDA y, i : Received(y, ReadByte(y.w, ack \/ i < count)), x, [i \in 1..count |-> i])
StartTransfer(x, address, dir) ==
    Sent(x, WriteByte(Start(x.w), 2 * address + (IF dir = "rx" THEN 1 ELSE 0)))

\* fd_i2cm_bitbang_device_io: a start only when the direction changes, the last
\* octet is not acknowledged unless another receive follows, always a stop.
Data(x, t, ack) ==
    CASE ~x.ack -> x
      [] x.ack /\ t.dir = "tx" -> BusTx(x, t.bytes)
      [] x.ack /\ t.dir = "rx" -> BusRx(x, t.count, ack)
NoData(w) == [w |-> w, ack |-> TRUE, rx |-> <<>>]
Stopped(x) == [ok |-> x.ack, rx |-> x.rx, w |-> Stop(x.w)]
BitbangIo(w, address, ts) ==
    LET goes_on(i) == i > 1 /\ ts[i - 1].dir = ts[i].dir
        more(i) == i < Len(ts) /\ ts[i + 1].dir = "rx"
        begin(x, i) == IF goes_on(i) \/ ~x.ack THEN x ELSE StartTransfer(x, address, ts[i].dir)
        transfer(x, i) == Data(begin(x, i), ts[i], more(i))
    IN Stopped(FoldLeft(transfer, NoData(w), [i \in DOMAIN ts |-> i]))

-----------------------------------------------------------------------------
(* The two-wire peripheral of the nRF5.  It makes the same waveforms, but    *)
(* starts every transfer with a start condition.  A start that follows an    *)
(* error without a stop may also never end (stuck).                          *)

TwimTransfer(x, address, t) == Data(StartTransfer(x, address, t.dir), t, FALSE)

\* fd_i2cm_clear_bus: nine clocks, with the peripheral disabled.
ClearBus(w) ==
    LET pulse(v, i) == SetScl(SetScl(v, 0), 1)
    IN FoldLeft(pulse, SetScl(SetSda(w, 1), 1), [i \in 1..(BitsOfOctet + 1) |-> i])

\* fd_i2cm_device_io.  The shortcut after a receive is always the stop, and a
\* receive that is not the last one waits for the suspend that never comes: that
\* is a timeout, as is a start that never ends.  A missing acknowledge is an
\* error event: no stop follows it and the bus is not cleared.
AfterTransfer(x, receives, last) ==
    IF x.ack /\ (receives \/ last)
    THEN [x EXCEPT !.w = Stop(@), !.timeout = receives /\ ~last] ELSE x
TwimEnd(x) == [ok |-> x.ack /\ ~x.timeout, rx |-> x.rx, held |-> ~x.ack,
               w |-> IF x.timeout THEN ClearBus(x.w) ELSE x.w]
TwimIo(w, address, ts, stuck) ==
    LET transfer(x, i) ==
            IF ~x.ack \/ x.timeout THEN x
            ELSE AfterTransfer(TwimTransfer(x, address, ts[i]), ts[i].dir = "rx", i = Len(ts))
        begin == [w |-> w, ack |-> TRUE, rx |-> <<>>, timeout |-> stuck]
    IN TwimEnd(FoldLeft(transfer, begin, [i \in DOMAIN ts |-> i]))

-----------------------------------------------------------------------------
\* A behaviour uses one of the buses; they share nothing.
NoIo(bus) == [bus |-> bus, to |-> Address, transfers |-> <<>>, ok |-> TRUE, rx |-> <<>>, n |-> 0]
Report(bus, to, ts, ok, rx) ==
    io' = [bus |-> bus, to |-> to, transfers |-> ts, ok |-> ok, rx |-> rx, n |-> io.n + 1]

I2cEnable == io.bus = "i2c" /\ ~i2c.enabled /\ i2c' = [i2c EXCEPT !.enabled = TRUE] /\ UNCHANGED <<spi, io>>
I2cDisable ==
    /\ io.bus = "i2c" /\ i2c.enabled
    /\ i2c' = [i2c EXCEPT !.enabled = FALSE, !.w = SetSda(SetScl(@, 1), 1), !.held = FALSE]
    /\ UNCHANGED <<spi, io>>

I2cBitbang ==
    /\ io.bus = "i2c" /\ i2c.enabled /\ ~i2c.twim /\ io.n < MaxIo
    /\ \E c \in I2cCalls : \E r \in {BitbangIo(i2c.w, c.to, c.transfers)} :
        i2c' = [i2c EXCEPT !.w = r.w] /\ Report("i2c", c.to, c.transfers, r.ok, r.rx)
    /\ UNCHANGED spi
I2cPeripheral ==
    /\ io.bus = "i2c" /\ i2c.enabled /\ i2c.twim /\ io.n < MaxIo
    /\ \E c \in I2cCalls, stuck \in {FALSE, i2c.held} :
       \E r \in {TwimIo(i2c.w, c.to, c.transfers, stuck)} :
        /\ i2c' = [i2c EXCEPT !.w = r.w, !.held = r.held]
        /\ Report("i2c", c.to, c.transfers, r.ok, r.rx)
    /\ UNCHANGED spi

-----------------------------------------------------------------------------
(* SPI.  A device answers the k-th octet of a frame with Answer(k), and      *)
(* remembers the frame it saw; it looks at the wires while it is selected.   *)

Answer(k) == (3 * k + 1) % 2 ^ BitsOfOctet
Clock(s, octet) == [s EXCEPT !.seen = [d \in SpiDevices |-> IF s.csn[d] = "low" THEN Append(@[d], octet)
                                                            ELSE @[d]]]
Miso(s) ==
    LET on == {d \in SpiDevices : s.csn[d] = "low"}
    IN IF on = {} THEN 2 ^ BitsOfOctet - 1 ELSE Answer(Len(s.seen[CHOOSE d \in on : TRUE]) + 1)

\* fd_spim_transfer_bit_bang: bit by bit, the most significant one first, zeros
\* once tx has been sent, what comes after rx has been received is dropped.
TransferBitBang(s, tx, rx) ==
    LET octet(x, i) ==
            LET out == Value(Bits(IF i <= Len(tx) THEN tx[i] ELSE 0))
                in == Value(Bits(Miso(x.s)))
            IN [s |-> Clock(x.s, out), rx |-> IF i <= rx THEN Append(x.rx, in) ELSE x.rx]
    IN FoldLeft(octet, [s |-> s, rx |-> <<>>],
                [i \in 1..(IF Len(tx) > rx THEN Len(tx) ELSE rx) |-> i])

\* fd_spim_transfer_peripheral: both pointers advance by what was transferred.
RECURSIVE TransferPeripheral(_, _, _)
TransferPeripheral(s, tx, rx) ==
    LET txAmount == IF Len(tx) > Chunk THEN Chunk ELSE Len(tx)
        rxAmount == IF rx > Chunk THEN Chunk ELSE rx
        part == TransferBitBang(s, SubSeq(tx, 1, txAmount), rxAmount)
        rest == TransferPeripheral(part.s, SubSeq(tx, txAmount + 1, Len(tx)), rx - rxAmount)
    IN IF tx = <<>> /\ rx = 0 THEN [s |-> s, rx |-> <<>>]
       ELSE [s |-> rest.s, rx |-> part.rx \o rest.rx]

Transfer(s, tx, rx) ==
    IF ~s.instance \/ (Len(tx) <= 1 /\ rx <= 1) THEN TransferBitBang(s, tx, rx)
    ELSE TransferPeripheral(s, tx, rx)

BusIo(s, ts) ==
    FoldLeft(LAMBDA x, t : LET r == Transfer(x.s, t.tx, t.rx) IN [s |-> r.s, rx |-> x.rx \o r.rx],
             [s |-> s, rx |-> <<>>], ts)

DeviceSelect(s, d) == [s EXCEPT !.csn[d] = "low", !.seen = [e \in SpiDevices |-> <<>>]]
DeviceDeselect(s, d) == [s EXCEPT !.csn[d] = "high"]
DeviceIo(s, d, ts) ==
    LET r == BusIo(DeviceSelect(s, d), ts) IN [s |-> DeviceDeselect(r.s, d), rx |-> r.rx]

\* fd_spim_initialize, with the bus disabled in the end.
SpiInitialize(instance, power_off) ==
    [instance |-> instance, power_off |-> power_off, enabled |-> FALSE,
     csn |-> [d \in SpiDevices |-> IF power_off THEN "default" ELSE "high"],
     clock |-> IF power_off THEN "default" ELSE "low",
     seen |-> [d \in SpiDevices |-> <<>>]]

SpiEnable ==
    /\ io.bus = "spi" /\ ~spi.enabled
    /\ spi' = [spi EXCEPT !.enabled = TRUE, !.clock = "low",
                          !.csn = IF spi.power_off THEN [d \in SpiDevices |-> "high"] ELSE @]
    /\ UNCHANGED <<i2c, io>>
SpiDisable ==
    /\ io.bus = "spi" /\ spi.enabled
    /\ spi' = [spi EXCEPT !.enabled = FALSE, !.clock = IF spi.power_off THEN "default" ELSE "low",
                          !.csn = IF spi.power_off THEN [d \in SpiDevices |-> "default"] ELSE @]
    /\ UNCHANGED <<i2c, io>>
SpiIo ==
    /\ io.bus = "spi" /\ spi.enabled /\ io.n < MaxIo
    /\ \E c \in SpiCalls :
        LET r == DeviceIo(spi, c.to, c.transfers)
        IN spi' = r.s /\ Report("spi", c.to, c.transfers, TRUE, r.rx)
    /\ UNCHANGED i2c

Init ==
    /\ \E twim \in BOOLEAN :
        i2c = [twim |-> twim, enabled |-> FALSE, held |-> FALSE,
               w |-> ClearBus([scl |-> 1, sda |-> 1, d |-> NewDevice])]
    /\ \E instance \in BOOLEAN, power_off \in BOOLEAN : spi = SpiInitialize(instance, power_off)
    /\ \E bus \in {"i2c", "spi"} : io = NoIo(bus)

Next ==
    \/ I2cEnable \/ I2cDisable \/ I2cBitbang \/ I2cPeripheral
    \/ SpiEnable \/ SpiDisable \/ SpiIo

-----------------------------------------------------------------------------
(* Properties. *)

\* What transfers ts mean to a device in state [ptr, cells], its room apart.
\* A write starts with the pointer; one that goes on does not.
RECURSIVE Meaning(_, _, _)
Meaning(d, ts, i) ==
    LET t == ts[i]
        goes_on == i > 1 /\ ts[i - 1].dir = "tx" /\ ~i2c.twim
        bytes == IF goes_on THEN t.bytes ELSE Tail(t.bytes)
        start == IF goes_on THEN d.ptr ELSE t.bytes[1] % Cells
        cell(c) == LET k == {j \in DOMAIN bytes : (start + j - 1) % Cells = c}
                   IN IF k = {} THEN d.cells[c] ELSE bytes[CHOOSE j \in k : \A l \in k : l <= j]
        written == [ptr |-> (start + Len(bytes)) % Cells, cells |-> [c \in DOMAIN d.cells |-> cell(c)],
                    rx |-> d.rx]
        read == [d EXCEPT !.ptr = (@ + t.count) % Cells,
                          !.rx = @ \o [j \in 1..t.count |-> d.cells[(d.ptr + j - 1) % Cells]]]
    IN IF i > Len(ts) THEN d
       ELSE Meaning(IF t.dir = "tx" THEN written ELSE read, ts, i + 1)

\* A call that reports success did what it says, through the pins and through
\* the peripheral: the device on I2C has the octets written and the client the
\* octets read (fd_i2cm_device_io, fd_i2cm_bitbang_device_io), a device that was
\* not addressed has nothing; after a call both wires are high and the device saw the
\* stop, but for a call through the peripheral that a missing acknowledge ends (held:
\* fd_i2cm_device_io leaves the loop without a stop and without clearing the bus)
\* and, for the stop, the next call, which may find the peripheral stuck.
I2cFaithful ==
    io'.bus = "i2c" /\ io'.n > io.n =>
        LET d == i2c.w.d
            e == i2c'.w.d
            m == Meaning([ptr |-> d.ptr, cells |-> d.cells, rx |-> <<>>], io'.transfers, 1)
        IN /\ io'.ok => io'.to = Address /\ e.cells = m.cells /\ e.ptr = m.ptr /\ io'.rx = m.rx
           /\ io'.to # Address => ~io'.ok /\ e.cells = d.cells
           /\ ~i2c'.held => i2c'.w.scl = 1 /\ Line(i2c'.w) = 1
           /\ ~i2c.held /\ ~i2c'.held => e.mode = "idle"

\* The device that was selected saw the octets of the transfers, followed by
\* zeros while more is received, and nothing else; the client received what it
\* answered; no device stays selected (fd_spim_device_io, fd_spim_transfer).
SpiFaithful ==
    io'.bus = "spi" /\ io'.n > io.n =>
        LET padded(t) == t.tx \o [i \in 1..(IF t.rx > Len(t.tx) THEN t.rx - Len(t.tx) ELSE 0) |-> 0]
            frame == FlattenSeq([i \in DOMAIN io'.transfers |-> padded(io'.transfers[i])])
            before(i) == Len(FlattenSeq([j \in 1..(i - 1) |-> padded(io'.transfers[j])]))
            received(i) == [k \in 1..io'.transfers[i].rx |-> Answer(before(i) + k)]
        IN /\ spi'.seen[io'.to] = frame
           /\ \A d \in SpiDevices \ {io'.to} : spi'.seen[d] = <<>>
           /\ io'.rx = FlattenSeq([i \in DOMAIN io'.transfers |-> received(i)])
           /\ \A d \in SpiDevices : spi'.csn[d] = "high"

\* Both hold of every step.
FaithfulIo == I2cFaithful /\ SpiFaithful
=============================================================================
