----------------------------- MODULE MCDevices -----------------------------
(***************************************************************************)
(* The drivers of devices, for TLC: displays, the serial wire debug port,  *)
(* the I2C and SPI buses, storage on a card, Bluetooth, and pins.  A       *)
(* behaviour exercises one of them, chosen in the initial state; the       *)
(* variables of the others are absent from it.                             *)
(***************************************************************************)
EXTENDS Display, Ble

CONSTANTS OctetBits, TransferOctets, WindowOctets, MemoryOctets, AckRetries, RegisterRetries,
          Transfers, Delays, Upsets, MaxUpsets, MaxCalls

CONSTANTS BitsOfOctet, Address, Cells, I2cCalls, SpiCalls, TransferChunk, SpiDevices, MaxIo

CONSTANTS Blocks, Contents, Polls, Behaviours, Csd, MaxCardCalls

CONSTANTS PinCount, MaskBits, Frequencies, Duties, Masks, I2cOperations, MaxPinCalls

CONSTANTS PaperOctets, PaperRows, PaperBase, PaperAreas, Clearing, Peripherals, MaxPaperCalls

VARIABLES which,
          channel, target, upsets, calls, call,
          i2c, spi, io,
          sdcard, client, fat,
          pins, outside, pwm, i2cDevice, asked, result,
          paper, page, image

S == INSTANCE Swd
B == INSTANCE Buses WITH Chunk <- TransferChunk
X == INSTANCE Transfers
C == INSTANCE Card
P == INSTANCE Pins
D == INSTANCE Epaper

ASSUME PanelAssumption == D!PaperAssumption

swd == <<channel, target, upsets, calls, call>>
buses == <<i2c, spi, io>>
card == <<sdcard, client, fat>>
pinVars == <<pins, outside, pwm, i2cDevice, asked, result>>
paperVars == <<paper, page, image>>
allVars == <<which, display, drawn, swd, buses, card, bleVars, pinVars, paperVars>>

Absent == "absent"
NoDisplay == display = Absent /\ drawn = Absent
NoSwd == channel = Absent /\ target = Absent /\ upsets = 0 /\ calls = 0 /\ call = Absent
NoBuses == i2c = Absent /\ spi = Absent /\ io = Absent
NoCard == sdcard = Absent /\ client = Absent /\ fat = Absent
NoBle == BleInit /\ part = "host"
NoPins == /\ pins = Absent /\ outside = Absent /\ pwm = Absent /\ i2cDevice = Absent
          /\ asked = Absent /\ result = Absent
NoPaper == paper = Absent /\ page = Absent /\ image = Absent

MCInit ==
    \/ which = "bluetooth" /\ NoDisplay /\ NoSwd /\ NoBuses /\ NoCard /\ BleInit /\ NoPins /\ NoPaper
    \/ which = "card" /\ NoDisplay /\ NoSwd /\ NoBuses /\ C!Init /\ NoBle /\ NoPins /\ NoPaper
    \/ which = "buses" /\ NoDisplay /\ NoSwd /\ B!Init /\ NoCard /\ NoBle /\ NoPins /\ NoPaper
    \/ which = "swd" /\ NoDisplay /\ S!Init /\ NoBuses /\ NoCard /\ NoBle /\ NoPins /\ NoPaper
    \/ which = "pins" /\ NoDisplay /\ NoSwd /\ NoBuses /\ NoCard /\ NoBle /\ P!Init /\ NoPaper
    \/ which = "display" /\ Init /\ NoSwd /\ NoBuses /\ NoCard /\ NoBle /\ NoPins /\ NoPaper
    \/ which = "epaper" /\ NoDisplay /\ NoSwd /\ NoBuses /\ NoCard /\ NoBle /\ NoPins /\ D!Init

DisplayStep == which = "display" /\ Next /\ UNCHANGED <<which, swd, buses, card, bleVars, pinVars, paperVars>>
SwdStep == which = "swd" /\ S!Next /\ UNCHANGED <<which, displayVars, buses, card, bleVars, pinVars, paperVars>>
BusesStep == which = "buses" /\ B!Next /\ UNCHANGED <<which, displayVars, swd, card, bleVars, pinVars, paperVars>>
CardStep == which = "card" /\ C!Next /\ UNCHANGED <<which, displayVars, swd, buses, bleVars, pinVars, paperVars>>
BluetoothStep == which = "bluetooth" /\ BleNext /\ UNCHANGED <<which, displayVars, swd, buses, card, pinVars, paperVars>>
PinsStep == which = "pins" /\ P!Next /\ UNCHANGED <<which, displayVars, swd, buses, card, bleVars, paperVars>>
PaperStep == which = "epaper" /\ D!Next /\ UNCHANGED <<which, displayVars, swd, buses, card, bleVars, pinVars>>

MCNext == DisplayStep \/ SwdStep \/ BusesStep \/ CardStep \/ BluetoothStep \/ PinsStep \/ PaperStep

MCSpec == MCInit /\ [][MCNext]_allVars

-----------------------------------------------------------------------------
(* Properties. *)

\* Every call draws what it was asked to draw and nothing else, on every back
\* end, but for the deviations that Misdrawn lists (fd_graphics*.c); and the
\* electronic paper shows the images that were ended (fd_txdc042a1.c).
DisplayFaithful == [][/\ which = "display" => FaithfulDraw
                      /\ which = "epaper" => D!FaithfulPaper]_<<displayVars, paperVars>>

\* Every call on the debug port ends in the state of the target that the call
\* asks for, or reports an error (fd_swd.c).
SwdFaithful == [][which = "swd" => S!FaithfulCall]_swd

\* What a device on a bus takes and gives is what the client's transfers say
\* (fd_i2cm*.c, fd_spim*.c); and pins, their interrupts and the modulation are as
\* callers and the host asked for (fd_gpio_zephyr.c, fd_pwm_nrf5.c,
\* fd_rpc_server_hardware.c).
BusesFaithful == [][/\ which = "buses" => B!FaithfulIo
                    /\ which = "pins" => P!PinsFaithful]_<<buses, pinVars>>

\* The card holds what was written, and a volume is used as it was made
\* (fd_sdcard.c, fd_storage_fatfs.c).
StorageFaithful == [][which = "card" => C!FaithfulStorage]_card

-----------------------------------------------------------------------------
(* The pictures. *)

Color(a, r, g, b) == [a |-> a, r |-> r, g |-> g, b |-> b]
MCColors == {Color(128, 200, 100, 37), Color(255, 8, 64, 250)}
MCAreas == {Area(1, 1, 2, 1), Area(0, 0, 3, 2), Area(1, 0, 3, 3), Area(3, 1, 1, 2),
            Area(1, 1, 0, 1)}

Matrix(w, h, f(_, _)) == [p \in (0 .. w - 1) \X (0 .. h - 1) |-> f(p[1], p[2])]
MCImages ==
    {[width |-> 2, height |-> 3,
      pixel |-> Matrix(2, 3, LAMBDA x, y : Color(60 + (90 * x), 20 + (80 * x), 30 + (70 * y),
                                                 240 - (50 * x) - (60 * y)))]}

Bitmap(w, h, d, o, f(_, _)) ==
    [width |-> w, height |-> h, depth |-> d, origin |-> o, alpha |-> Matrix(w, h, f)]
Fine == Bitmap(2, 2, 2, <<0, 0>>, LAMBDA x, y : (1 + x + (2 * y)) % 4)
Coarse == Bitmap(1, 3, 1, <<0, 1>>, LAMBDA x, y : (y + 1) % 2)
MCBitmaps == {Fine, Coarse}
MCPlaces == {<<0, 0>>, <<1, 1>>, <<2, 1>>}
MCFont == [advance |-> 1,
           glyphs |-> <<[character |-> "i", advance |-> 1, bitmap |-> Coarse],
                        [character |-> "o", advance |-> 2, bitmap |-> Fine]>>]
MCStrings == {<<"i", "o">>, <<"o", "?", "i">>}
MCWindows == {Area(1, 0, 2, 2), Area(0, 0, 4, 1)}

MCPaperAreas == {Area(0, 0, 24, 6), Area(8, 1, 8, 3), Area(0, 4, 16, 2)}
MCPeripherals == {<<"nrf52", "NRF_SPIM1">>, <<"nrf53", "NRF_SPIM4_S">>}

(* The accesses to the memory of the debugged target. *)

At(address, data) == [address |-> address, data |-> data]
MCTransfers == {At(4, <<3, 0, 1, 2, 0, 1, 1, 0>>), At(20, <<2, 2, 0, 1>>), At(2, <<1, 1, 1, 1>>)}
Moments == 0..5 \cup {7, 13}
MCUpsets == [kind : {"noise", "parity", "wait"}, at : Moments, count : {1}]
                \cup [kind : {"wait"}, at : {0, 2, 5}, count : {2}]

(* The transfers on the buses. *)

To(d, ts) == [to |-> d, transfers |-> ts]
MCI2cCalls ==
    {To(1, X!DeviceTxn(<<1, 5>>)), To(1, X!SequenceTx1Tx1(0, 2)), To(1, X!SequenceTx1Rx1(1)),
     To(1, X!SequenceTxnRxn(<<0, 6, 3>>, 2)), To(1, X!DeviceRxn(2)),
     To(2, X!DeviceTxn(<<0>>)), To(2, X!DeviceRxn(1)),
     To(1, <<X!Rx(1), X!Tx(<<1, 7>>)>>),
     To(1, <<X!Tx(<<1>>), X!Tx(<<0, 4>>), X!Rx(1), X!Rx(2)>>)}
MCSpiCalls ==
    {To(d, ts) : d \in {1, 2},
                 ts \in {X!SpiTx1(5), X!SpiRxn(1), X!SpiRxn(5), X!SpiTxnRxn(<<1, 2, 3>>, 1),
                         X!SpiTxnRxn(<<6>>, 3), X!SpiTxnRxn(<<4>>, 1),
                         X!SpiSequenceTxnRxn(<<7, 5, 1>>, 3), X!SpiTxnRxn(<<7, 5, 1, 2, 3>>, 4)}}

(* The cards, and the controllers of Bluetooth. *)

MCBehaviours ==
    {[ncr |-> n, busy |-> b, fail |-> f[1], at |-> f[2]] :
        n \in {0, 2}, b \in {0, 2},
        f \in {<<"none", 0>>, <<"read", 0>>, <<"write", 0>>, <<"write", 1>>}}
MCCsd == <<64, 14, 0, 50, 91, 89, 0, 0, 237, 200, 127, 128, 10, 64, 64, 85>>
MCSoftDevices == [h \in {<<121, 163, 16, 190, 230, 128, 183>>, <<45, 121, 161, 200, 106, 64, 183>>} |-> h[1]]
MCHashes == DOMAIN MCSoftDevices \cup {<<1, 2, 3, 4, 5, 6, 7>>}

(* The pins, and what a host asks of them. *)

Hz(n, d) == [n |-> n, d |-> d]
MCFrequencies == {Hz(1000, 1), Hz(100, 1), Hz(4, 1), Hz(3, 1), Hz(15625, 32)}
MCDuties == {Hz(0, 1), Hz(1, 4), Hz(1, 1)}
MCMasks == {{0, 1}, {0, 2}}
Read(n) == [op |-> "read", length |-> n]
WriteOf(data) == [op |-> "write", data |-> data]
MCI2cOperations ==
    {<<WriteOf(<<1>>), Read(2)>>, <<Read(1), WriteOf(<<0, 7, 3>>), Read(1), WriteOf(<<2>>), Read(3)>>}
=============================================================================
