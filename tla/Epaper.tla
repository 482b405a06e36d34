------------------------------- MODULE Epaper -------------------------------
(***************************************************************************)
(* The electronic paper display: fd_txdc042a1.c over its SPI bus           *)
(* (fd_txdc042a1_bus_4_wire_spi_nrf5.c).                                   *)
(*                                                                         *)
(* A call is one step.  s is the state it works on: the peripheral of the  *)
(* bus, the panel and the number of failed fd_asserts.  The panel is       *)
(* external: it takes octets while it is selected and not busy, stores     *)
(* them in its window backwards, as the data entry mode says, and shows    *)
(* what it has stored when it is activated.                                *)
(***************************************************************************)
EXTENDS Integers, Sequences, SequencesExt, TLC

CONSTANTS
    PaperOctets,  \* the octets of a row: 400 / 8 in the code
    PaperRows,    \* the rows: 300 in the code
    PaperBase,    \* the values of an octet: 256 in the code
    PaperAreas,   \* the areas to write, records [x, y, width, height]
    Clearing,     \* whether fd_txdc042a1_clear_on_initialize is defined: a set of values
    Peripherals,  \* what fd_txdc042a1_bus_4_wire_spi_configure is given: pairs <<series, name>>
    MaxPaperCalls

\* The low part of a row differs from the row, as it does for 299.
PaperAssumption == PaperOctets \in 1..PaperBase /\ PaperRows \in 1..(PaperBase * PaperBase)

VARIABLES paper, page, image

paperVars == <<paper, page, image>>

LastOctet == PaperOctets - 1     \* 49
LastRow == PaperRows - 1         \* 299
PaperCells == (0..LastOctet) \X (0..LastRow)

SWRESET == \h12
SET_X_WINDOW == \h44
SET_Y_WINDOW == \h45
SET_X_COUNTER == \h4E
SET_Y_COUNTER == \h4F
WRITE_RAM == \h24
WRITE_LUT == \h32
ENTRY_MODE == \h11
MASTER_ACTIVATION == \h20

-----------------------------------------------------------------------------
(* The panel. *)

Unknown == -1
ResetPanel(p) ==
    [p EXCEPT !.op = 0, !.args = <<>>, !.mode = 3, !.x = <<0, LastOctet>>, !.y = <<0, LastRow>>,
              !.at = <<0, 0>>, !.lut = <<>>]
NewPaper ==
    ResetPanel([selected |-> FALSE, data |-> TRUE, busy |-> FALSE, op |-> 0, args |-> <<>>, mode |-> 3,
                x |-> <<>>, y |-> <<>>, at |-> <<>>, lut |-> <<>>,
                ram |-> [c \in PaperCells |-> Unknown], shown |-> [c \in PaperCells |-> Unknown]])

PaperCommand(p, octet) ==
    CASE octet = SWRESET -> [ResetPanel(p) EXCEPT !.busy = TRUE]
      [] octet = MASTER_ACTIVATION -> [p EXCEPT !.op = octet, !.args = <<>>, !.shown = p.ram, !.busy = TRUE]
      [] OTHER -> [p EXCEPT !.op = octet, !.args = <<>>]

Pair(low, high) == low + PaperBase * high
PaperArgument(p, a) ==
    CASE p.op = SET_X_WINDOW /\ Len(a) = 2 -> [p EXCEPT !.args = a, !.x = a]
      [] p.op = SET_Y_WINDOW /\ Len(a) = 4 ->
           [p EXCEPT !.args = a, !.y = <<Pair(a[1], a[2]), Pair(a[3], a[4])>>]
      [] p.op = SET_X_COUNTER /\ Len(a) = 1 -> [p EXCEPT !.args = a, !.at[1] = a[1]]
      [] p.op = SET_Y_COUNTER /\ Len(a) = 2 -> [p EXCEPT !.args = a, !.at[2] = Pair(a[1], a[2])]
      [] p.op = ENTRY_MODE -> [p EXCEPT !.args = a, !.mode = a[1]]
      [] p.op = WRITE_LUT -> [p EXCEPT !.args = a, !.lut = a]
      [] OTHER -> [p EXCEPT !.args = a]

\* The counters move along x and then along y, down in mode 0 and up in mode 3.
NextCell(p) ==
    LET by == IF p.mode = 0 THEN -1 ELSE 1
    IN IF p.at[1] # p.x[2] THEN <<p.at[1] + by, p.at[2]>>
       ELSE <<p.x[1], IF p.at[2] = p.y[2] THEN p.y[1] ELSE p.at[2] + by>>

PaperStores(p, octet) ==
    [p EXCEPT !.ram = [c \in PaperCells |-> IF c = p.at THEN octet ELSE @[c]], !.at = NextCell(p)]

\* Octets that follow each other on the bus with the same lines.
PaperReceives(p, octets) ==
    IF p.busy \/ ~p.selected THEN p
    ELSE IF ~p.data THEN PaperCommand(p, Last(octets))
    ELSE IF p.op = WRITE_RAM THEN FoldLeft(PaperStores, p, octets)
    ELSE PaperArgument(p, p.args \o octets)

-----------------------------------------------------------------------------
(* The bus. *)

\* The peripherals that a series of processors has.
Spims ==
    [nrf52 |-> {"NRF_SPIM0", "NRF_SPIM1", "NRF_SPIM2", "NRF_SPIM3"},
     nrf53 |-> {"NRF_SPIM0_S", "NRF_SPIM1_S", "NRF_SPIM2_S", "NRF_SPIM3_S", "NRF_SPIM4_S"}]

PaperCheck(s, ok) == IF ok THEN s ELSE [s EXCEPT !.asserts = @ + 1]

\* memset, then the peripheral of the name, which must be one of the series.
bus_initialize(s, series, name) ==
    PaperCheck([s EXCEPT !.spim = IF name \in Spims[series] THEN name ELSE "none"], name \in Spims[series])

\* Returns when the peripheral has sent the octets; without one nothing is sent.
bus_write(s, octets) ==
    IF s.spim = "none" THEN s ELSE [s EXCEPT !.panel = PaperReceives(@, octets)]

-----------------------------------------------------------------------------
(* The driver. *)

\* Spins while the panel is busy.
cs_enable(s) == [s EXCEPT !.panel.busy = FALSE, !.panel.selected = TRUE]
cs_disable(s) == [s EXCEPT !.panel.selected = FALSE]
command_mode(s) == [s EXCEPT !.panel.data = FALSE]
data_mode(s) == [s EXCEPT !.panel.data = TRUE]

write_command(s, command) == cs_disable(bus_write(cs_enable(command_mode(s)), <<command>>))

\* fd_txdc042a1_write_data for each octet.  The panel gets busy by commands only,
\* so the octets can be taken together.
write_data(s, data) == cs_disable(bus_write(cs_enable(data_mode(s)), data))

\* A command with its data.
write(s, command, data) == write_data(write_command(s, command), data)

Low(v) == v % PaperBase
High(v) == (v \div PaperBase) % PaperBase

reset(s) == write_command([s EXCEPT !.panel = ResetPanel(@)], SWRESET)

set_x_window(s, start, count) ==
    LET first == LastOctet - start \div 8
        last == LastOctet - ((start + count) \div 8 - 1)
        checked == PaperCheck(PaperCheck(PaperCheck(s, count > 0), start % 8 = 0), count % 8 = 0)
    IN write(write(checked, SET_X_WINDOW, <<Low(first), Low(last)>>), SET_X_COUNTER, <<Low(first)>>)

set_y_window(s, start, count) ==
    LET first == LastRow - start
        last == LastRow - (start + count - 1)
    IN write(write(PaperCheck(s, count > 0), SET_Y_WINDOW, <<Low(first), High(first), Low(last), High(last)>>),
             SET_Y_COUNTER, <<Low(first), High(first)>>)

\* Five waveforms of seven levels, then seven phases of four times and a
\* number of repeats; what is not said is zero.
Padded(row, n) == [i \in 1..n |-> IF i \in DOMAIN row THEN row[i] ELSE 0]
lut_data ==
    LET levels == <<<<\h08, \h48, \h40>>, <<\h08, \h48>>, <<\h48, \h48, \h40>>, <<\h48, \h48>>, <<>>>>
        times == <<<<\h0F, 1, \h0F, 1>>, <<\h0F, 1, \h0F, 1>>, <<\h0F, 1>>, <<>>, <<>>, <<>>, <<>>>>
    IN FlattenSeq([i \in 1..5 |-> Padded(levels[i], 7)] \o [i \in 1..7 |-> Padded(times[i], 5)])

write_lut(s) == write(s, WRITE_LUT, lut_data)

\* Only if fd_txdc042a1_clear_on_initialize is defined.
fill(s) ==
    LET counters == write(write(s, SET_X_COUNTER, <<LastOctet>>), SET_Y_COUNTER, <<Low(LastRow), High(LastRow)>>)
        zeros == [i \in 1..(PaperOctets * PaperRows) |-> 0]
    IN IF s.clear THEN write_command(write(counters, WRITE_RAM, zeros), MASTER_ACTIVATION) ELSE s

\* The voltages, times and options that the panel only keeps.
BlockControl == <<<<\h74, \h54>>, <<\h7E, \h3B>>>>
Booster == <<<<\h0C, \h8B, \h9C, \hD6, \h0F>>, <<\h3A, \h2C>>, <<\h3B, \h0A>>, <<\h3C, \h03>>>>
Voltages == <<<<\h2C, \h4C>>, <<\h37, 0, 0, 0, 0, \h80>>>>
Update == <<<<\h21, \h40>>, <<\h22, \hC7>>>>
AfterFill == <<<<\h21, 0>>, <<\h3C, \hC0>>>>
writes(s, commands) == FoldLeft(LAMBDA t, c : write(t, Head(c), Tail(c)), s, commands)

DriverOutput == <<<<\h01, Low(LastRow), High(LastRow), 0>>>>
Entry ==
    <<<<ENTRY_MODE, 0>>, <<SET_X_WINDOW, LastOctet, 0>>, <<SET_Y_WINDOW, Low(LastRow), High(LastRow), 0, 0>>>>

send_init_sequence(s) ==
    LET configured == writes(reset(s), BlockControl \o DriverOutput \o Booster \o Entry \o Voltages)
    IN writes(fill(writes(write_lut(configured), Update)), AfterFill)

\* fd_txdc042a1_write_image_start, _subdata, _end.
write_image_start(s, x, y, width, height) ==
    LET checked == PaperCheck(PaperCheck(PaperCheck(PaperCheck(s, x >= 0), y >= 0), width > 0), height > 0)
    IN write_command(set_y_window(set_x_window(checked, x, width), y, height), WRITE_RAM)
write_image_subdata(s, data) == write_data(s, data)
write_image_end(s) == write_command(s, MASTER_ACTIVATION)

\* The lines rest deselected and in data mode, after a pulse on each.
initialize(s, series, name) ==
    send_init_sequence(bus_initialize(data_mode(cs_disable([s EXCEPT !.panel = ResetPanel(@)])), series, name))

-----------------------------------------------------------------------------
(* The calls: page is what the caller has written, image what it writes.    *)

NewCall(s, p, i) == image.n < MaxPaperCalls /\ paper' = s /\ page' = p /\ image' = i @@ [n |-> image.n + 1]

Init ==
    /\ \E clear \in Clearing :
          paper = [panel |-> NewPaper, spim |-> "none", clear |-> clear, asserts |-> 0]
    /\ page = [c \in PaperCells |-> Unknown]
    /\ image = [op |-> "none", left |-> 0, n |-> 0]

\* At the start, and again at any time.
Initialize ==
    \E p \in Peripherals :
        NewCall(initialize(paper, p[1], p[2]),
                IF paper.clear THEN [c \in PaperCells |-> 0] ELSE page,
                [op |-> "initialize", left |-> 0])

StartImage ==
    /\ image.op # "none"
    /\ \E a \in PaperAreas :
          NewCall(write_image_start(paper, a.x, a.y, a.width, a.height), page,
                  [op |-> "start", area |-> a, at |-> 0, left |-> (a.width \div 8) * a.height])

\* The caller writes what is left of the image, or a first part of it.
ImageCell(a, i) == <<a.x \div 8 + (i % (a.width \div 8)), a.y + (i \div (a.width \div 8))>>
WriteData ==
    /\ image.left > 0
    /\ \E n \in {1, 3, image.left} :
          /\ n <= image.left
          /\ LET a == image.area
                 data == [i \in 1..n |-> 7 * image.n + i]
                 index(c) == CHOOSE i \in 1..n : ImageCell(a, image.at + i - 1) = c
                 written == {ImageCell(a, image.at + i - 1) : i \in 1..n}
             IN NewCall(write_image_subdata(paper, data),
                        [c \in PaperCells |-> IF c \in written THEN data[index(c)] ELSE page[c]],
                        [op |-> "data", area |-> a, at |-> image.at + n, left |-> image.left - n])

EndImage ==
    /\ image.op \in {"start", "data"}
    /\ NewCall(write_image_end(paper), page, [op |-> "end", left |-> 0])

Next == Initialize \/ StartImage \/ WriteData \/ EndImage

-----------------------------------------------------------------------------
\* What is seen: the panel is mounted with its last cell at the origin.
SeenCell(c) == paper.panel.shown[<<LastOctet - c[1], LastRow - c[2]>>]

\* The panel shows what was written up to the last end of an image, each octet
\* where its image is; an image that is not ended, an image that was given up
\* and an initialization change nothing that is seen, unless it clears.  All of
\* the waveforms are in the panel, which is left deselected and in mode 0.
FaithfulPaper ==
    /\ paper'.asserts = 0 /\ ~paper'.panel.selected
    /\ paper'.panel.lut = lut_data /\ Len(lut_data) = 70 /\ paper'.panel.mode = 0
    /\ \A c \in PaperCells :
          SeenCell(c)' = IF image'.op = "end" \/ (image'.op = "initialize" /\ paper.clear)
                         THEN page'[c] ELSE SeenCell(c)
=============================================================================
