-------------------------------- MODULE Uart --------------------------------
(***************************************************************************)
(* The two serial drivers of subsys/base, fd_uart_zephyr.c and             *)
(* fd_uart_nrf5.c, and the events of fd_event.c with which their           *)
(* interrupts wake the main loop.  The byte fifos between thread and       *)
(* interrupt are the bounded queues that Fifo.tla shows them to be.        *)
(*                                                                         *)
(* The thread sends (fd_uart_instance_tx), processes events and reads what *)
(* arrived; the interrupts of the transmitter and of the receiver run      *)
(* between any two of its steps.  Bytes to send are numbered in the order  *)
(* the caller hands them over.                                             *)
(***************************************************************************)
EXTENDS Naturals, Sequences, SequencesExt

CONSTANTS
    TxFifoLimit,  \* bytes the transmit fifo holds
    RxFifoLimit,  \* bytes the receive fifo holds
    DmaLimit,     \* bytes handed to the hardware at once
    LineFormats,  \* what an instance asks of the line: [baud_rate, parity, stop_bits]
    MaxTx,        \* bound: bytes the callers send
    MaxRx,        \* bound: bytes that arrive
    MaxFaults     \* bound: aborted transmissions, receive errors and resets

VARIABLES
    driver,       \* "zephyr" or "nrf5"
    thread,       \* where the thread is in fd_uart_instance_tx or fd_event_process
    length,       \* bytes of the current call still to be put
    start,        \* zephyr: the fifo was empty when the call began
    tx_fifo,
    pending,      \* zephyr: is_tx_pending as 0 or 1; nRF5: bytes of the transfer
    dma,          \* tx_buffer, dma_data: what the hardware has still to send
    txdrdy,       \* nRF5: EVENTS_TXDRDY
    wire,         \* bytes that left the device
    accepted,     \* bytes taken from the callers
    rx_fifo,
    line,         \* how many bytes arrived
    is_rx_stopped,
    event,        \* items[].is_set of the receive and the transmit event
    seen,         \* the snapshot fd_event_process took
    faults,       \* aborted transmissions, receive errors, resets
    raced,        \* a call found bytes queued and the transmitter finished before its put
    merged        \* nRF5: two bytes were sent before the interrupt ran once

threadVars == <<thread, length, start, seen>>
rxVars == <<rx_fifo, line, is_rx_stopped>>
ghosts == <<faults, raced, merged>>
uartVars == <<driver, threadVars, tx_fifo, pending, dma, txdrdy, wire, accepted,
              rxVars, event, ghosts>>

zephyr == driver = "zephyr"
nrf5 == driver = "nrf5"
NoEvent == [tx |-> FALSE, rx |-> FALSE]
Terminator == 0   \* the byte that ends a COBS frame
Stale == 0        \* on the wire: a byte that was sent already

Init ==
    /\ driver \in {"zephyr", "nrf5"}
    /\ thread = "idle" /\ length = 0 /\ start = FALSE
    /\ tx_fifo = <<>> /\ pending = 0 /\ dma = <<>> /\ txdrdy = FALSE
    /\ wire = <<>> /\ accepted = 0
    /\ rx_fifo = <<>> /\ line = 0 /\ is_rx_stopped = FALSE
    /\ event = NoEvent /\ seen = NoEvent
    /\ faults = 0 /\ raced = FALSE /\ merged = FALSE

-----------------------------------------------------------------------------
(* The line: what fd_uart_instance_initialize of the nRF5 makes of the     *)
(* rate, the parity and the stop bits.  A register is the set of its bits. *)

Rates == <<1200, 2400, 4800, 9600, 14400, 19200, 28800, 31250, 38400, 56000, 57600, 76800,
           115200, 230400, 250000, 460800, 921600, 1000000>>

\* The first rate whose successor is above the rate asked for, else the last.
BaudRate(baud_rate) ==
    LET before == {i \in DOMAIN Rates \ {Len(Rates)} : baud_rate < Rates[i + 1]}
    IN IF before = {} THEN Last(Rates) ELSE Rates[CHOOSE i \in before : \A j \in before : i <= j]

\* CONFIG: parity is included with bits 1 to 3, a second stop bit with bit 4.
\* The type of the parity, 1 for odd, belongs at bit 8 and is shifted to bit 1.
Included == {1, 2, 3}
OddShifted == {1}
Config(parity, stop_bits) ==
    (CASE parity = "none" -> {} [] parity = "even" -> Included [] parity = "odd" -> Included \cup OddShifted)
        \cup IF stop_bits = 2 THEN {4} ELSE {}

\* What the peripheral makes of the register.
OnLine(config) ==
    [parity |-> IF ~(Included \subseteq config) THEN "none" ELSE IF 8 \in config THEN "odd" ELSE "even",
     stop_bits |-> IF 4 \in config THEN 2 ELSE 1]

-----------------------------------------------------------------------------
(* Starting the transmitter, from the thread or from the interrupt.        *)

\* The bytes the fifo gives up for one transfer, and what stays.
Taken == SubSeq(tx_fifo, 1, IF Len(tx_fifo) < DmaLimit THEN Len(tx_fifo) ELSE DmaLimit)
Kept == SubSeq(tx_fifo, Len(Taken) + 1, Len(tx_fifo))

\* fd_uart_info_rx_start: a stopped receiver is started again, its fifo emptied.
fd_uart_info_rx_start ==
    IF is_rx_stopped THEN rx_fifo' = <<>> /\ is_rx_stopped' = FALSE
    ELSE UNCHANGED <<rx_fifo, is_rx_stopped>>

\* The part of fd_uart_info_tx_start after the wait for is_tx_pending.
fd_uart_info_tx_start ==
    /\ tx_fifo' = Kept
    /\ IF Taken # <<>>
       THEN dma' = Taken /\ pending' = 1 /\ UNCHANGED event
       ELSE event' = [event EXCEPT !.tx = TRUE] /\ pending' = 0 /\ dma' = <<>>

\* nRF5: the same, without a completion event of its own.
fd_uart_tx_set_next_dma_buffer ==
    /\ tx_fifo' = Kept
    /\ IF Taken # <<>> THEN dma' = Taken /\ pending' = Len(Taken)
       ELSE UNCHANGED dma /\ pending' = 0

-----------------------------------------------------------------------------
(* fd_uart_instance_tx.                                                    *)

TxBegin(n) ==
    /\ thread = "idle"
    /\ accepted + n <= MaxTx
    /\ length' = n
    /\ start' = (zephyr /\ tx_fifo = <<>>)
    /\ thread' = "put"
    /\ UNCHANGED <<driver, seen, tx_fifo, pending, dma, txdrdy, wire, accepted,
                   rxVars, event, ghosts>>

\* One fd_fifo_put; a full fifo ends the call's loop.
TxPut ==
    /\ thread = "put" /\ length > 0
    /\ IF Len(tx_fifo) < TxFifoLimit
       THEN /\ tx_fifo' = Append(tx_fifo, accepted + 1)
            /\ accepted' = accepted + 1
            /\ length' = length - 1
       ELSE length' = 0 /\ UNCHANGED <<tx_fifo, accepted>>
    /\ raced' = (raced \/ (zephyr /\ ~start /\ pending = 0))
    /\ UNCHANGED <<driver, thread, start, seen, pending, dma, txdrdy, wire, rxVars, event,
                   faults, merged>>

\* The code after the loop of fd_uart_instance_tx.
TxPutDone ==
    /\ thread = "put" /\ length = 0
    /\ LET starts == (zephyr /\ start) \/ (nrf5 /\ pending = 0)
       IN /\ thread' = IF starts THEN "start" ELSE "idle"
          /\ IF starts THEN fd_uart_info_rx_start ELSE UNCHANGED <<rx_fifo, is_rx_stopped>>
    /\ UNCHANGED <<driver, length, start, seen, tx_fifo, pending, dma, txdrdy, wire, accepted,
                   line, event, ghosts>>

\* Mutant: the thread does not wait for the transfer before it fills the buffer.
StartsAtOnce == TRUE

\* The zephyr driver spins in fd_uart_info_tx_flush until the transfer is over.
MayStart == zephyr => pending = 0

TxStart ==
    /\ thread = "start"
    /\ MayStart
    /\ IF zephyr THEN fd_uart_info_tx_start
       ELSE fd_uart_tx_set_next_dma_buffer /\ UNCHANGED event
    /\ thread' = "idle"
    /\ UNCHANGED <<driver, length, start, seen, txdrdy, wire, accepted, rxVars, ghosts>>

\* fd_uart_instance_reset: fd_fifo_flush sets the head of the transmit fifo to
\* 0 and then the tail: an interrupt in between takes bytes sent before.
ResetHead ==
    /\ zephyr /\ thread = "idle"
    /\ faults < MaxFaults
    /\ rx_fifo' = <<>>
    /\ tx_fifo' = IF accepted > 0 THEN <<Stale>> ELSE <<>>
    /\ thread' = "reset"
    /\ faults' = faults + 1
    /\ UNCHANGED <<driver, length, start, seen, pending, dma, txdrdy, wire, accepted, line,
                   is_rx_stopped, event, raced, merged>>

ResetTail ==
    /\ thread = "reset"
    /\ tx_fifo' = <<>>
    /\ thread' = "idle"
    /\ UNCHANGED <<driver, length, start, seen, pending, dma, txdrdy, wire, accepted, rxVars,
                   event, ghosts>>

-----------------------------------------------------------------------------
(* The transmitter and its interrupt.                                      *)

\* Mutant: the end of a transfer does not start the next.
TxDoneOnly ==
    /\ zephyr /\ pending = 1 /\ dma # <<>>
    /\ wire' = wire \o dma /\ dma' = <<>> /\ pending' = 0
    /\ UNCHANGED <<driver, threadVars, tx_fifo, txdrdy, accepted, rxVars, event, ghosts>>

\* zephyr: the transfer is over, UART_TX_DONE is handled in the interrupt.
fd_uart_callback_tx_done ==
    /\ zephyr /\ pending = 1 /\ dma # <<>>
    /\ wire' = wire \o dma
    /\ fd_uart_info_rx_start
    /\ fd_uart_info_tx_start
    /\ UNCHANGED <<driver, threadVars, txdrdy, accepted, line, ghosts>>

\* UART_TX_ABORTED is counted and nothing else: the transfer stays pending.
TxAborted ==
    /\ zephyr /\ pending = 1 /\ dma # <<>>
    /\ faults < MaxFaults
    /\ dma' = <<>>
    /\ faults' = faults + 1
    /\ UNCHANGED <<driver, threadVars, tx_fifo, pending, txdrdy, wire, accepted, rxVars, event,
                   raced, merged>>

\* nRF5: a byte leaves the device and EVENTS_TXDRDY is set, set or not before.
TransmitByte ==
    /\ nrf5 /\ dma # <<>>
    /\ wire' = Append(wire, Head(dma)) /\ dma' = Tail(dma)
    /\ merged' = (merged \/ txdrdy)
    /\ txdrdy' = TRUE
    /\ UNCHANGED <<driver, threadVars, tx_fifo, pending, accepted, rxVars, event, faults, raced>>

\* nRF5: the TXDRDY part of fd_uart_serial_handler.
fd_uart_serial_handler_tx ==
    /\ nrf5 /\ txdrdy
    /\ txdrdy' = FALSE
    /\ IF pending = 1
       THEN /\ fd_uart_tx_set_next_dma_buffer
            /\ event' = [event EXCEPT !.tx = @ \/ Taken = <<>>]
       ELSE pending' = pending - 1 /\ UNCHANGED <<tx_fifo, dma, event>>
    /\ UNCHANGED <<driver, threadVars, wire, accepted, rxVars, ghosts>>

-----------------------------------------------------------------------------
(* The receiver and its interrupt.                                         *)

Stored(byte) == IF Len(rx_fifo) < RxFifoLimit THEN Append(rx_fifo, byte) ELSE rx_fifo

\* fd_uart_callback_rx_rdy: the zephyr driver sets the event for every byte,
\* the nRF5 driver for the byte that ends a frame.  The nRF5 driver starts the
\* receiver before it has given it a buffer: the first byte is stored nowhere
\* and the 0 of the unused buffer is queued for it.
Receive(byte) ==
    /\ line < MaxRx /\ ~is_rx_stopped
    /\ line' = line + 1
    /\ LET queued == IF nrf5 /\ line = 0 THEN Terminator ELSE byte
       IN /\ rx_fifo' = Stored(queued)
          /\ event' = [event EXCEPT !.rx = @ \/ zephyr \/ queued = Terminator]
    /\ UNCHANGED <<driver, threadVars, tx_fifo, pending, dma, txdrdy, wire, accepted,
                   is_rx_stopped, ghosts>>

\* UART_RX_STOPPED: nothing more arrives until something is sent.
fd_uart_callback_rx_stopped ==
    /\ zephyr /\ ~is_rx_stopped
    /\ faults < MaxFaults
    /\ is_rx_stopped' = TRUE
    /\ faults' = faults + 1
    /\ UNCHANGED <<driver, threadVars, tx_fifo, pending, dma, txdrdy, wire, accepted, rx_fifo,
                   line, event, raced, merged>>

-----------------------------------------------------------------------------
(* The main loop.                                                          *)

\* fd_event_process up to fd_interrupt_enable: the events are copied and
\* cleared with interrupts disabled.
fd_event_process ==
    /\ thread = "idle"
    /\ event # NoEvent
    /\ seen' = event /\ event' = NoEvent
    /\ thread' = "callbacks"
    /\ UNCHANGED <<driver, length, start, tx_fifo, pending, dma, txdrdy, wire, accepted, rxVars,
                   ghosts>>

\* The callback of the receive event: fd_uart_instance_rx until nothing is left.
fd_uart_instance_rx ==
    /\ thread = "callbacks" /\ seen.rx
    /\ rx_fifo # <<>>
    /\ rx_fifo' = Tail(rx_fifo)
    /\ UNCHANGED <<driver, threadVars, tx_fifo, pending, dma, txdrdy, wire, accepted, line,
                   is_rx_stopped, event, ghosts>>

CallbacksDone ==
    /\ thread = "callbacks"
    /\ seen.rx => rx_fifo = <<>>
    /\ thread' = "idle" /\ seen' = NoEvent
    /\ UNCHANGED <<driver, length, start, tx_fifo, pending, dma, txdrdy, wire, accepted, rxVars,
                   event, ghosts>>

Thread == \/ TxPut \/ TxPutDone \/ TxStart \/ ResetTail
          \/ fd_event_process \/ fd_uart_instance_rx \/ CallbacksDone

Interrupts == fd_uart_callback_tx_done \/ TransmitByte \/ fd_uart_serial_handler_tx

Environment == \/ ResetHead \/ TxAborted \/ fd_uart_callback_rx_stopped
               \/ \E n \in 1 .. TxFifoLimit : TxBegin(n)
               \/ \E byte \in {Terminator, 1} : Receive(byte)

Next == Thread \/ Interrupts \/ Environment

Spec == Init /\ [][Next]_uartVars

\* The thread runs, transfers end and interrupts are taken.
Fairness == WF_uartVars(Thread) /\ WF_uartVars(Interrupts)

FairSpec == Spec /\ Fairness

-----------------------------------------------------------------------------
UartTypeOK ==
    /\ thread \in {"idle", "put", "start", "reset", "callbacks"}
    /\ Len(tx_fifo) <= TxFifoLimit /\ Len(rx_fifo) <= RxFifoLimit /\ Len(dma) <= DmaLimit

\* Until the fifos are reset or a transfer is aborted, what was sent, is being
\* sent and waits to be sent is what the callers handed over, in that order
\* and nothing twice: the thread and the interrupt, which both take bytes from
\* the transmit fifo and both fill the transfer buffer, never do so at once.
SentInOrder ==
    faults = 0 => wire \o dma \o tx_fifo = [i \in 1 .. accepted |-> i]

\* The line has the highest rate of the peripheral that is not above the one
\* asked for, and the parity and stop bits asked for, except that odd parity
\* comes out even (fd_uart_nrf5.c:297).
LineIsAsAsked ==
    \A f \in LineFormats :
        LET slower == {r \in Range(Rates) : r <= f.baud_rate}
            made == OnLine(Config(f.parity, f.stop_bits))
        IN /\ slower # {} => BaudRate(f.baud_rate) \in slower
           /\ \A r \in slower : r <= BaudRate(f.baud_rate)
           /\ made.parity = (IF f.parity = "odd" THEN "even" ELSE f.parity)
           /\ made.stop_bits = f.stop_bits

\* Queued bytes are sent, unless one of three things the drivers do not handle
\* has happened: the zephyr transmitter ran dry between the emptiness test of
\* fd_uart_instance_tx and its put, a transfer was aborted (or the fifos
\* reset), or the nRF5 interrupt came too late for two bytes.
QueuedIsSent ==
    (tx_fifo # <<>>) ~> (tx_fifo = <<>> \/ raced \/ merged \/ faults > 0)

\* A frame that has arrived completely is read: the event is cleared before
\* its callbacks run, so a byte that comes in meanwhile sets it again.
FrameIsRead ==
    (Terminator \in ToSet(rx_fifo)) ~>
        (Terminator \notin ToSet(rx_fifo) \/ faults > 0)
=============================================================================
