-------------------------------- MODULE Usb ---------------------------------
(***************************************************************************)
(* The USB device: its status (fd_usb.c) and its serial port               *)
(* (fd_usb_cdc.c).                                                         *)
(*                                                                         *)
(* The callback of the serial driver moves octets into a ring, a timer     *)
(* polls DTR and submits a work that answers the host and reports to the   *)
(* application, and the application reads the ring in the callback         *)
(* rx_ready or in a thread of its own.  The driver's callback runs in a    *)
(* cooperative work queue: no thread runs between two of its rounds.       *)
(***************************************************************************)
EXTENDS Integers, Sequences

CONSTANTS
    RingSize,   \* RING_BUF_SIZE, 1024
    BatchSize,  \* the octets that the callback takes in a round, 64
    ReadSizes,  \* the sizes with which the application reads
    TxRoom,     \* what the driver takes of what is to be sent
    UsbReaders, \* where the application reads: a subset of {"callback", "thread"}
    MaxUsbEvents \* how often the host and the application do something

UsbAssumption ==
    /\ RingSize \in Nat \ {0} /\ BatchSize \in Nat \ {0} /\ TxRoom \in Nat
    /\ ReadSizes \subseteq Nat /\ UsbReaders \subseteq {"callback", "thread"}

VARIABLES
    cdc,     \* fd_usb_cdc_zephyr, and what the driver and the work queue have of it
    peer,    \* what the host has sent and received, and its DTR
    client,  \* what the application has read and been told
    connection   \* fd_usb, and what the application has been told of it

usbVars == <<cdc, peer, client, connection>>

Codes == {"error", "reset", "connected", "configured", "disconnected", "suspend", "resume",
          "interface", "set_halt", "clear_halt", "sof", "unknown"}

\* fd_usb_cdc_initialize and fd_usb_initialize.
Init ==
    /\ \E where \in UsbReaders :
          client = [reads |-> where, taken |-> <<>>, ready |-> FALSE, terminal |-> FALSE, sent |-> TRUE]
    /\ cdc = [fifo |-> <<>>, looping |-> FALSE, ring |-> <<>>, rx_count |-> 0, rx_drop_count |-> 0,
              out |-> 0, tx_enabled |-> FALSE, data_terminal_ready |-> FALSE, submitted |-> FALSE,
              working |-> <<>>, dcd |-> FALSE, dsr |-> FALSE]
    /\ peer = [sent |-> 0, got |-> 0, dtr |-> FALSE, events |-> 0]
    /\ connection = [is_connected |-> FALSE, count |-> 0, told |-> FALSE]

Lesser(a, b) == IF a < b THEN a ELSE b
Threads == ~cdc.looping
Event(h) == peer.events < MaxUsbEvents /\ peer' = [h EXCEPT !.events = @ + 1]

-----------------------------------------------------------------------------
(* Receiving. *)

HostSends ==
    /\ Event([peer EXCEPT !.sent = @ + 1])
    /\ cdc' = [cdc EXCEPT !.fifo = Append(@, peer.sent + 1)]
    /\ UNCHANGED <<client, connection>>

\* ring_buf_get, which the application calls until it gets nothing.
Read(c, r, n) == [c EXCEPT !.taken = @ \o SubSeq(r, 1, Lesser(n, Len(r)))]
After(r, n) == SubSeq(r, Lesser(n, Len(r)) + 1, Len(r))

\* A round of fd_usb_cdc_zephyr_irq_callback.  With a full ring it takes nothing,
\* and goes on for ever unless the application reads in rx_ready.
fd_usb_cdc_zephyr_irq_callback ==
    /\ cdc.fifo # <<>>
    /\ LET recv_len == Lesser(Lesser(RingSize - Len(cdc.ring), BatchSize), Len(cdc.fifo))
           rb_len == Lesser(recv_len, RingSize - Len(cdc.ring))
           ring == cdc.ring \o SubSeq(cdc.fifo, 1, rb_len)
           reads == client.reads = "callback"
           fifo == SubSeq(cdc.fifo, recv_len + 1, Len(cdc.fifo))
       IN \E n \in IF reads THEN ReadSizes ELSE {0} :
             /\ cdc' = [cdc EXCEPT !.fifo = fifo, !.ring = After(ring, n), !.looping = fifo # <<>>,
                                   !.rx_count = @ + recv_len, !.rx_drop_count = @ + recv_len - rb_len,
                                   !.tx_enabled = FALSE]
             /\ client' = [Read(client, ring, n) EXCEPT !.ready = TRUE]
    /\ UNCHANGED <<peer, connection>>

\* fd_usb_cdc_get_rx_data in a thread that rx_ready wakes.
fd_usb_cdc_get_rx_data ==
    /\ Threads /\ client.ready
    /\ \E n \in ReadSizes :
          /\ client' = [Read(client, cdc.ring, n) EXCEPT !.ready = cdc.ring # <<>>]
          /\ cdc' = [cdc EXCEPT !.ring = After(@, n)]
    /\ UNCHANGED <<peer, connection>>

-----------------------------------------------------------------------------
(* Sending. *)

\* What the driver does not take is not sent; the result is all that is known of it.
fd_usb_cdc_tx_data ==
    /\ Threads
    /\ \E length \in 1..2 :
          LET send_len == Lesser(length, TxRoom - cdc.out)
          IN /\ Event(peer)
             /\ cdc' = [cdc EXCEPT !.out = @ + send_len]
             /\ client' = [client EXCEPT !.sent = send_len = length]
    /\ UNCHANGED connection

HostReceives ==
    /\ cdc.out > 0
    /\ peer' = [peer EXCEPT !.got = @ + cdc.out]
    /\ cdc' = [cdc EXCEPT !.out = 0]
    /\ UNCHANGED <<client, connection>>

-----------------------------------------------------------------------------
(* DTR. *)

HostToggles ==
    /\ Event([peer EXCEPT !.dtr = ~@])
    /\ UNCHANGED <<cdc, client, connection>>

\* The interrupt of the timer, between any two steps.
fd_usb_cdc_zephyr_timer ==
    /\ cdc.data_terminal_ready # peer.dtr
    /\ cdc' = [cdc EXCEPT !.data_terminal_ready = peer.dtr, !.submitted = TRUE]
    /\ UNCHANGED <<peer, client, connection>>

\* The work reads the flag, then answers with DCD and DSR and reports.  It is in
\* the queue again if the timer submits it while it runs.
WorkReads ==
    /\ Threads /\ cdc.submitted /\ cdc.working = <<>>
    /\ cdc' = [cdc EXCEPT !.submitted = FALSE, !.working = <<cdc.data_terminal_ready>>]
    /\ UNCHANGED <<peer, client, connection>>
fd_usb_cdc_zephyr_data_terminal_ready_work ==
    /\ cdc.working # <<>>
    /\ cdc' = [cdc EXCEPT !.working = <<>>, !.dcd = cdc.working[1], !.dsr = cdc.working[1]]
    /\ client' = [client EXCEPT !.terminal = cdc.working[1]]
    /\ UNCHANGED <<peer, connection>>

-----------------------------------------------------------------------------
(* The status. *)

\* The counts of all codes are one number here.
fd_usb_dc_status_callback ==
    /\ Event(peer)
    /\ \E code \in Codes :
          connection' = [connection EXCEPT
              !.count = @ + 1,
              !.is_connected = IF code \in {"connected", "disconnected"} THEN code = "connected" ELSE @,
              !.told = IF code \in {"connected", "disconnected"} THEN code = "connected" ELSE @]
    /\ UNCHANGED <<cdc, client>>

Next ==
    \/ HostSends \/ fd_usb_cdc_zephyr_irq_callback \/ fd_usb_cdc_get_rx_data
    \/ fd_usb_cdc_tx_data \/ HostReceives
    \/ HostToggles \/ fd_usb_cdc_zephyr_timer \/ WorkReads \/ fd_usb_cdc_zephyr_data_terminal_ready_work
    \/ fd_usb_dc_status_callback

Spec == Init /\ [][Next]_usbVars

-----------------------------------------------------------------------------
\* What the host sends reaches the application in order, nothing left out and
\* nothing twice, also through a full ring, which only holds up the host.
OctetsInOrder ==
    /\ client.taken \o cdc.ring \o cdc.fifo = [i \in 1..peer.sent |-> i]
    /\ cdc.rx_drop_count = 0 /\ cdc.rx_count = Len(client.taken) + Len(cdc.ring)
    /\ cdc.ring # <<>> => client.ready

\* While no work is submitted or running the application and the host have been
\* told the DTR that the timer saw last, however often it changed meanwhile.
TerminalIsReported ==
    (~cdc.submitted /\ cdc.working = <<>>) =>
        {client.terminal, cdc.dcd, cdc.dsr} = {cdc.data_terminal_ready}

\* Both, and the application is told of every change of the connection.
UsbAgrees == OctetsInOrder /\ TerminalIsReported /\ connection.told = connection.is_connected
=============================================================================
