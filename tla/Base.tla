-------------------------------- MODULE Base --------------------------------
(***************************************************************************)
(* What interrupts, threads and the main loop share in subsys/base,        *)
(* subsys/rtos and the drivers of boards: the serial drivers, the USB      *)
(* class, the touch sensor, timers and work queues, the clock and the      *)
(* small scheduler.  They are independent of each other; this module       *)
(* states together what the proofs and the runs say of them.               *)
(***************************************************************************)
EXTENDS Integers

CONSTANTS TxFifoLimit, RxFifoLimit, DmaLimit, LineFormats, MaxTx, MaxRx, MaxFaults,
          Timers, Work, TaskLimit, Submitters, MaxDelay, MaxSubmits, TaskCount, Priorities,
          Readers, TicksPerSecond, SecondsPerOverflow, UtcTimes, ClockConfigurations, MaxTicks, MaxRtcCalls,
          RingSize, BatchSize, ReadSizes, TxRoom, UsbReaders, MaxUsbEvents,
          Fingers, MaxTouches, MaxNacks

VARIABLES
    driver, thread, length, start, tx_fifo, pending, dma, txdrdy, wire, accepted,
    rx_fifo, line, is_rx_stopped, event, seen, faults, raced, merged,
    port, timer, items, item_count, submit, walk, calling, owed, wanted, dropped, collided,
    priority, runnable, task_index, step, delayed, waiter, happened, disabled, asleep, failed,
    rtc, reading, setting, truth, sent, used,
    cdc, peer, client, connection,
    chip, touch, heard

U == INSTANCE Uart
T == INSTANCE Tasks
R == INSTANCE Rtos
K == INSTANCE Clock
H == INSTANCE Usb
P == INSTANCE Touch

\* What the drivers are configured with: a serial line has a rate and one of the formats
\* of fd_uart_instance_t, a delay is a number of ticks and there is a task to run.
DriversAssumption ==
    /\ \A f \in LineFormats :
          f.baud_rate \in Nat /\ f.parity \in {"none", "even", "odd"} /\ f.stop_bits \in {1, 2}
    /\ DmaLimit \in Nat
    /\ MaxDelay \in Nat /\ TaskLimit \in Nat /\ MaxSubmits \in Nat
    /\ TaskCount \in Nat \ {0}

-----------------------------------------------------------------------------
\* Uart: what was sent, is being sent and waits to be sent is what the callers
\* of fd_uart_instance_tx handed over, in that order and nothing twice, on a line of
\* the rate and format asked for, but for odd parity (fd_uart_nrf5.c).  Usb: what
\* the host sends is read in order, and its DTR is reported in the end (fd_usb_cdc.c).
\* Touch: the application knows in the end where the finger is (fd_cst816s.c).
SentInOrder == U!SentInOrder /\ U!LineIsAsAsked /\ H!UsbAgrees /\ P!TouchSettles

\* Uart: queued bytes are sent, unless the transmitter ran dry between the test
\* and the put of fd_uart_instance_tx, the interrupt came too late for two bytes, or a
\* fault occurred; and a frame that has arrived completely is read (fd_event_process).
SerialLineServed == U!QueuedIsSent /\ U!FrameIsRead

\* Tasks: a timer calls back only if it was started and not stopped since, and not
\* before its duration has passed (fd_timer_stop, fd_timer_start); and a task that was
\* submitted to a work queue and not cancelled since is in the queue until it is called,
\* but for a queue at its limit and for items that two threads took at once, which
\* SubmittedIsQueued names (fd_work_queue_submit_with_delay).
\* Clock: no overflow is lost or counted twice, and what a thread reads is the true
\* time, but for the cases that TimeAgrees names (fd_rtc_nrf5.c).
TasksRunWhenDue == T!TimerFiresWhenDue /\ []T!SubmittedIsQueued /\ []K!TimeAgrees

\* Rtos: a task that cannot run has somebody who will make it runnable, and the
\* processor does not sleep while a task can run.
NoTaskForgotten == R!NoTaskForgotten
=============================================================================
