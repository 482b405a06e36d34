------------------------------ MODULE RpcStream ------------------------------
(***************************************************************************)
(* The stream that carries RPC bytes over UDP between a device             *)
(* (fd_rpc_stream.c, driven by fd_rpc_channel_thread.c) and a host         *)
(* (Stream and UdpChannel of api/python/rpc.py): stop and wait in each     *)
(* direction, numbered from zero in each connection.                       *)
(*                                                                         *)
(* The device has three actors: the OpenThread thread, which handles one   *)
(* datagram at a time; the work queue, which runs connected_work,          *)
(* disconnected_work, tx_work and timer_work one at a time; and whoever    *)
(* calls packet_write.  The host has its run loop and the thread that      *)
(* calls write and connect.  The network loses, reorders and, for the      *)
(* kinds in Duplicated, duplicates datagrams.                              *)
(*                                                                         *)
(* Time is abstract: a retry or a receive timeout may be found due by any  *)
(* check.  Keep alive datagrams only postpone the timeouts, so they are    *)
(* not represented.  A chunk is what one send_data sends, named by the     *)
(* number of its write.  fd_assert only logs.                              *)
(***************************************************************************)
EXTENDS Naturals, Sequences

CONSTANTS
  DeviceWrites,  \* bound: packets the device writes
  HostWrites,    \* bound: packets the host writes
  MaxConnects,   \* bound: connect requests of the host
  RingSize,      \* chunks that tx_ringbuf holds
  Duplicated,    \* the kinds of datagram the network may duplicate
  Writers,       \* the states of the host's stream in which write is called
  NULL

Kinds == {"connect", "response", "disconnect", "ack", "nack", "data"}
States == {"disconnected", "connected"}
Works == {"connected", "disconnected", "tx", "timer"}

ASSUME ConstantsAssumption ==
  /\ DeviceWrites \in Nat /\ HostWrites \in Nat /\ MaxConnects \in Nat
  /\ RingSize \in Nat
  /\ Duplicated \subseteq Kinds
  /\ Writers \subseteq States
  /\ NULL \notin Nat

VARIABLES
  device,    \* fd_rpc_stream_t: state, sequence numbers, send_semaphore, last_send_data;
             \* and, as history, its connection, the chunks it sent under each number
             \* and those it was given
  tx,        \* is_send_pending, tx_ringbuf, whether a claim of it is open, send_buffer
  queue,     \* the works submitted to the work queue
  worker,    \* the work being run and where it is
  opened,    \* the channel is open and its 250 ms timer runs
  acking,    \* the OpenThread thread is inside receive_ack, past k_sem_give
  host,      \* Stream: state, sequence numbers, send_lock, last_send_data; and history
  writing,   \* write holds the lock and has not yet put its packet
  outbox,    \* UdpChannel.send_queue
  running,   \* the thread of run_loop is alive
  net,       \* the datagrams in flight
  written,   \* packets written so far, per side
  connects   \* connect requests sent so far

deviceVars == << device, tx, queue, worker, opened, acking >>
hostVars == << host, writing, outbox, running >>
vars == << deviceVars, hostVars, net, written, connects >>

NoData == [seq |-> NULL, chunk |-> NULL]

Message(to, kind, seq, chunk) == [to |-> to, kind |-> kind, seq |-> seq, chunk |-> chunk]
Command(to, kind) == Message(to, kind, NULL, NULL)
Resend(to, last) == Message(to, "data", last.seq, last.chunk)

\* A datagram arrives and the handler sends replies.
Arrive(m, replies) ==
  /\ m \in net
  /\ \/ net' = (net \ {m}) \cup replies
     \/ m.kind \in Duplicated /\ net' = net \cup replies

\* k_work_submit_to_queue: a work that is already queued keeps its place.
Submit(q, work) == IF \E i \in DOMAIN q : q[i] = work THEN q ELSE Append(q, work)
-----------------------------------------------------------------------------
(* The device: the state of the stream and of the channel.                 *)

\* fd_rpc_stream_disconnect.
StreamDisconnect(s) ==
  [s EXCEPT !.state = "disconnected", !.receive = 0, !.send = 0, !.sem = 1, !.last = NoData,
            !.sent = {}, !.given = << >>]

\* fd_rpc_channel_thread_reset_buffers.
reset_buffers == tx' = [tx EXCEPT !.pending = FALSE, !.ring = << >>, !.claimed = FALSE]

\* fd_rpc_channel_thread_disconnected, called by received_disconnect and
\* sent_disconnect.
ChannelDisconnected == reset_buffers /\ queue' = Submit(queue, "disconnected")

\* The stream is closed by this side: the peer is told.
SendDisconnect(to) == {Command(to, "disconnect")}

DeviceHandles(m, kind) ==
  /\ ~acking
  /\ m.to = "device" /\ m.kind = kind

receive_connect_request(m) ==
  /\ DeviceHandles(m, "connect")
  /\ device' = [StreamDisconnect(device) EXCEPT !.state = "connected", !.connection = @ + 1]
  /\ Arrive(m, {Message("host", "response", device.connection + 1, NULL)})
  /\ reset_buffers
  /\ queue' = Submit(queue, "connected")
  /\ UNCHANGED << worker, opened, acking, hostVars, written, connects >>

receive_disconnect_request(m) ==
  /\ DeviceHandles(m, "disconnect")
  /\ device' = StreamDisconnect(device)
  /\ ChannelDisconnected
  /\ Arrive(m, {})
  /\ UNCHANGED << worker, opened, acking, hostVars, written, connects >>

\* Mutant: data that was already given is given again.
IsNextDataOrOld(receive, seq) == seq <= receive

IsNextData(receive, seq) == seq = receive

\* What receive_data of both sides answers: an ack of old and of expected data, a
\* nack of a gap.
DataReply(to, receive, seq) ==
  IF seq <= receive THEN Message(to, "ack", seq, NULL) ELSE Command(to, "nack")

receive_data(m) ==
  /\ DeviceHandles(m, "data")
  /\ IF device.state = "connected"
     THEN /\ Arrive(m, {DataReply("host", device.receive, m.seq)})
          /\ IF IsNextData(device.receive, m.seq)
             THEN device' = [device EXCEPT !.receive = @ + 1, !.given = Append(@, m.chunk)]
             ELSE UNCHANGED device
     ELSE Arrive(m, {}) /\ UNCHANGED device
  /\ UNCHANGED << tx, queue, worker, opened, acking, hostVars, written, connects >>

\* The ack is of the data last sent.
IsAck(seq, send) == seq = send

\* An ack of the outstanding chunk frees the semaphore here, and the rest of the
\* handler follows in AckDone; an old one is ignored; one from the future, which
\* should not happen, disconnects.
receive_ack(m) ==
  /\ DeviceHandles(m, "ack")
  /\ \/ /\ m.seq < device.send
        /\ Arrive(m, {})
        /\ UNCHANGED << device, tx, queue, acking >>
     \/ /\ IsAck(m.seq, device.send)
        /\ Arrive(m, {})
        /\ device' = [device EXCEPT !.send = @ + 1, !.sem = 1]
        /\ acking' = TRUE
        /\ UNCHANGED << tx, queue >>
     \/ /\ m.seq > device.send
        /\ Arrive(m, SendDisconnect("host"))
        /\ device' = StreamDisconnect(device)
        /\ ChannelDisconnected
        /\ UNCHANGED acking
  /\ UNCHANGED << worker, opened, hostVars, written, connects >>

\* Mutant: last_send_data is not cleared.
AckedKeepsLast(s) == s

Acked(s) == [s EXCEPT !.last = NoData]

\* last_send_data is cleared, and received_ack calls send_done.
AckDone ==
  /\ acking
  /\ acking' = FALSE
  /\ device' = Acked(device)
  /\ tx' = [tx EXCEPT !.pending = FALSE]
  /\ queue' = Submit(queue, "tx")
  /\ UNCHANGED << worker, opened, hostVars, net, written, connects >>

receive_nack(m) ==
  /\ DeviceHandles(m, "nack")
  /\ Arrive(m, SendDisconnect("host"))
  /\ device' = StreamDisconnect(device)
  /\ ChannelDisconnected
  /\ UNCHANGED << worker, opened, acking, hostVars, written, connects >>

DeviceReceive(m) ==
  \/ receive_connect_request(m) \/ receive_disconnect_request(m)
  \/ receive_data(m) \/ receive_ack(m) \/ receive_nack(m)
-----------------------------------------------------------------------------
(* The device: the work queue.                                             *)

HasRoom == Len(tx.ring) < RingSize

\* A packet is written to the ring if there is room for it.  The RPC layer writes
\* for requests of this connection, and until disconnected_work closes the channel
\* for those of an earlier one.
packet_write ==
  /\ opened \/ device.state = "connected"
  /\ written.device < DeviceWrites
  /\ HasRoom
  /\ written' = [written EXCEPT !.device = @ + 1]
  /\ tx' = [tx EXCEPT !.ring = Append(@, written.device + 1)]
  /\ queue' = Submit(queue, "tx")
  /\ UNCHANGED << device, worker, opened, acking, hostVars, net, connects >>

\* The 250 ms timer of an open channel.
Timer ==
  /\ opened
  /\ Submit(queue, "timer") # queue
  /\ queue' = Submit(queue, "timer")
  /\ UNCHANGED << device, tx, worker, opened, acking, hostVars, net, written, connects >>

\* The worker takes the next work.
Dequeue(works) ==
  /\ worker.at = "idle"
  /\ queue # << >> /\ Head(queue) \in works
  /\ queue' = Tail(queue)

Idle == [work |-> NULL, at |-> "idle"]

\* Where the worker goes after fd_rpc_channel_thread_tx: timer_work then checks the
\* stream.
AfterTx(work) == IF work = "timer" THEN [work |-> "timer", at |-> "check"] ELSE Idle

connected_work ==
  /\ Dequeue({"connected"})
  /\ opened' = TRUE
  /\ UNCHANGED << device, tx, worker, acking, hostVars, net, written, connects >>

disconnected_work ==
  /\ Dequeue({"disconnected"})
  /\ opened' = FALSE
  /\ UNCHANGED << device, tx, worker, acking, hostVars, net, written, connects >>

\* tx with a send pending or nothing to send.
TxNothing ==
  /\ Dequeue({"tx", "timer"})
  /\ tx.pending \/ tx.ring = << >>
  /\ worker' = AfterTx(Head(queue))
  /\ UNCHANGED << device, tx, opened, acking, hostVars, net, written, connects >>

\* tx claims the next chunk and copies it to send_buffer.
TxClaim ==
  /\ Dequeue({"tx", "timer"})
  /\ ~tx.pending /\ tx.ring # << >>
  /\ tx' = [tx EXCEPT !.pending = TRUE, !.claimed = TRUE, !.chunk = Head(tx.ring)]
  /\ worker' = [work |-> Head(queue), at |-> "take"]
  /\ UNCHANGED << device, opened, acking, hostVars, net, written, connects >>

SemaphoreFree == device.sem = 1

\* wait_for_send_ack takes the semaphore.
TxTake ==
  /\ worker.at = "take"
  /\ SemaphoreFree
  /\ device' = [device EXCEPT !.sem = 0]
  /\ worker' = [worker EXCEPT !.at = "send"]
  /\ UNCHANGED << tx, queue, opened, acking, hostVars, net, written, connects >>

\* Five seconds pass: the send is abandoned and the chunk stays in the ring.
TxTimeout ==
  /\ worker.at = "take"
  /\ ~SemaphoreFree
  /\ tx' = [tx EXCEPT !.pending = FALSE, !.claimed = FALSE, !.chunk = NULL]
  /\ worker' = AfterTx(worker.work)
  /\ UNCHANGED << device, queue, opened, acking, hostVars, net, written, connects >>

\* fd_rpc_stream_send_data, and then ring_buf_get_finish, which fails when the ring
\* was reset since the claim.
send_data ==
  /\ worker.at = "send"
  /\ device' = [device EXCEPT !.last = [seq |-> device.send, chunk |-> tx.chunk],
                              !.sent = @ \cup {<< device.send, tx.chunk >>}]
  /\ net' = net \cup {Message("host", "data", device.send, tx.chunk)}
  /\ tx' = [tx EXCEPT !.ring = IF tx.claimed THEN Tail(@) ELSE @,
                      !.claimed = FALSE, !.chunk = NULL]
  /\ worker' = AfterTx(worker.work)
  /\ UNCHANGED << queue, opened, acking, hostVars, written, connects >>

\* Mutant: a retry sends nothing.
DeviceRetryNothing == {}

\* The datagram of a retry.
DeviceRetry == {Resend("host", device.last)}

Checking == worker.at = "check" /\ worker' = Idle

\* fd_rpc_stream_check with nothing due.
CheckIdle ==
  /\ Checking
  /\ UNCHANGED << device, tx, queue, opened, acking, hostVars, net, written, connects >>

\* The last data was not acknowledged in time.
CheckRetry ==
  /\ Checking
  /\ device.state = "connected" /\ device.last # NoData
  /\ net' = net \cup DeviceRetry
  /\ UNCHANGED << device, tx, queue, opened, acking, hostVars, written, connects >>

\* Nothing was received for too long; a retry may be due as well.
CheckTimeout ==
  /\ Checking
  /\ device.state = "connected"
  /\ \E retry \in BOOLEAN :
       /\ retry => device.last # NoData
       /\ net' = net \cup SendDisconnect("host") \cup (IF retry THEN DeviceRetry ELSE {})
  /\ device' = StreamDisconnect(device)
  /\ ChannelDisconnected
  /\ UNCHANGED << opened, acking, hostVars, written, connects >>

Worker ==
  \/ connected_work \/ disconnected_work
  \/ TxNothing \/ TxClaim \/ TxTake \/ TxTimeout \/ send_data
  \/ CheckIdle \/ CheckRetry \/ CheckTimeout
-----------------------------------------------------------------------------
(* The host.                                                               *)

\* Stream.disconnect: nothing to do when not connected.
HostDisconnect(h) ==
  IF h.state = "disconnected" THEN h
  ELSE [h EXCEPT !.state = "disconnected", !.receive = 0, !.send = 0,
                 !.lock = FALSE, !.last = NoData, !.sent = {}, !.given = << >>]

HostHandles(m, kind) ==
  /\ running
  /\ m.to = "host" /\ m.kind = kind

\* UdpChannel.connect: sends a connect request.
HostConnect ==
  /\ running
  /\ host.state = "disconnected"
  /\ connects < MaxConnects
  /\ connects' = connects + 1
  /\ net' = net \cup {Command("device", "connect")}
  /\ UNCHANGED << deviceVars, hostVars, written >>

\* Stream.receive_connect_response and Stream.connected.
receive_connect_response(m) ==
  /\ HostHandles(m, "response")
  /\ Arrive(m, {})
  /\ host' = [HostDisconnect(host) EXCEPT !.state = "connected", !.last = NoData,
                                          !.connection = m.seq]
  /\ UNCHANGED << deviceVars, writing, outbox, running, written, connects >>

HostReceiveDisconnect(m) ==
  /\ HostHandles(m, "disconnect")
  /\ Arrive(m, {})
  /\ host' = HostDisconnect(host)
  /\ UNCHANGED << deviceVars, writing, outbox, running, written, connects >>

HostReceiveData(m) ==
  /\ HostHandles(m, "data")
  /\ IF host.state = "connected"
     THEN /\ Arrive(m, {DataReply("device", host.receive, m.seq)})
          /\ IF IsNextData(host.receive, m.seq)
             THEN host' = [host EXCEPT !.receive = @ + 1, !.given = Append(@, m.chunk)]
             ELSE UNCHANGED host
     ELSE Arrive(m, {}) /\ UNCHANGED host
  /\ UNCHANGED << deviceVars, writing, outbox, running, written, connects >>

\* Releasing a lock that is not held raises RuntimeError, which ends run_loop.
HostReceiveAck(m) ==
  /\ HostHandles(m, "ack")
  /\ \/ /\ m.seq < host.send
        /\ Arrive(m, {})
        /\ UNCHANGED << host, running >>
     \/ /\ IsAck(m.seq, host.send)
        /\ Arrive(m, {})
        /\ host' = [host EXCEPT !.send = @ + 1, !.last = NoData, !.lock = FALSE]
        /\ running' = host.lock
     \/ /\ m.seq > host.send
        /\ Arrive(m, SendDisconnect("device"))
        /\ host' = HostDisconnect(host)
        /\ UNCHANGED running
  /\ UNCHANGED << deviceVars, writing, outbox, written, connects >>

HostReceiveNack(m) ==
  /\ HostHandles(m, "nack")
  /\ Arrive(m, SendDisconnect("device"))
  /\ host' = HostDisconnect(host)
  /\ UNCHANGED << deviceVars, writing, outbox, running, written, connects >>

HostReceive(m) ==
  \/ receive_connect_response(m) \/ HostReceiveDisconnect(m)
  \/ HostReceiveData(m) \/ HostReceiveAck(m) \/ HostReceiveNack(m)

\* UdpChannel.write waits for the lock ...
HostWrite ==
  /\ host.state \in Writers
  /\ ~writing /\ ~host.lock
  /\ written.host < HostWrites
  /\ host' = [host EXCEPT !.lock = TRUE]
  /\ writing' = TRUE
  /\ UNCHANGED << deviceVars, outbox, running, net, written, connects >>

\* ... and then hands its packet to run_loop.
HostPut ==
  /\ writing
  /\ writing' = FALSE
  /\ written' = [written EXCEPT !.host = @ + 1]
  /\ outbox' = Append(outbox, written.host + 1)
  /\ UNCHANGED << deviceVars, host, running, net, connects >>

\* run_loop sends the packet: Stream.send_data.
HostSend ==
  /\ running
  /\ outbox # << >>
  /\ outbox' = Tail(outbox)
  /\ host' = [host EXCEPT !.last = [seq |-> host.send, chunk |-> Head(outbox)],
                          !.sent = @ \cup {<< host.send, Head(outbox) >>}]
  /\ net' = net \cup {Message("device", "data", host.send, Head(outbox))}
  /\ UNCHANGED << deviceVars, writing, running, written, connects >>

HostRetry ==
  /\ running
  /\ host.state = "connected" /\ host.last # NoData
  /\ net' = net \cup {Resend("device", host.last)}
  /\ UNCHANGED << deviceVars, hostVars, written, connects >>

HostTimeout ==
  /\ running
  /\ host.state = "connected"
  /\ net' = net \cup SendDisconnect("device")
  /\ host' = HostDisconnect(host)
  /\ UNCHANGED << deviceVars, writing, outbox, running, written, connects >>

Lose(m) ==
  /\ m \in net
  /\ net' = net \ {m}
  /\ UNCHANGED << deviceVars, hostVars, written, connects >>
-----------------------------------------------------------------------------
Init ==
  /\ device = [state |-> "disconnected", receive |-> 0, send |-> 0, sem |-> 1,
               last |-> NoData, connection |-> 0, sent |-> {}, given |-> << >>]
  /\ tx = [pending |-> FALSE, ring |-> << >>, claimed |-> FALSE, chunk |-> NULL]
  /\ queue = << >>
  /\ worker = Idle
  /\ opened = FALSE
  /\ acking = FALSE
  /\ host = [state |-> "disconnected", receive |-> 0, send |-> 0, lock |-> FALSE,
             last |-> NoData, connection |-> 0, sent |-> {}, given |-> << >>]
  /\ writing = FALSE
  /\ outbox = << >>
  /\ running = TRUE
  /\ net = {}
  /\ written = [device |-> 0, host |-> 0]
  /\ connects = 0

Next ==
  \/ \E m \in net : DeviceReceive(m) \/ HostReceive(m) \/ Lose(m)
  \/ AckDone \/ packet_write \/ Timer \/ Worker
  \/ HostConnect \/ HostWrite \/ HostPut \/ HostSend \/ HostRetry \/ HostTimeout

Spec == Init /\ [][Next]_vars

\* The threads of the device run, a datagram that is sent again and again arrives
\* in the end, and an overdue retry is found by some check.
FairSpec ==
  /\ Spec
  /\ WF_vars(Worker) /\ WF_vars(Timer) /\ WF_vars(AckDone)
  /\ SF_vars(CheckRetry)
  /\ \A seq \in 0 .. DeviceWrites :
       /\ SF_vars(\E m \in net : m.seq = seq /\ HostReceiveData(m))
       /\ SF_vars(\E m \in net : m.seq = seq /\ receive_ack(m))
-----------------------------------------------------------------------------
(* Properties.                                                             *)

Chunks == 1 .. DeviceWrites + HostWrites

TypeOK ==
  /\ device.state \in States /\ device.sem \in {0, 1}
  /\ device.receive \in Nat /\ device.send \in Nat
  /\ tx \in [pending : BOOLEAN, ring : Seq(Chunks), claimed : BOOLEAN, chunk : Chunks \cup {NULL}]
  /\ Len(tx.ring) <= RingSize
  /\ queue \in Seq(Works) /\ Len(queue) <= 4
  /\ worker.work \in {"tx", "timer", NULL}
  /\ worker.at \in {"idle", "take", "send", "check"}
  /\ opened \in BOOLEAN /\ acking \in BOOLEAN /\ writing \in BOOLEAN /\ running \in BOOLEAN
  /\ host.state \in States /\ host.lock \in BOOLEAN
  /\ outbox \in Seq(Chunks)
  /\ \A m \in net : m.kind \in Kinds /\ m.to \in {"device", "host"}

\* Both sides are in the same connection.
SameConnection ==
  /\ device.state = "connected" /\ host.state = "connected" /\ running
  /\ device.connection = host.connection

\* Every chunk given is the only one sent under its number, and everything
\* acknowledged was given.
InOrder(sent, given, send) ==
  /\ Len(given) \in {send, send + 1}
  /\ \A i \in 1 .. Len(given) : {p \in sent : p[1] = i - 1} = {<< i - 1, given[i] >>}

\* Until the host asks for a second connection, the host is given what the device
\* sends exactly once and in order, whatever the network loses, reorders and
\* duplicates, and receive_ack frees the device's semaphore only for data that the
\* host was given.
DeviceToHost ==
  SameConnection /\ connects = 1 => InOrder(device.sent, host.given, device.send)

\* The same for what the host sends: its lock is released only for data that the
\* device was given.
HostToDevice ==
  SameConnection /\ connects = 1 => InOrder(host.sent, device.given, host.send)

\* Both directions of a connection deliver every chunk once and in order.
DeliversInOrder == DeviceToHost /\ HostToDevice

\* The work queue reaches send_data only when the last data was acknowledged (the
\* assertion of fd_rpc_stream_send_data that last_send_data is clear), until the host
\* asks for a second connection and outside the rest of receive_ack.
SendsWhenAcked ==
  connects = 1 /\ device.state = "connected" /\ worker.at = "send" /\ ~acking
    => device.last = NoData

\* Unacknowledged data is sent again until its record is gone, unless a side leaves
\* the connection or the channel's timer is stopped.  The record goes when an ack is
\* received; receive_ack clears it after it gave the semaphore (fd_rpc_stream.c:274),
\* and a record of data sent in between, which it erases, counts as gone too.
RetryDelivers ==
  (SameConnection /\ device.last # NoData)
    ~> (device.last = NoData \/ ~SameConnection \/ ~opened)

\* The stream handles out of order packets (requirements of fd_rpc_stream.c), also
\* after the host connects again.
ReconnectInOrder == SameConnection => InOrder(device.sent, host.given, device.send)

\* Keep alive works both ways (requirements of fd_rpc_stream.c): once the works
\* submitted by a connect have run, the timer that checks a connected stream runs.
KeepAliveRuns ==
  device.state = "connected" /\ queue = << >> /\ worker.at = "idle" => opened
=============================================================================
