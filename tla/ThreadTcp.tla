----------------------------- MODULE ThreadTcp ------------------------------
(***************************************************************************)
(* The RPC channel over Thread with its TCP transport                      *)
(* (fd_rpc_channel_thread.c) and the host's end of it (SocketChannel of    *)
(* rpc.py).                                                                *)
(*                                                                         *)
(* Three threads of the device meet here: OpenThread calls back about the  *)
(* role, the connection and its data; the work queue opens and closes the  *)
(* channel and moves octets between the rings and the connection, in steps *)
(* that a callback may come between; and the application starts, stops and *)
(* writes.  OpenThread is external: it is taken to report every connection *)
(* that ends, also one that the code aborts, and a change of role some     *)
(* time after it happened.                                                 *)
(***************************************************************************)
EXTENDS Naturals, Sequences, FiniteSets

CONSTANTS RxRing,          \* the receive ring buffer
          TxRing,          \* the transmit ring buffer
          SendBuffer,      \* ot.send_buffer
          GetChunk,        \* data in rx_work: 64
          Bounds           \* bounds: a behaviour is within one of these, records of
                           \* connections of hosts, packets in each of them, octets the
                           \* device writes, changes of the role, and calls of
                           \* set_dataset and stop

VARIABLES state,     \* fd_rpc_channel_thread.state
          role,      \* whether ot.role is an active one
          net,       \* OpenThread: [enabled, active, changed, roles, calls]
          endpoint,  \* the TCP endpoint: [up, at, held], held are the lengths sent by reference
          rx,        \* [ring, packet]
          tx,        \* [ring, pending, buffer]
          queue,     \* the work items submitted to the work queue
          timer,     \* the timer is running
          worker,    \* where the work queue is, with the octets it holds
          app,       \* "idle", or inside of set_dataset
          host,      \* [at, to_device, got, packets] of the host's program
          bounds,    \* what this behaviour is bounded by
          history    \* for the properties, see ThreadInit

\* Nothing is read or sent in pieces of no octets.
ASSUME ThreadAssumption ==
  /\ RxRing \in Nat /\ TxRing \in Nat
  /\ SendBuffer \in Nat \ {0} /\ GetChunk \in Nat \ {0}

threadVars == <<state, role, net, endpoint, rx, tx, queue, timer, worker, app, host, bounds, history>>

\* An octet knows the connection it belongs to.  Every second octet of the host
\* is the delimiter that ends a packet.
Octet(c, n) == [connection |-> c, n |-> n]
IsDelimiter(o) == o.n % 2 = 0
IsPacket(p) == /\ Len(p) = 2 /\ p[1].connection = p[2].connection
               /\ ~IsDelimiter(p[1]) /\ p[2].n = p[1].n + 1

Idle == [at |-> "idle", data |-> <<>>]
Fewer(a, b) == IF a <= b THEN a ELSE b
FirstOf(s, n) == SubSeq(s, 1, Fewer(n, Len(s)))
After(s, n) == SubSeq(s, n + 1, Len(s))
Queued(w) == \E i \in DOMAIN queue : queue[i] = w
QueuedWith(w, q) == IF \E i \in DOMAIN q : q[i] = w THEN q ELSE Append(q, w)

ThreadInit ==
    /\ state = "none" /\ role = FALSE /\ timer = FALSE
    /\ net = [enabled |-> FALSE, active |-> FALSE, changed |-> FALSE, roles |-> 0, calls |-> 0]
    /\ endpoint = [up |-> FALSE, at |-> "closed", held |-> <<>>]
    /\ rx = [ring |-> <<>>, packet |-> <<>>]
    /\ tx = [ring |-> <<>>, pending |-> FALSE, buffer |-> <<>>]
    /\ bounds \in Bounds
    /\ queue = <<>> /\ worker = Idle /\ app = "idle"
    /\ host = [at |-> "off", to_device |-> <<>>, got |-> <<>>, packets |-> 0]
    /\ history = [connection |-> 0, written |-> 0, first |-> 0,
                  handled |-> <<>>, ordered |-> TRUE, rejected |-> FALSE, dropped |-> FALSE,
                  crossed |-> {}, merged |-> FALSE, late |-> FALSE, replaced |-> FALSE]

Connection == history.connection

-----------------------------------------------------------------------------
(* OpenThread's callbacks about the connection. *)

\* Mutant: the packet being received is kept.
reset_buffers_keep_packet ==
    /\ rx' = [rx EXCEPT !.ring = <<>>]
    /\ tx' = [tx EXCEPT !.ring = <<>>, !.pending = FALSE]

fd_rpc_channel_thread_reset_buffers ==
    /\ rx' = [ring |-> <<>>, packet |-> <<>>]
    /\ tx' = [tx EXCEPT !.ring = <<>>, !.pending = FALSE]

\* What the work queue holds across a reset of the buffers.
Crossed ==
    history.crossed \cup (IF worker.at = "append" THEN {"rx"} ELSE {})
                    \cup (IF worker.at \in {"copy", "send"} THEN {"tx"} ELSE {})

\* fd_rpc_channel_thread_ot_TcpAcceptDone: a host connects.
fd_rpc_channel_thread_connected ==
    /\ endpoint.up /\ endpoint.at = "closed" /\ host.at = "off"
    /\ Connection < bounds.connections
    /\ endpoint' = [endpoint EXCEPT !.at = "open"]
    /\ fd_rpc_channel_thread_reset_buffers
    /\ queue' = QueuedWith("connected", queue)
    /\ host' = [at |-> "running", to_device |-> <<>>, got |-> <<>>, packets |-> 0]
    /\ history' = [history EXCEPT !.connection = @ + 1, !.first = history.written, !.crossed = Crossed,
                                  !.merged = @ \/ (Queued("connected") /\ Queued("disconnected"))]
    /\ UNCHANGED <<state, role, net, timer, worker, app>>

Cleaned ==
    /\ fd_rpc_channel_thread_reset_buffers
    /\ queue' = QueuedWith("disconnected", queue)
    /\ host' = [host EXCEPT !.at = IF @ = "off" THEN @ ELSE "broken", !.to_device = <<>>]
fd_rpc_channel_thread_disconnected ==
    /\ Cleaned
    /\ history' = [history EXCEPT !.crossed = Crossed,
                                  !.merged = @ \/ (Queued("connected") /\ Queued("disconnected"))]

\* The stack reports that the connection ended, for whatever reason.
fd_rpc_channel_thread_ot_TcpDisconnected ==
    /\ endpoint.at # "closed"
    /\ endpoint' = [endpoint EXCEPT !.at = "closed", !.held = <<>>]
    /\ fd_rpc_channel_thread_disconnected
    /\ UNCHANGED <<state, role, net, timer, worker, app>>

\* What does not fit into the ring is dropped.
fd_rpc_channel_thread_rx(data) ==
    /\ rx' = [rx EXCEPT !.ring = @ \o FirstOf(data, RxRing - Len(@))]
    /\ queue' = QueuedWith("rx", queue)
    /\ history' = [history EXCEPT !.dropped = @ \/ Len(rx.ring) + Len(data) > RxRing]

fd_rpc_channel_thread_ot_TcpReceiveAvailable ==
    /\ endpoint.at = "open"
    /\ \/ /\ host.to_device # <<>>
          /\ \E n \in 1..Len(host.to_device) :
                /\ fd_rpc_channel_thread_rx(FirstOf(host.to_device, n))
                /\ host' = [host EXCEPT !.to_device = After(@, n)]
          /\ UNCHANGED endpoint
       \/ /\ host.to_device = <<>> /\ host.at = "off"      \* aEndOfStream
          /\ endpoint' = [endpoint EXCEPT !.at = "aborted", !.held = <<>>]
          /\ UNCHANGED <<rx, queue, host, history>>
    /\ UNCHANGED <<state, role, net, tx, timer, worker, app>>

\* The stack reads the buffer it was given a reference to when it sends, and is
\* done with it when the host acknowledged it.
fd_rpc_channel_thread_send_done ==
    /\ endpoint.held # <<>>
    /\ endpoint' = [endpoint EXCEPT !.held = Tail(@)]
    /\ host' = [host EXCEPT !.got = @ \o FirstOf(tx.buffer, Head(endpoint.held))]
    /\ tx' = [tx EXCEPT !.pending = FALSE]
    /\ queue' = QueuedWith("tx", queue)
    /\ UNCHANGED <<state, role, net, rx, timer, worker, app, history>>

-----------------------------------------------------------------------------
(* The role, and the application's calls. *)

fd_rpc_channel_thread_tcp_up == endpoint' = [endpoint EXCEPT !.up = TRUE]

\* The service is registered, too.
fd_rpc_channel_thread_up ==
    /\ fd_rpc_channel_thread_tcp_up
    /\ state' = "listening"
    /\ net' = [net EXCEPT !.changed = FALSE]
    /\ UNCHANGED <<rx, tx, queue, host, history>>

\* Taking the endpoint down ends its connection, and Thread is disabled.
fd_rpc_channel_thread_tcp_down ==
    /\ endpoint' = [up |-> FALSE, at |-> "closed", held |-> <<>>]
    /\ IF endpoint.at = "closed" THEN UNCHANGED <<rx, tx, queue, host>> ELSE Cleaned
    /\ history' = [history EXCEPT !.late = @ \/ Queued("connected"),
                                  !.crossed = IF endpoint.at = "closed" THEN @ ELSE Crossed]

fd_rpc_channel_thread_down(changed, calls) ==
    /\ IF state \in {"listening", "connected"} THEN fd_rpc_channel_thread_tcp_down
         ELSE UNCHANGED <<endpoint, rx, tx, queue, host, history>>
    /\ net' = [net EXCEPT !.enabled = FALSE, !.active = FALSE, !.changed = changed, !.calls = calls]
    /\ state' = "none"

\* Mutant: a role that is no longer active does not take the channel down.
StateChangedForgetsRole ==
    /\ net.changed
    /\ role' = net.active
    /\ IF net.active THEN fd_rpc_channel_thread_up
         ELSE /\ net' = [net EXCEPT !.changed = FALSE]
              /\ UNCHANGED <<state, endpoint, rx, tx, queue, host, history>>
    /\ UNCHANGED <<timer, worker, app>>

fd_rpc_channel_thread_ot_StateChanged ==
    /\ net.changed
    /\ role' = net.active
    /\ CASE ~role /\ net.active -> fd_rpc_channel_thread_up
         [] role /\ ~net.active -> fd_rpc_channel_thread_down(FALSE, net.calls)
         [] OTHER -> /\ net' = [net EXCEPT !.changed = FALSE]
                     /\ UNCHANGED <<state, endpoint, rx, tx, queue, host, history>>
    /\ UNCHANGED <<timer, worker, app>>

\* The application's thread; a callback may come before Thread is enabled again.
fd_rpc_channel_thread_stop ==
    /\ app = "idle" /\ state # "none" /\ net.calls < bounds.calls
    /\ fd_rpc_channel_thread_down(net.changed \/ net.active, net.calls + 1)
    /\ UNCHANGED <<role, timer, worker, app>>
SetDataset ==
    /\ app = "idle" /\ net.calls < bounds.calls
    /\ app' = "dataset"
    /\ IF state # "none" THEN fd_rpc_channel_thread_down(net.changed \/ net.active, net.calls)
         ELSE UNCHANGED <<state, net, endpoint, rx, tx, queue, host, history>>
    /\ UNCHANGED <<role, timer, worker>>
fd_rpc_channel_thread_set_dataset ==
    /\ app = "dataset" /\ app' = "idle"
    /\ net' = [net EXCEPT !.enabled = TRUE, !.calls = @ + 1]
    /\ state' = "started"
    /\ history' = [history EXCEPT !.replaced = @ \/ role \/ net.changed]
    /\ UNCHANGED <<role, endpoint, rx, tx, queue, timer, worker, host>>

\* External: the device joins a Thread network, or loses it.
RoleChanges ==
    /\ net.enabled /\ net.roles < bounds.roles
    /\ net' = [net EXCEPT !.active = ~@, !.changed = TRUE, !.roles = @ + 1]
    /\ UNCHANGED <<state, role, endpoint, rx, tx, queue, timer, worker, app, host, history>>

-----------------------------------------------------------------------------
(* The work queue. *)

Dequeued(w) == worker = Idle /\ queue # <<>> /\ Head(queue) = w /\ queue' = Tail(queue)
At(where, data) == worker' = [at |-> where, data |-> data]

fd_rpc_channel_thread_connected_work ==
    /\ Dequeued("connected")
    /\ state' = "connected" /\ timer' = TRUE
    /\ UNCHANGED <<role, net, endpoint, rx, tx, worker, app, host, history>>

fd_rpc_channel_thread_disconnected_work ==
    /\ Dequeued("disconnected")
    /\ timer' = FALSE
    /\ state' = IF state = "connected" THEN "listening" ELSE state
    /\ UNCHANGED <<role, net, endpoint, rx, tx, worker, app, host, history>>

\* The work is done when the ring is empty.
fd_rpc_channel_thread_rx_work ==
    /\ \/ Dequeued("rx")
       \/ worker.at = "rx" /\ UNCHANGED queue
    /\ IF rx.ring = <<>> THEN worker' = Idle ELSE At("append", FirstOf(rx.ring, GetChunk))
    /\ rx' = [rx EXCEPT !.ring = After(@, GetChunk)]
    /\ UNCHANGED <<state, role, net, endpoint, tx, timer, app, host, history>>

\* The packet comes after the one that was handled last.
Follows(p) == \/ history.handled = <<>>
              \/ history.handled[1].connection < p[1].connection
              \/ history.handled[1].connection = p[1].connection /\ history.handled[1].n < p[1].n

\* One octet after the other is put into the packet; a delimiter ends it.
received_data ==
    /\ worker.at = "append"
    /\ LET o == Head(worker.data)
           p == Append(rx.packet, o)
       IN  /\ rx' = [rx EXCEPT !.packet = IF IsDelimiter(o) THEN <<>> ELSE p]
           /\ history' = CASE ~IsDelimiter(o) \/ rx.packet = <<>> -> history
                            [] IsPacket(p) -> [history EXCEPT !.handled = p, !.ordered = @ /\ Follows(p)]
                            [] OTHER -> [history EXCEPT !.rejected = TRUE]
    /\ IF Len(worker.data) = 1 THEN At("rx", <<>>) ELSE At("append", Tail(worker.data))
    /\ UNCHANGED <<state, role, net, endpoint, tx, queue, timer, app, host>>

\* fd_rpc_channel_thread_tx, for tx_work and for timer_work.
TxWork ==
    /\ Dequeued("tx")
    /\ IF tx.pending \/ tx.ring = <<>> THEN UNCHANGED worker
         ELSE At("copy", FirstOf(tx.ring, SendBuffer))
    /\ UNCHANGED <<state, role, net, endpoint, rx, tx, timer, app, host, history>>
TxCopy ==
    /\ worker.at = "copy" /\ At("send", worker.data)
    /\ tx' = [tx EXCEPT !.pending = TRUE, !.buffer = worker.data]
    /\ UNCHANGED <<state, role, net, endpoint, rx, queue, timer, app, host, history>>

\* The stack may have no buffer for the reference.
fd_rpc_channel_thread_tcp_send ==
    /\ worker.at = "send"
    /\ \/ /\ endpoint.at = "open"
          /\ endpoint' = [endpoint EXCEPT !.held = Append(@, Len(worker.data))]
          /\ At("finish", worker.data)
          /\ UNCHANGED tx
       \/ /\ worker' = Idle
          /\ tx' = [tx EXCEPT !.pending = FALSE]
          /\ UNCHANGED endpoint
    /\ UNCHANGED <<state, role, net, rx, queue, timer, app, host, history>>

\* ring_buf_get_finish fails when the ring was reset since the claim.
TxFinish ==
    /\ worker.at = "finish" /\ worker' = Idle
    /\ tx' = IF FirstOf(tx.ring, Len(worker.data)) = worker.data
               THEN [tx EXCEPT !.ring = After(@, Len(worker.data))] ELSE tx
    /\ UNCHANGED <<state, role, net, endpoint, rx, queue, timer, app, host, history>>

fd_rpc_channel_thread_timer ==
    /\ timer /\ ~Queued("tx") /\ queue' = Append(queue, "tx")
    /\ UNCHANGED <<state, role, net, endpoint, rx, tx, timer, worker, app, host, history>>

\* Any thread may write; a packet that does not fit is refused.
fd_rpc_channel_thread_packet_write ==
    /\ state = "connected" /\ history.written < bounds.writes
    /\ Len(tx.ring) < TxRing
    /\ tx' = [tx EXCEPT !.ring = Append(@, Octet(Connection, history.written + 1))]
    /\ queue' = QueuedWith("tx", queue)
    /\ history' = [history EXCEPT !.written = @ + 1]
    /\ UNCHANGED <<state, role, net, endpoint, rx, timer, worker, app, host>>

-----------------------------------------------------------------------------
(* The host: SocketChannel. *)

HostUnchanged ==
    UNCHANGED <<state, role, net, endpoint, rx, tx, queue, timer, worker, app, history>>

\* A packet that the program writes is queued for its thread, which sends it; sendall
\* raises when the connection is gone, which ends the thread.
run_loop ==
    /\ host.at # "off" /\ host.packets < bounds.packets
    /\ LET n == 2 * host.packets
       IN  host' = IF host.at = "broken" THEN [host EXCEPT !.at = "off"]
                   ELSE [host EXCEPT !.packets = @ + 1,
                            !.to_device = @ \o <<Octet(Connection, n + 1), Octet(Connection, n + 2)>>]
    /\ HostUnchanged

close ==
    /\ host.at # "off"
    /\ host' = [host EXCEPT !.at = "off"]
    /\ HostUnchanged

-----------------------------------------------------------------------------
Callbacks == \/ fd_rpc_channel_thread_ot_TcpReceiveAvailable
             \/ fd_rpc_channel_thread_send_done
             \/ fd_rpc_channel_thread_ot_StateChanged
             \/ (endpoint.at = "aborted" /\ fd_rpc_channel_thread_ot_TcpDisconnected)
WorkQueue == \/ fd_rpc_channel_thread_connected_work \/ fd_rpc_channel_thread_disconnected_work
             \/ fd_rpc_channel_thread_rx_work \/ received_data
             \/ TxWork \/ TxCopy \/ TxFinish \/ fd_rpc_channel_thread_tcp_send
Environment == \/ fd_rpc_channel_thread_connected \/ fd_rpc_channel_thread_ot_TcpDisconnected
               \/ fd_rpc_channel_thread_stop \/ SetDataset \/ fd_rpc_channel_thread_set_dataset
               \/ RoleChanges \/ fd_rpc_channel_thread_packet_write
               \/ run_loop \/ close

ThreadNext == (Callbacks \/ WorkQueue \/ fd_rpc_channel_thread_timer \/ Environment) /\ UNCHANGED bounds

ThreadSpec == ThreadInit /\ [][ThreadNext]_threadVars

-----------------------------------------------------------------------------
(* Properties. *)

TypeOK ==
    /\ state \in {"none", "started", "listening", "connected"} /\ role \in BOOLEAN
    /\ endpoint.at \in {"closed", "open", "aborted"} /\ timer \in BOOLEAN
    /\ Len(rx.ring) <= RxRing /\ Len(tx.ring) <= TxRing
    /\ queue \in Seq({"connected", "disconnected", "rx", "tx"}) /\ Len(queue) <= 4
    /\ worker.at \in {"idle", "rx", "append", "copy", "send", "finish"}
    /\ app \in {"idle", "dataset"} /\ host.at \in {"off", "running", "broken"}

\* What the channel reports is what Thread and the endpoint are, once callbacks and
\* works are through: it listens exactly on an active node, is connected exactly
\* while there is a connection, and retries exactly then.  Four orders of events
\* break it, in all of which the code leaves the state wrong: with both works queued,
\* a connection that begins while connected_work is the first of them (line 180; the
\* channel ends closed with a host connected), or one that ends while
\* disconnected_work is the first (line 205; connected_work runs last and leaves an
\* open channel and a running timer without a host) (merged); connected_work that
\* runs after the endpoint was taken down (line 161; late); and set_dataset on an
\* active node, whose change of role is reported after Thread was enabled again
\* (line 564; replaced).
Settled == /\ app = "idle" /\ ~net.changed /\ endpoint.at # "aborted"
           /\ ~Queued("connected") /\ ~Queued("disconnected")
ChannelFollowsNetwork ==
    Settled /\ ~history.merged /\ ~history.late /\ ~history.replaced =>
        /\ net.enabled <=> state # "none"
        /\ net.active <=> endpoint.up
        /\ endpoint.up <=> state \in {"listening", "connected"}
        /\ endpoint.at = "open" <=> state = "connected"
        /\ timer <=> state = "connected"

\* Packets reach the RPC layer whole, in order and in their own connection, and the
\* host gets what was written in its connection, in order and without a gap, from a
\* buffer that is not written while the stack refers to it.  Three things can break it:
\* octets that rx_work took from the ring before a reset and put into the packet after
\* it (line 144), octets that tx claimed before a reset and sent after it (line 264),
\* and octets that do not fit into the receive ring and are dropped (line 152).
OctetsKept ==
    /\ history.rejected => "rx" \in history.crossed \/ history.dropped
    /\ history.ordered
    /\ "tx" \notin history.crossed =>
          /\ host.got = [i \in DOMAIN host.got |-> Octet(Connection, history.first + i)]
          /\ Len(endpoint.held) <= 1
          /\ endpoint.held # <<>> => tx.pending /\ Len(tx.buffer) = Head(endpoint.held)
=============================================================================
