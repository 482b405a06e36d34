-------------------------- MODULE ChannelProofs ---------------------------
(***************************************************************************)
(* Proofs about the channels to the host: RPC over Thread with its TCP     *)
(* transport, and the L2CAP channel over Bluetooth with the connections it *)
(* is opened on, for rings, buffers and chunks of every size and for every *)
(* bound.                                                                  *)
(*                                                                         *)
(* Over Thread, first, what the channel reports follows the network: the   *)
(* works that are still queued account for every difference between the    *)
(* two.  Then, the octets: those being received stay in their order and,   *)
(* while nothing was dropped and nothing crossed a reset of the buffers,   *)
(* whole; those being sent reach the host as they were written, since what *)
(* the host has, the reference of the stack, what the work queue claimed   *)
(* and the ring follow each other without a gap.                           *)
(*                                                                         *)
(* Over Bluetooth, what the application got, the copy of the work and the  *)
(* ring rise one after the other and account for every octet received, also *)
(* when the ring is emptied between the copy and the removal.              *)
(***************************************************************************)
EXTENDS ThreadTcp, Ble, SequenceTheorems, FiniteSetTheorems, TLAPS

(* The kinds of the records. *)

Works == {"connected", "disconnected", "rx", "tx"}
Octets == [connection : Nat, n : Nat]
NetRecord == [enabled : BOOLEAN, active : BOOLEAN, changed : BOOLEAN, roles : Nat, calls : Nat]
EndpointRecord == [up : BOOLEAN, at : {"closed", "open", "aborted"}, held : Seq(Nat)]
RxRecord == [ring : Seq(Octets), packet : Seq(Octets)]
TxRecord == [ring : Seq(Octets), pending : BOOLEAN, buffer : Seq(Octets)]
WorkerRecord == [at : {"idle", "rx", "append", "copy", "send", "finish"}, data : Seq(Octets)]
HostRecord == [at : {"off", "running", "broken"}, to_device : Seq(Octets), got : Seq(Octets), packets : Nat]
HistoryRecord ==
  [connection : Nat, written : Nat, first : Nat, handled : Seq(Octets), ordered : BOOLEAN,
   rejected : BOOLEAN, dropped : BOOLEAN, crossed : SUBSET {"rx", "tx"},
   merged : BOOLEAN, late : BOOLEAN, replaced : BOOLEAN]

Typed ==
  /\ state \in {"none", "started", "listening", "connected"} /\ role \in BOOLEAN
  /\ timer \in BOOLEAN /\ app \in {"idle", "dataset"}
  /\ net \in NetRecord /\ endpoint \in EndpointRecord
  /\ rx \in RxRecord
  /\ tx \in TxRecord
  /\ queue \in Seq(Works)
  /\ worker \in WorkerRecord
  /\ worker.at = "append" => worker.data # <<>>
  /\ worker.at \in {"copy", "send", "finish"} => worker.data # <<>>
  /\ host \in HostRecord /\ history \in HistoryRecord
  /\ Len(rx.ring) <= RxRing

-----------------------------------------------------------------------------
(* Sequences. *)

\* The front of a sequence and what comes after it.
LEMMA FrontFacts ==
  ASSUME NEW S, NEW s \in Seq(S), NEW n \in Nat
  PROVE  /\ FirstOf(s, n) \in Seq(S) /\ After(s, n) \in Seq(S)
         /\ Len(FirstOf(s, n)) = Fewer(n, Len(s)) /\ Len(After(s, n)) = Len(s) - Fewer(n, Len(s))
         /\ \A i \in 1 .. Fewer(n, Len(s)) : FirstOf(s, n)[i] = s[i]
         /\ \A i \in 1 .. Len(s) - Fewer(n, Len(s)) : After(s, n)[i] = s[n + i]
         /\ Fewer(n, Len(s)) \in Nat /\ Fewer(n, Len(s)) <= n /\ Fewer(n, Len(s)) <= Len(s)
         /\ s # <<>> /\ n # 0 => FirstOf(s, n) # <<>>
<1> DEFINE m == Fewer(n, Len(s))
<1>1. m \in Nat /\ m <= n /\ m <= Len(s) /\ (m = n \/ m = Len(s)) /\ Len(s) \in Nat
  BY DEF Fewer
<1>2. FirstOf(s, n) = [i \in 1 .. m |-> s[i]]
  <2>1. FirstOf(s, n) = SubSeq(s, 1, m)
    BY DEF FirstOf
  <2> HIDE DEF m
  <2>2. \A i \in 1 .. m : s[i] \in S
    BY <1>1
  <2> QED
    BY <1>1, <2>1, <2>2
<1>3. After(s, n) = [i \in 1 .. Len(s) - m |-> s[n + i]]
  <2>1. After(s, n) = SubSeq(s, n + 1, Len(s))
    BY DEF After
  <2> HIDE DEF m
  <2> QED
    BY <1>1, <2>1
<1>4. Len(s) - m \in Nat /\ \A i \in 1 .. Len(s) - m : n + i \in 1 .. Len(s)
  BY <1>1
<1> HIDE DEF m
<1>5. (\A i \in 1 .. m : s[i] \in S) /\ (\A i \in 1 .. Len(s) - m : s[n + i] \in S)
  BY <1>1, <1>4
<1>6. FirstOf(s, n) \in Seq(S) /\ Len(FirstOf(s, n)) = m
  BY <1>1, <1>2, <1>5
<1>7. After(s, n) \in Seq(S) /\ Len(After(s, n)) = Len(s) - m
  BY <1>3, <1>4, <1>5
<1>8. s # <<>> /\ n # 0 => FirstOf(s, n) # <<>>
  BY <1>1, <1>6
<1> QED
  BY <1>1, <1>2, <1>3, <1>6, <1>7, <1>8 DEF m

\* What appending, joining and taking the head off make of a sequence.
LEMMA AppendFacts ==
  ASSUME NEW S, NEW s \in Seq(S), NEW t \in Seq(S), NEW e \in S
  PROVE  /\ s \o t \in Seq(S) /\ Len(s \o t) = Len(s) + Len(t)
         /\ Append(s, e) \in Seq(S) /\ Len(Append(s, e)) = Len(s) + 1
         /\ s # <<>> => Head(s) \in S /\ Tail(s) \in Seq(S) /\ Len(Tail(s)) = Len(s) - 1
         /\ <<>> \in Seq(S) /\ Len(s) \in Nat
  OBVIOUS

\* The work queue takes the first item.
LEMMA TakeOff ==
  ASSUME NEW w, Dequeued(w), Typed
  PROVE  queue' \in Seq(Works) /\ queue # <<>> /\ Head(queue) = w /\ queue' = Tail(queue) /\ worker = Idle
  BY DEF Dequeued, Typed

\* Submitting keeps the kind of the queue.
LEMMA SubmittedTyped ==
  ASSUME NEW q \in Seq(Works), NEW w \in Works
  PROVE  QueuedWith(w, q) \in Seq(Works)
  BY DEF QueuedWith

\* What can cross a reset is one of the two directions.
LEMMA CrossedTyped == Typed => Crossed \in SUBSET {"rx", "tx"}
<1> SUFFICES ASSUME Typed PROVE Crossed \in SUBSET {"rx", "tx"}
  OBVIOUS
<1>1. history.crossed \in SUBSET {"rx", "tx"}
  BY DEF Typed, HistoryRecord
<1> QED
  BY <1>1 DEF Crossed

\* The records are of their kinds.
LEMMA Records ==
  ASSUME Typed
  PROVE  /\ net \in NetRecord /\ endpoint \in EndpointRecord /\ rx \in RxRecord /\ tx \in TxRecord
         /\ worker \in WorkerRecord /\ host \in HostRecord /\ history \in HistoryRecord
  BY DEF Typed

\* At the start every record is of its kind.
LEMMA TypesStart == ThreadInit => Typed
<1> SUFFICES ASSUME ThreadInit PROVE Typed
  OBVIOUS
<1>0. <<>> \in Seq(Octets) /\ <<>> \in Seq(Nat) /\ <<>> \in Seq(Works) /\ Len(<<>>) = 0
  OBVIOUS
<1>1. net \in NetRecord /\ endpoint \in EndpointRecord
  BY <1>0 DEF ThreadInit, NetRecord, EndpointRecord
<1>2. rx \in RxRecord /\ tx \in TxRecord /\ worker \in WorkerRecord /\ Len(rx.ring) = 0
  BY <1>0 DEF ThreadInit, RxRecord, TxRecord, WorkerRecord, Idle
<1>3. host \in HostRecord
  BY <1>0 DEF ThreadInit, HostRecord
<1>4. history \in HistoryRecord
  BY <1>0 DEF ThreadInit, HistoryRecord
<1>5. worker.at = "idle" /\ Len(rx.ring) <= RxRing
  BY <1>2, ThreadAssumption DEF ThreadInit, Idle
<1>6. queue \in Seq(Works)
  BY <1>0 DEF ThreadInit
<1> QED
  BY <1>1, <1>2, <1>3, <1>4, <1>5, <1>6 DEF ThreadInit, Typed

\* Resetting the buffers.
LEMMA ResetTyped ==
  ASSUME Typed, fd_rpc_channel_thread_reset_buffers
  PROVE  /\ rx' \in RxRecord /\ Len(rx'.ring) <= RxRing /\ tx' \in TxRecord
         /\ rx' = [ring |-> <<>>, packet |-> <<>>]
<1>0. <<>> \in Seq(Octets) /\ Len(<<>>) = 0 /\ 0 <= RxRing
  BY ThreadAssumption
<1>1. rx' = [ring |-> <<>>, packet |-> <<>>] /\ tx' = [tx EXCEPT !.ring = <<>>, !.pending = FALSE]
  BY DEF fd_rpc_channel_thread_reset_buffers
<1> QED
  BY <1>0, <1>1, Records DEF RxRecord, TxRecord

\* Resetting them at the end of a connection.
LEMMA CleanedTyped ==
  ASSUME Typed, Cleaned
  PROVE  /\ rx' \in RxRecord /\ Len(rx'.ring) <= RxRing
         /\ tx' \in TxRecord /\ queue' \in Seq(Works) /\ host' \in HostRecord
<1>1. queue' \in Seq(Works)
  BY SubmittedTyped DEF Cleaned, Typed, Works
<1>2. \E a \in {"off", "broken"} : host' = [host EXCEPT !.at = a, !.to_device = <<>>]
  BY DEF Cleaned
<1>3. host' \in HostRecord
  <2>1. host \in HostRecord /\ <<>> \in Seq(Octets)
    BY Records
  <2> QED
    BY <1>2, <2>1, Zenon DEF HostRecord
<1> QED
  BY <1>1, <1>3, ResetTyped DEF Cleaned

\* Taking the channel down.
LEMMA DownTyped ==
  ASSUME Typed, NEW c \in BOOLEAN, NEW k \in Nat, fd_rpc_channel_thread_down(c, k)
  PROVE  /\ state' = "none" /\ net' \in NetRecord /\ endpoint' \in EndpointRecord
         /\ rx' \in RxRecord /\ Len(rx'.ring) <= RxRing
         /\ tx' \in TxRecord
         /\ queue' \in Seq(Works) /\ host' \in HostRecord /\ history' \in HistoryRecord
<1>1. state' = "none" /\ net' \in NetRecord
  BY Records DEF fd_rpc_channel_thread_down, NetRecord
<1>2. CASE state \notin {"listening", "connected"}
  BY <1>1, <1>2 DEF fd_rpc_channel_thread_down, Typed
<1>3. CASE state \in {"listening", "connected"}
  <2>1. fd_rpc_channel_thread_tcp_down
    BY <1>3 DEF fd_rpc_channel_thread_down
  <2>2. endpoint' \in EndpointRecord
    BY <2>1 DEF fd_rpc_channel_thread_tcp_down, EndpointRecord
  <2>3. history' \in HistoryRecord
    <3>1. \E b \in BOOLEAN, c1 \in SUBSET {"rx", "tx"} : history' = [history EXCEPT !.late = b, !.crossed = c1]
      <4>1. history.crossed \in SUBSET {"rx", "tx"} /\ Crossed \in SUBSET {"rx", "tx"}
        BY Records, CrossedTyped DEF HistoryRecord
      <4>2. history' = [history EXCEPT !.late = history.late \/ Queued("connected"),
                                       !.crossed = IF endpoint.at = "closed" THEN history.crossed ELSE Crossed]
        BY <2>1 DEF fd_rpc_channel_thread_tcp_down
      <4>3. (history.late \/ Queued("connected")) \in BOOLEAN
        OBVIOUS
      <4> QED
        BY <4>1, <4>2, <4>3
    <3> QED
      BY <3>1, Records DEF HistoryRecord
  <2>4. CASE endpoint.at = "closed"
    BY <1>1, <2>1, <2>2, <2>3, <2>4 DEF fd_rpc_channel_thread_tcp_down, Typed
  <2>5. CASE endpoint.at # "closed"
    <3>1. Cleaned
      BY <2>1, <2>5 DEF fd_rpc_channel_thread_tcp_down
    <3> QED
      BY <3>1, <1>1, <2>2, <2>3, CleanedTyped
  <2> QED
    BY <2>4, <2>5
<1> QED
  BY <1>2, <1>3

\* Conditions are truth values.
LEMMA Booleans == \A p, q : (p \/ q) \in BOOLEAN /\ (p /\ q) \in BOOLEAN
  OBVIOUS

\* Every step keeps the records of their kinds.
LEMMA TypesKept == ASSUME Typed, [ThreadNext]_threadVars PROVE Typed'
<1>1. CASE fd_rpc_channel_thread_connected
  <2>1. queue' \in Seq(Works)
    BY <1>1, SubmittedTyped DEF fd_rpc_channel_thread_connected, Typed, Works
  <2>2. \E b \in BOOLEAN, x \in SUBSET {"rx", "tx"} :
           history' = [history EXCEPT !.connection = history.connection + 1, !.first = history.written,
                                      !.crossed = x, !.merged = b]
    BY <1>1, CrossedTyped, Booleans DEF fd_rpc_channel_thread_connected
  <2>3. history' \in HistoryRecord
    <3>1. history \in HistoryRecord /\ history.connection + 1 \in Nat /\ history.written \in Nat
      BY Records DEF HistoryRecord
    <3> QED
      BY <2>2, <3>1, Zenon DEF HistoryRecord
  <2>4. endpoint' \in EndpointRecord
    BY <1>1, Records DEF fd_rpc_channel_thread_connected, EndpointRecord
  <2>5. host' \in HostRecord
    BY <1>1 DEF fd_rpc_channel_thread_connected, HostRecord
  <2>6. rx' \in RxRecord /\ Len(rx'.ring) <= RxRing /\ tx' \in TxRecord
    BY <1>1, ResetTyped DEF fd_rpc_channel_thread_connected
  <2> QED
    BY <1>1, <2>1, <2>3, <2>4, <2>5, <2>6 DEF fd_rpc_channel_thread_connected, Typed
<1>2. CASE fd_rpc_channel_thread_ot_TcpDisconnected
  <2>1. Cleaned
    BY <1>2 DEF fd_rpc_channel_thread_ot_TcpDisconnected, fd_rpc_channel_thread_disconnected
  <2>2. \E b \in BOOLEAN, x \in SUBSET {"rx", "tx"} : history' = [history EXCEPT !.crossed = x, !.merged = b]
    BY <1>2, CrossedTyped, Booleans DEF fd_rpc_channel_thread_ot_TcpDisconnected, fd_rpc_channel_thread_disconnected
  <2>3. history' \in HistoryRecord
    <3>1. history \in HistoryRecord
      BY Records
    <3> QED
      BY <2>2, <3>1, Zenon DEF HistoryRecord
  <2>4. endpoint' \in EndpointRecord
    <3>1. endpoint \in EndpointRecord /\ <<>> \in Seq(Nat) /\ endpoint' = [endpoint EXCEPT !.at = "closed", !.held = <<>>]
      BY <1>2, Records DEF fd_rpc_channel_thread_ot_TcpDisconnected
    <3> QED
      BY <3>1, Zenon DEF EndpointRecord
  <2> QED
    BY <1>2, <2>1, <2>3, <2>4, CleanedTyped DEF fd_rpc_channel_thread_ot_TcpDisconnected, Typed
<1>3. CASE fd_rpc_channel_thread_ot_TcpReceiveAvailable
  <2>1. CASE host.to_device # <<>>
    <3>1. PICK n \in 1 .. Len(host.to_device) :
             /\ fd_rpc_channel_thread_rx(FirstOf(host.to_device, n))
             /\ host' = [host EXCEPT !.to_device = After(@, n)]
      BY <1>3, <2>1 DEF fd_rpc_channel_thread_ot_TcpReceiveAvailable
    <3>2. host.to_device \in Seq(Octets) /\ rx.ring \in Seq(Octets) /\ Len(rx.ring) \in Nat /\ Len(rx.ring) <= RxRing /\ n \in Nat
      BY Records DEF Typed, HostRecord, RxRecord
    <3> DEFINE data == FirstOf(host.to_device, n)
               room == RxRing - Len(rx.ring)
    <3>3. data \in Seq(Octets) /\ After(host.to_device, n) \in Seq(Octets)
      BY <3>2, FrontFacts
    <3>4. room \in Nat
      BY <3>2, ThreadAssumption
    <3> HIDE DEF data, room
    <3>5. FirstOf(data, room) \in Seq(Octets) /\ Len(FirstOf(data, room)) <= room
      BY <3>3, <3>4, FrontFacts
    <3>6. rx.ring \o FirstOf(data, room) \in Seq(Octets) /\ Len(rx.ring \o FirstOf(data, room)) <= RxRing
      <4>1. rx.ring \o FirstOf(data, room) \in Seq(Octets)
            /\ Len(rx.ring \o FirstOf(data, room)) = Len(rx.ring) + Len(FirstOf(data, room))
        BY <3>5, <3>2, AppendFacts
      <4>2. Len(FirstOf(data, room)) \in Nat /\ RxRing \in Nat
        BY <3>5, ThreadAssumption
      <4> QED
        <5> DEFINE f == Len(FirstOf(data, room))
                   g == Len(rx.ring \o FirstOf(data, room))
        <5>1. f \in Nat /\ f <= room /\ g = Len(rx.ring) + f /\ room = RxRing - Len(rx.ring)
          BY <4>1, <4>2, <3>5 DEF room
        <5> HIDE DEF f, g
        <5>2. g <= RxRing
          BY <5>1, <4>2, <3>2
        <5> QED
          BY <5>2, <4>1 DEF g
    <3>7. rx' = [rx EXCEPT !.ring = rx.ring \o FirstOf(data, room)]
      BY <3>1 DEF fd_rpc_channel_thread_rx, data, room
    <3>8. rx' \in RxRecord /\ Len(rx'.ring) <= RxRing
      BY <3>6, <3>7, Records DEF RxRecord
    <3>9. host' \in HostRecord
      BY <3>1, <3>3, Records DEF HostRecord
    <3>10. queue' \in Seq(Works)
      BY <3>1, SubmittedTyped DEF fd_rpc_channel_thread_rx, Typed, Works
    <3>11. \E b \in BOOLEAN : history' = [history EXCEPT !.dropped = b]
      BY <3>1, Booleans DEF fd_rpc_channel_thread_rx, data
    <3>12. history' \in HistoryRecord
      BY <3>11, Records DEF HistoryRecord
    <3> QED
      BY <1>3, <2>1, <3>8, <3>9, <3>10, <3>12 DEF fd_rpc_channel_thread_ot_TcpReceiveAvailable, Typed
  <2>2. CASE host.to_device = <<>>
    <3>1. endpoint' \in EndpointRecord
      <4>1. endpoint \in EndpointRecord /\ <<>> \in Seq(Nat) /\ endpoint' = [endpoint EXCEPT !.at = "aborted", !.held = <<>>]
        BY <1>3, <2>2, Records DEF fd_rpc_channel_thread_ot_TcpReceiveAvailable
      <4> QED
        BY <4>1, Zenon DEF EndpointRecord
    <3> QED
      BY <1>3, <2>2, <3>1 DEF fd_rpc_channel_thread_ot_TcpReceiveAvailable, Typed
  <2> QED
    BY <2>1, <2>2
<1>4. CASE fd_rpc_channel_thread_send_done
  <2>1. Head(endpoint.held) \in Nat /\ Tail(endpoint.held) \in Seq(Nat) /\ host.got \in Seq(Octets) /\ tx.buffer \in Seq(Octets)
    <3>1. endpoint.held \in Seq(Nat) /\ endpoint.held # <<>>
      BY <1>4, Records DEF fd_rpc_channel_thread_send_done, EndpointRecord
    <3> QED
      BY <3>1, Records, AppendFacts DEF HostRecord, TxRecord
  <2>2. FirstOf(tx.buffer, Head(endpoint.held)) \in Seq(Octets)
    BY <2>1, FrontFacts
  <2>3. host.got \o FirstOf(tx.buffer, Head(endpoint.held)) \in Seq(Octets)
    BY <2>1, <2>2
  <2>4. host' \in HostRecord
    BY <1>4, <2>3, Records DEF fd_rpc_channel_thread_send_done, HostRecord
  <2>5. queue' \in Seq(Works)
    BY <1>4, SubmittedTyped DEF fd_rpc_channel_thread_send_done, Typed, Works
  <2>6. tx' \in TxRecord
    BY <1>4, Records DEF fd_rpc_channel_thread_send_done, TxRecord
  <2>7. endpoint' \in EndpointRecord
    BY <1>4, <2>1, Records DEF fd_rpc_channel_thread_send_done, EndpointRecord
  <2> QED
    BY <1>4, <2>4, <2>5, <2>6, <2>7 DEF fd_rpc_channel_thread_send_done, Typed
<1>5. CASE fd_rpc_channel_thread_ot_StateChanged
  <2>1. role' \in BOOLEAN
    BY <1>5, Records DEF fd_rpc_channel_thread_ot_StateChanged, NetRecord
  <2>2. CASE ~role /\ net.active
    <3>1. fd_rpc_channel_thread_up
      BY <1>5, <2>2 DEF fd_rpc_channel_thread_ot_StateChanged
    <3>2. net' \in NetRecord /\ endpoint' \in EndpointRecord
      BY <3>1, Records DEF fd_rpc_channel_thread_up, fd_rpc_channel_thread_tcp_up, NetRecord, EndpointRecord
    <3> QED
      BY <1>5, <2>1, <3>1, <3>2 DEF fd_rpc_channel_thread_ot_StateChanged, fd_rpc_channel_thread_up, Typed
  <2>3. CASE role /\ ~net.active
    <3>1. fd_rpc_channel_thread_down(FALSE, net.calls) /\ net.calls \in Nat
      BY <1>5, <2>3, Records DEF fd_rpc_channel_thread_ot_StateChanged, NetRecord
    <3> QED
      BY <1>5, <2>1, <3>1, DownTyped DEF fd_rpc_channel_thread_ot_StateChanged, Typed
  <2>4. CASE ~(~role /\ net.active) /\ ~(role /\ ~net.active)
    <3>1. net' = [net EXCEPT !.changed = FALSE] /\ UNCHANGED <<state, endpoint, rx, tx, queue, host, history>>
      BY <1>5, <2>4 DEF fd_rpc_channel_thread_ot_StateChanged
    <3>2. net' \in NetRecord
      BY <3>1, Records DEF NetRecord
    <3> QED
      BY <1>5, <2>1, <3>1, <3>2 DEF fd_rpc_channel_thread_ot_StateChanged, Typed
  <2> QED
    BY <2>2, <2>3, <2>4
<1>6. CASE fd_rpc_channel_thread_stop
  <2>1. fd_rpc_channel_thread_down(net.changed \/ net.active, net.calls + 1)
        /\ (net.changed \/ net.active) \in BOOLEAN /\ net.calls + 1 \in Nat
    BY <1>6, Records, Booleans DEF fd_rpc_channel_thread_stop, NetRecord
  <2> QED
    BY <1>6, <2>1, DownTyped DEF fd_rpc_channel_thread_stop, Typed
<1>7. CASE SetDataset
  <2>1. CASE state # "none"
    <3>1. fd_rpc_channel_thread_down(net.changed \/ net.active, net.calls)
          /\ (net.changed \/ net.active) \in BOOLEAN /\ net.calls \in Nat
      BY <1>7, <2>1, Records, Booleans DEF SetDataset, NetRecord
    <3> QED
      BY <1>7, <3>1, DownTyped DEF SetDataset, Typed
  <2>2. CASE state = "none"
    BY <1>7, <2>2 DEF SetDataset, Typed
  <2> QED
    BY <2>1, <2>2
<1>8. CASE fd_rpc_channel_thread_set_dataset
  <2>1. \E b \in BOOLEAN : history' = [history EXCEPT !.replaced = b]
    BY <1>8, Booleans DEF fd_rpc_channel_thread_set_dataset
  <2>2. history' \in HistoryRecord
    <3>1. history \in HistoryRecord
      BY Records
    <3> QED
      BY <2>1, <3>1, Zenon DEF HistoryRecord
  <2>3. net' \in NetRecord
    <3>1. net \in NetRecord /\ net.calls + 1 \in Nat /\ net' = [net EXCEPT !.enabled = TRUE, !.calls = net.calls + 1]
      BY <1>8, Records DEF fd_rpc_channel_thread_set_dataset, NetRecord
    <3> QED
      BY <3>1, Zenon DEF NetRecord
  <2> QED
    BY <1>8, <2>2, <2>3 DEF fd_rpc_channel_thread_set_dataset, Typed
<1>9. CASE RoleChanges
  <2>1. \E b \in BOOLEAN : net' = [net EXCEPT !.active = b, !.changed = TRUE, !.roles = net.roles + 1]
    BY <1>9 DEF RoleChanges
  <2>2. net' \in NetRecord
    <3>1. net \in NetRecord /\ net.roles + 1 \in Nat
      BY Records DEF NetRecord
    <3> QED
      BY <2>1, <3>1, Zenon DEF NetRecord
  <2> QED
    BY <1>9, <2>2 DEF RoleChanges, Typed
<1>10. CASE fd_rpc_channel_thread_connected_work
  BY <1>10, TakeOff DEF fd_rpc_channel_thread_connected_work, Typed
<1>11. CASE fd_rpc_channel_thread_disconnected_work
  BY <1>11, TakeOff DEF fd_rpc_channel_thread_disconnected_work, Typed
<1>12. CASE fd_rpc_channel_thread_rx_work
  <2>1. queue' \in Seq(Works)
    BY <1>12, TakeOff DEF fd_rpc_channel_thread_rx_work, Typed
  <2>2. rx.ring \in Seq(Octets) /\ Len(rx.ring) <= RxRing /\ GetChunk \in Nat /\ GetChunk # 0
    BY Records, ThreadAssumption DEF Typed, RxRecord
  <2>3. /\ FirstOf(rx.ring, GetChunk) \in Seq(Octets) /\ After(rx.ring, GetChunk) \in Seq(Octets)
        /\ Len(After(rx.ring, GetChunk)) <= RxRing
        /\ rx.ring # <<>> => FirstOf(rx.ring, GetChunk) # <<>>
    <3>1. Len(rx.ring) \in Nat /\ RxRing \in Nat
      BY <2>2, ThreadAssumption
    <3>2. /\ FirstOf(rx.ring, GetChunk) \in Seq(Octets) /\ After(rx.ring, GetChunk) \in Seq(Octets)
          /\ Len(After(rx.ring, GetChunk)) = Len(rx.ring) - Fewer(GetChunk, Len(rx.ring))
          /\ Fewer(GetChunk, Len(rx.ring)) \in Nat
          /\ rx.ring # <<>> => FirstOf(rx.ring, GetChunk) # <<>>
      BY <2>2, FrontFacts
    <3> QED
      BY <2>2, <3>1, <3>2
  <2>4. rx' = [rx EXCEPT !.ring = After(rx.ring, GetChunk)]
    BY <1>12 DEF fd_rpc_channel_thread_rx_work
  <2>5. worker' = Idle \/ (worker' = [at |-> "append", data |-> FirstOf(rx.ring, GetChunk)] /\ rx.ring # <<>>)
    BY <1>12, Zenon DEF fd_rpc_channel_thread_rx_work, At
  <2>6. rx' \in RxRecord /\ Len(rx'.ring) <= RxRing
    <3> DEFINE left == After(rx.ring, GetChunk)
    <3>1. left \in Seq(Octets) /\ Len(left) <= RxRing /\ rx' = [rx EXCEPT !.ring = left]
      BY <2>3, <2>4
    <3> HIDE DEF left
    <3> QED
      BY <3>1, Records DEF RxRecord
  <2> DEFINE chunk == FirstOf(rx.ring, GetChunk)
  <2>8. chunk \in Seq(Octets) /\ (rx.ring # <<>> => chunk # <<>>) /\ <<>> \in Seq(Octets)
    BY <2>3
  <2> HIDE DEF chunk
  <2>9. worker' = [at |-> "idle", data |-> <<>>] \/ (worker' = [at |-> "append", data |-> chunk] /\ rx.ring # <<>>)
    BY <2>5 DEF Idle, chunk
  <2>7. worker' \in WorkerRecord /\ worker'.at \in {"idle", "append"} /\ (worker'.at = "append" => worker'.data # <<>>)
    <3>1. CASE worker' = [at |-> "idle", data |-> <<>>]
      BY <3>1, <2>8 DEF WorkerRecord
    <3>2. CASE worker' = [at |-> "append", data |-> chunk] /\ rx.ring # <<>>
      BY <3>2, <2>8 DEF WorkerRecord
    <3> QED
      BY <2>9, <3>1, <3>2
  <2> QED
    BY <1>12, <2>1, <2>6, <2>7 DEF fd_rpc_channel_thread_rx_work, Typed
<1>13. CASE received_data
  <2>1. /\ worker.data \in Seq(Octets) /\ worker.data # <<>> /\ rx.packet \in Seq(Octets)
        /\ Head(worker.data) \in Octets /\ Tail(worker.data) \in Seq(Octets)
        /\ Len(worker.data) # 1 => Tail(worker.data) # <<>>
    <3>1. worker.data \in Seq(Octets) /\ worker.data # <<>> /\ rx.packet \in Seq(Octets)
      BY <1>13, Records DEF received_data, Typed, WorkerRecord, RxRecord
    <3>2. Head(worker.data) \in Octets /\ Tail(worker.data) \in Seq(Octets) /\ Len(Tail(worker.data)) = Len(worker.data) - 1
      BY <3>1, AppendFacts
    <3>3. Len(worker.data) # 0 /\ Len(worker.data) \in Nat
      BY <3>1
    <3>4. Len(worker.data) # 1 => Len(Tail(worker.data)) # 0
      BY <3>2, <3>3
    <3>5. Len(worker.data) # 1 => Tail(worker.data) # <<>>
      BY <3>4
    <3> QED
      BY <3>1, <3>2, <3>5
  <2>2. Append(rx.packet, Head(worker.data)) \in Seq(Octets)
    BY <2>1, AppendFacts
  <2> DEFINE p == Append(rx.packet, Head(worker.data))
  <2>3. rx' = [rx EXCEPT !.packet = p] \/ rx' = [rx EXCEPT !.packet = <<>>]
    BY <1>13 DEF received_data
  <2>4. \/ history' = history \/ history' = [history EXCEPT !.rejected = TRUE]
        \/ \E b \in BOOLEAN : history' = [history EXCEPT !.handled = p, !.ordered = b]
    <3>1. (history.ordered /\ Follows(p)) \in BOOLEAN
      OBVIOUS
    <3>2. \/ history' = history \/ history' = [history EXCEPT !.rejected = TRUE]
          \/ history' = [history EXCEPT !.handled = p, !.ordered = history.ordered /\ Follows(p)]
      BY <1>13 DEF received_data
    <3> HIDE DEF p
    <3> QED
      BY <3>1, <3>2, Zenon
  <2>5. p \in Seq(Octets)
    BY <2>2
  <2> HIDE DEF p
  <2>6. history' \in HistoryRecord
    <3>1. history \in HistoryRecord
      BY Records
    <3>2. CASE history' = history
      BY <3>1, <3>2
    <3>3. CASE history' = [history EXCEPT !.rejected = TRUE]
      BY <3>1, <3>3, Zenon DEF HistoryRecord
    <3>4. CASE \E b \in BOOLEAN : history' = [history EXCEPT !.handled = p, !.ordered = b]
      BY <3>1, <3>4, <2>5, Zenon DEF HistoryRecord
    <3> QED
      BY <2>4, <3>2, <3>3, <3>4
  <2>7. rx' \in RxRecord /\ rx'.ring = rx.ring
    <3>1. rx \in RxRecord /\ <<>> \in Seq(Octets)
      BY Records
    <3> QED
      BY <2>3, <2>5, <3>1, Zenon DEF RxRecord
  <2>8. \/ worker' = [at |-> "rx", data |-> <<>>]
        \/ worker' = [at |-> "append", data |-> Tail(worker.data)] /\ Tail(worker.data) # <<>>
    BY <1>13, <2>1 DEF received_data, At
  <2>9. worker' \in WorkerRecord /\ worker'.at \in {"rx", "append"} /\ (worker'.at = "append" => worker'.data # <<>>)
    <3> DEFINE d == Tail(worker.data)
    <3>1. d \in Seq(Octets) /\ <<>> \in Seq(Octets)
      BY <2>1
    <3>2. worker' = [at |-> "rx", data |-> <<>>] \/ (worker' = [at |-> "append", data |-> d] /\ d # <<>>)
      BY <2>8
    <3> HIDE DEF d
    <3>3. CASE worker' = [at |-> "rx", data |-> <<>>]
      BY <3>1, <3>3 DEF WorkerRecord
    <3>4. CASE worker' = [at |-> "append", data |-> d] /\ d # <<>>
      BY <3>1, <3>4 DEF WorkerRecord
    <3> QED
      BY <3>2, <3>3, <3>4
  <2> QED
    BY <1>13, <2>6, <2>7, <2>9 DEF received_data, Typed
<1>14. CASE TxWork
  <2>1. queue' \in Seq(Works)
    BY <1>14, TakeOff DEF TxWork
  <2>2. tx.ring \in Seq(Octets) /\ SendBuffer \in Nat /\ SendBuffer # 0
    BY Records, ThreadAssumption DEF TxRecord
  <2>3. FirstOf(tx.ring, SendBuffer) \in Seq(Octets) /\ (tx.ring # <<>> => FirstOf(tx.ring, SendBuffer) # <<>>)
    BY <2>2, FrontFacts
  <2>4. worker' = worker \/ (worker' = [at |-> "copy", data |-> FirstOf(tx.ring, SendBuffer)] /\ tx.ring # <<>>)
    BY <1>14, Zenon DEF TxWork, At
  <2>5. worker' = worker \/ (worker' \in WorkerRecord /\ worker'.at = "copy" /\ worker'.data # <<>>)
    <3> DEFINE d == FirstOf(tx.ring, SendBuffer)
    <3>1. d \in Seq(Octets) /\ (tx.ring # <<>> => d # <<>>)
      BY <2>3
    <3>2. worker' = worker \/ (worker' = [at |-> "copy", data |-> d] /\ tx.ring # <<>>)
      BY <2>4
    <3> HIDE DEF d
    <3> QED
      BY <3>1, <3>2 DEF WorkerRecord
  <2> QED
    BY <1>14, <2>1, <2>5 DEF TxWork, Typed
<1>15. CASE TxCopy
  <2>1. worker.data # <<>> /\ worker' \in WorkerRecord /\ worker'.at = "send" /\ worker'.data = worker.data
    BY <1>15, Records DEF TxCopy, At, Typed, WorkerRecord
  <2>2. tx' \in TxRecord
    BY <1>15, Records DEF TxCopy, TxRecord, WorkerRecord
  <2> QED
    BY <1>15, <2>1, <2>2 DEF TxCopy, Typed
<1>16. CASE fd_rpc_channel_thread_tcp_send
  <2>1. Len(worker.data) \in Nat /\ endpoint.held \in Seq(Nat)
    BY Records DEF WorkerRecord, EndpointRecord
  <2>2. Append(endpoint.held, Len(worker.data)) \in Seq(Nat)
    BY <2>1, AppendFacts
  <2>3. CASE endpoint' = [endpoint EXCEPT !.held = Append(endpoint.held, Len(worker.data))] /\ At("finish", worker.data) /\ UNCHANGED tx
    <3>1. endpoint' \in EndpointRecord
      BY <2>2, <2>3, Records DEF EndpointRecord
    <3>2. worker.data # <<>> /\ worker' \in WorkerRecord /\ worker'.at = "finish" /\ worker'.data = worker.data
      BY <1>16, <2>3, Records DEF fd_rpc_channel_thread_tcp_send, At, Typed, WorkerRecord
    <3> QED
      BY <1>16, <2>3, <3>1, <3>2 DEF fd_rpc_channel_thread_tcp_send, Typed
  <2>4. CASE worker' = Idle /\ tx' = [tx EXCEPT !.pending = FALSE] /\ UNCHANGED endpoint
    <3>1. tx' \in TxRecord /\ worker' \in WorkerRecord /\ worker'.at = "idle"
      <4>1. tx \in TxRecord /\ <<>> \in Seq(Octets)
        BY Records
      <4>2. tx' \in TxRecord
        BY <4>1, <2>4, Zenon DEF TxRecord
      <4> QED
        BY <4>1, <4>2, <2>4 DEF WorkerRecord, Idle
    <3> QED
      BY <1>16, <2>4, <3>1 DEF fd_rpc_channel_thread_tcp_send, Typed
  <2> QED
    BY <1>16, <2>3, <2>4 DEF fd_rpc_channel_thread_tcp_send
<1>17. CASE TxFinish
  <2>1. Len(worker.data) \in Nat /\ tx.ring \in Seq(Octets)
    BY Records DEF WorkerRecord, TxRecord
  <2>2. After(tx.ring, Len(worker.data)) \in Seq(Octets)
    BY <2>1, FrontFacts
  <2>3. tx' = tx \/ tx' = [tx EXCEPT !.ring = After(tx.ring, Len(worker.data))]
    BY <1>17 DEF TxFinish
  <2>4. tx' \in TxRecord /\ worker' \in WorkerRecord /\ worker'.at = "idle"
    BY <1>17, <2>2, <2>3, Records DEF TxFinish, TxRecord, WorkerRecord, Idle
  <2> QED
    BY <1>17, <2>4 DEF TxFinish, Typed
<1>18. CASE fd_rpc_channel_thread_timer
  <2>1. queue' \in Seq(Works)
    BY <1>18, AppendFacts DEF fd_rpc_channel_thread_timer, Typed, Works
  <2> QED
    BY <1>18, <2>1 DEF fd_rpc_channel_thread_timer, Typed
<1>19. CASE fd_rpc_channel_thread_packet_write
  <2>1. queue' \in Seq(Works)
    BY <1>19, SubmittedTyped DEF fd_rpc_channel_thread_packet_write, Typed, Works
  <2>2. Octet(Connection, history.written + 1) \in Octets /\ tx.ring \in Seq(Octets)
    BY Records DEF Octet, Octets, Connection, HistoryRecord, TxRecord
  <2>3. Append(tx.ring, Octet(Connection, history.written + 1)) \in Seq(Octets)
    BY <2>2, AppendFacts
  <2>4. history' \in HistoryRecord
    BY <1>19, Records DEF fd_rpc_channel_thread_packet_write, HistoryRecord
  <2>5. tx' \in TxRecord
    BY <1>19, <2>3, Records DEF fd_rpc_channel_thread_packet_write, TxRecord
  <2> QED
    BY <1>19, <2>1, <2>4, <2>5 DEF fd_rpc_channel_thread_packet_write, Typed
<1>20. CASE run_loop
  <2> DEFINE o1 == Octet(Connection, 2 * host.packets + 1)
             o2 == Octet(Connection, 2 * host.packets + 2)
  <2>1. o1 \in Octets /\ o2 \in Octets /\ host.to_device \in Seq(Octets)
    BY Records DEF Octet, Octets, Connection, HistoryRecord, HostRecord
  <2>2. \/ host' = [host EXCEPT !.at = "off"]
        \/ host' = [host EXCEPT !.packets = host.packets + 1, !.to_device = host.to_device \o <<o1, o2>>]
    BY <1>20 DEF run_loop
  <2> HIDE DEF o1, o2
  <2>3. <<o1, o2>> \in Seq(Octets)
    BY <2>1
  <2>4. host.to_device \o <<o1, o2>> \in Seq(Octets)
    BY <2>1, <2>3, AppendFacts
  <2>5. host' \in HostRecord
    <3>1. host \in HostRecord /\ host.packets + 1 \in Nat
      BY Records DEF HostRecord
    <3> DEFINE d == host.to_device \o <<o1, o2>>
    <3>2. d \in Seq(Octets)
      BY <2>4
    <3>3. host' = [host EXCEPT !.at = "off"] \/ host' = [host EXCEPT !.packets = host.packets + 1, !.to_device = d]
      BY <2>2
    <3> HIDE DEF d
    <3>4. CASE host' = [host EXCEPT !.at = "off"]
      BY <3>1, <3>4, Zenon DEF HostRecord
    <3>5. CASE host' = [host EXCEPT !.packets = host.packets + 1, !.to_device = d]
      BY <3>1, <3>2, <3>5, Zenon DEF HostRecord
    <3> QED
      BY <3>3, <3>4, <3>5
  <2> QED
    BY <1>20, <2>5 DEF run_loop, HostUnchanged, Typed
<1>21. CASE close
  <2>1. host' \in HostRecord
    BY <1>21, Records DEF close, HostRecord
  <2> QED
    BY <1>21, <2>1 DEF close, HostUnchanged, Typed
<1>22. CASE UNCHANGED threadVars
  BY <1>22 DEF threadVars, Typed
<1> QED
  BY <1>1, <1>2, <1>3, <1>4, <1>5, <1>6, <1>7, <1>8, <1>9, <1>10, <1>11, <1>12, <1>13, <1>14, <1>15,
     <1>16, <1>17, <1>18, <1>19, <1>20, <1>21, <1>22 DEF ThreadNext, Callbacks, WorkQueue, Environment
-----------------------------------------------------------------------------
(* The work queue. *)

Has(q, w) == \E i \in DOMAIN q : q[i] = w
Before(q, a, b) == \E i, j \in DOMAIN q : i < j /\ q[i] = a /\ q[j] = b
Once(q) == \A i, j \in DOMAIN q : q[i] = q[j] => i = j

\* A work is submitted once, behind the others.
LEMMA SubmittedFacts ==
  ASSUME NEW q \in Seq(Works), NEW w \in Works, Once(q)
  PROVE  /\ Once(QueuedWith(w, q))
         /\ \A x : Has(QueuedWith(w, q), x) <=> Has(q, x) \/ x = w
         /\ Has(q, w) => QueuedWith(w, q) = q
         /\ ~Has(q, w) => \A a, b : Before(QueuedWith(w, q), a, b) <=> Before(q, a, b) \/ (b = w /\ Has(q, a))
<1>1. CASE Has(q, w)
  BY <1>1 DEF QueuedWith, Has
<1>2. CASE ~Has(q, w)
  <2> DEFINE r == Append(q, w)
             n == Len(q)
  <2>1. QueuedWith(w, q) = r
    BY <1>2 DEF QueuedWith, Has
  <2>2. n \in Nat /\ DOMAIN q = 1 .. n /\ DOMAIN r = 1 .. n + 1 /\ r[n + 1] = w /\ \A i \in 1 .. n : r[i] = q[i]
    OBVIOUS
  <2> HIDE DEF r, n
  <2>3. \A i \in DOMAIN r : i \in DOMAIN q \/ i = n + 1
    BY <2>2
  <2>4. \A i \in DOMAIN q : i \in DOMAIN r /\ r[i] = q[i] /\ i # n + 1 /\ i < n + 1 /\ i \in Nat
    BY <2>2
  <2>5. n + 1 \in DOMAIN r /\ r[n + 1] = w
    BY <2>2
  <2>6. \A x : Has(r, x) <=> Has(q, x) \/ x = w
    BY <2>3, <2>4, <2>5 DEF Has
  <2>7. Once(r)
    BY <1>2, <2>3, <2>4, <2>5 DEF Once, Has
  <2>8. \A a, b : Before(r, a, b) <=> Before(q, a, b) \/ (b = w /\ Has(q, a))
    <3> SUFFICES ASSUME NEW a, NEW b PROVE Before(r, a, b) <=> Before(q, a, b) \/ (b = w /\ Has(q, a))
      OBVIOUS
    <3>1. ASSUME Before(r, a, b) PROVE Before(q, a, b) \/ (b = w /\ Has(q, a))
      <4>1. PICK i, j \in DOMAIN r : i < j /\ r[i] = a /\ r[j] = b
        BY <3>1 DEF Before
      <4>2. i \in DOMAIN q
        BY <4>1, <2>2, <2>3
      <4>3. CASE j \in DOMAIN q
        BY <4>1, <4>2, <4>3, <2>4 DEF Before
      <4>4. CASE j = n + 1
        BY <4>1, <4>2, <4>4, <2>4, <2>5 DEF Has
      <4> QED
        BY <4>3, <4>4, <2>3
    <3>2. ASSUME Before(q, a, b) PROVE Before(r, a, b)
      BY <3>2, <2>4 DEF Before
    <3>3. ASSUME b = w, Has(q, a) PROVE Before(r, a, b)
      BY <3>3, <2>4, <2>5 DEF Before, Has
    <3> QED
      BY <3>1, <3>2, <3>3
  <2> QED
    BY <1>2, <2>1, <2>6, <2>7, <2>8
<1> QED
  BY <1>1, <1>2

\* The work at the head of the queue was ahead of all others.
LEMMA DequeuedFacts ==
  ASSUME NEW q \in Seq(Works), q # <<>>, Once(q)
  PROVE  /\ Once(Tail(q))
         /\ \A x : Has(Tail(q), x) <=> Has(q, x) /\ x # Head(q)
         /\ \A a, b : a # Head(q) => (Before(Tail(q), a, b) <=> Before(q, a, b))
         /\ Has(q, Head(q))
         /\ \A x : Has(q, x) /\ x # Head(q) => Before(q, Head(q), x) /\ ~Before(q, x, Head(q))
<1> DEFINE t == Tail(q)
           n == Len(q)
           h == Head(q)
<1>1. n \in Nat /\ n # 0 /\ DOMAIN q = 1 .. n /\ DOMAIN t = 1 .. n - 1 /\ h = q[1]
      /\ \A i \in 1 .. n - 1 : t[i] = q[i + 1]
  OBVIOUS
<1> HIDE DEF t, n, h
<1>2. \A i \in DOMAIN t : i \in Nat /\ i + 1 \in DOMAIN q /\ t[i] = q[i + 1] /\ i + 1 # 1
  BY <1>1
<1>3. \A i \in DOMAIN q : i \in Nat /\ (i = 1 \/ (i - 1 \in DOMAIN t /\ q[i] = t[i - 1] /\ i > 1))
  BY <1>1
<1>4. 1 \in DOMAIN q /\ q[1] = h
  BY <1>1
<1>5. \A i \in DOMAIN q : q[i] = h => i = 1
  BY <1>4 DEF Once
<1>6. Once(t)
  BY <1>2 DEF Once
<1>7. \A x : Has(t, x) <=> Has(q, x) /\ x # h
  <2> SUFFICES ASSUME NEW x PROVE Has(t, x) <=> Has(q, x) /\ x # h
    OBVIOUS
  <2>1. ASSUME Has(t, x) PROVE Has(q, x) /\ x # h
    BY <2>1, <1>2, <1>5 DEF Has
  <2>2. ASSUME Has(q, x), x # h PROVE Has(t, x)
    BY <2>2, <1>3, <1>4 DEF Has
  <2> QED
    BY <2>1, <2>2
<1>8. \A a, b : a # h => (Before(t, a, b) <=> Before(q, a, b))
  <2> SUFFICES ASSUME NEW a, NEW b, a # h PROVE Before(t, a, b) <=> Before(q, a, b)
    OBVIOUS
  <2>1. ASSUME Before(t, a, b) PROVE Before(q, a, b)
    <3>1. PICK i, j \in DOMAIN t : i < j /\ t[i] = a /\ t[j] = b
      BY <2>1 DEF Before
    <3>2. i + 1 < j + 1 /\ i + 1 \in DOMAIN q /\ j + 1 \in DOMAIN q /\ q[i + 1] = a /\ q[j + 1] = b
      BY <3>1, <1>2
    <3> QED
      BY <3>2 DEF Before
  <2>2. ASSUME Before(q, a, b) PROVE Before(t, a, b)
    <3>1. PICK i, j \in DOMAIN q : i < j /\ q[i] = a /\ q[j] = b
      BY <2>2 DEF Before
    <3>2. i # 1 /\ i \in Nat /\ j \in Nat
      BY <3>1, <1>3, <1>4
    <3>3. j # 1 /\ i - 1 \in DOMAIN t /\ j - 1 \in DOMAIN t /\ t[i - 1] = a /\ t[j - 1] = b /\ i - 1 < j - 1
      BY <3>1, <3>2, <1>3
    <3> QED
      BY <3>3 DEF Before
  <2> QED
    BY <2>1, <2>2
<1>9. Has(q, h)
  BY <1>4 DEF Has
<1>10. \A x : Has(q, x) /\ x # h => Before(q, h, x) /\ ~Before(q, x, h)
  <2> SUFFICES ASSUME NEW x, Has(q, x), x # h PROVE Before(q, h, x) /\ ~Before(q, x, h)
    OBVIOUS
  <2>1. PICK j \in DOMAIN q : q[j] = x
    BY DEF Has
  <2>2. 1 < j
    BY <2>1, <1>3, <1>4
  <2>3. Before(q, h, x)
    BY <2>1, <2>2, <1>4 DEF Before
  <2>4. ~Before(q, x, h)
    BY <1>3, <1>5 DEF Before
  <2> QED
    BY <2>3, <2>4
<1> QED
  BY <1>6, <1>7, <1>8, <1>9, <1>10 DEF t, h
-----------------------------------------------------------------------------
(* The channel and the network. *)

HasConnected == Has(queue, "connected")
HasDisconnected == Has(queue, "disconnected")
DisconnectedFirst == Before(queue, "disconnected", "connected")
Present == endpoint.at # "closed"
Good == ~history.merged /\ ~history.late /\ ~history.replaced

NetworkInv ==
  /\ Once(queue)
  /\ Present => endpoint.up
  /\ net.active => net.enabled
  /\ net.changed \/ role = net.active
  /\ state = "none" \/ app = "dataset" => ~net.enabled

\* What the works in the queue will still do to the state.
ChannelInv ==
  Good =>
    /\ endpoint.up <=> state \in {"listening", "connected"}
    /\ endpoint.up => role
    /\ role /\ net.enabled => endpoint.up
    /\ state # "none" => net.enabled
    /\ HasConnected => endpoint.up
    /\ ~HasConnected /\ ~HasDisconnected => (Present <=> state = "connected")
    /\ HasConnected /\ ~HasDisconnected => Present /\ state # "connected"
    /\ ~HasConnected /\ HasDisconnected => ~Present
    /\ HasConnected /\ HasDisconnected => (Present <=> DisconnectedFirst)
    /\ state = "connected" => timer
    /\ timer /\ state # "connected" => HasDisconnected

FollowInv == NetworkInv /\ ChannelInv

SameWorks == /\ Once(queue') /\ (HasConnected' <=> HasConnected) /\ (HasDisconnected' <=> HasDisconnected)
             /\ (DisconnectedFirst' <=> DisconnectedFirst)

\* Submitting rx or tx moves neither connected nor disconnected.
LEMMA OtherSubmitted ==
  ASSUME Typed, NetworkInv, NEW w \in {"rx", "tx"}, queue' = QueuedWith(w, queue)
  PROVE  SameWorks
<1>1. queue \in Seq(Works) /\ Once(queue) /\ w \in Works /\ w # "connected" /\ w # "disconnected"
  BY DEF Typed, NetworkInv, Works
<1>2. /\ Once(queue') /\ \A x : Has(queue', x) <=> Has(queue, x) \/ x = w
      /\ Has(queue, w) => queue' = queue
      /\ ~Has(queue, w) => \A a, b : Before(queue', a, b) <=> Before(queue, a, b) \/ (b = w /\ Has(queue, a))
  BY <1>1, SubmittedFacts
<1>3. (Has(queue', "connected") <=> Has(queue, "connected")) /\ (Has(queue', "disconnected") <=> Has(queue, "disconnected"))
  BY <1>1, <1>2
<1>4. Before(queue', "disconnected", "connected") <=> Before(queue, "disconnected", "connected")
  BY <1>1, <1>2
<1> QED
  BY <1>2, <1>3, <1>4 DEF SameWorks, HasConnected, HasDisconnected, DisconnectedFirst

\* Nor does taking rx or tx off the queue.
LEMMA OtherDequeued ==
  ASSUME Typed, NetworkInv, NEW w \in {"rx", "tx"}, Dequeued(w)
  PROVE  SameWorks
<1>1. /\ queue \in Seq(Works) /\ Once(queue) /\ queue # <<>> /\ queue' = Tail(queue)
      /\ Head(queue) # "connected" /\ Head(queue) # "disconnected"
  BY TakeOff DEF Typed, NetworkInv
<1>2. /\ Once(queue')
      /\ \A x : Has(queue', x) <=> Has(queue, x) /\ x # Head(queue)
      /\ \A a, b : a # Head(queue) => (Before(queue', a, b) <=> Before(queue, a, b))
      /\ Has(queue, Head(queue))
      /\ \A x : Has(queue, x) /\ x # Head(queue) => Before(queue, Head(queue), x) /\ ~Before(queue, x, Head(queue))
  BY <1>1, DequeuedFacts
<1>3. (Has(queue', "connected") <=> Has(queue, "connected")) /\ (Has(queue', "disconnected") <=> Has(queue, "disconnected"))
  BY <1>1, <1>2
<1>4. Before(queue', "disconnected", "connected") <=> Before(queue, "disconnected", "connected")
  BY <1>1, <1>2
<1> QED
  BY <1>2, <1>3, <1>4 DEF SameWorks, HasConnected, HasDisconnected, DisconnectedFirst

\* Nor does what leaves the queue alone.
LEMMA SameQueue == ASSUME NetworkInv, UNCHANGED queue PROVE SameWorks
  BY DEF SameWorks, NetworkInv, HasConnected, HasDisconnected, DisconnectedFirst

\* Who leaves the network, the endpoint and those two works alone keeps the invariant.
LEMMA FollowStays ==
  ASSUME FollowInv, SameWorks, UNCHANGED <<state, role, net, timer, app>>,
         endpoint'.up = endpoint.up, Present' = Present, Good' => Good
  PROVE  FollowInv'
<1>1. NetworkInv'
  BY DEF FollowInv, NetworkInv, SameWorks
<1>2. ChannelInv'
  BY DEF FollowInv, ChannelInv, SameWorks
<1> QED
  BY <1>1, <1>2 DEF FollowInv

\* At the start there is no network and no connection.
LEMMA FollowStarts == ThreadInit => FollowInv
<1> SUFFICES ASSUME ThreadInit PROVE FollowInv
  OBVIOUS
<1>1. queue = <<>> /\ DOMAIN queue = {}
  BY DEF ThreadInit
<1>2. Once(queue) /\ ~HasConnected /\ ~HasDisconnected
  BY <1>1 DEF Once, HasConnected, HasDisconnected, Has
<1> QED
  BY <1>2 DEF ThreadInit, FollowInv, NetworkInv, ChannelInv, Present

\* The end of a connection submits disconnected_work.
LEMMA EndSubmitted ==
  ASSUME Typed, NetworkInv, queue' = QueuedWith("disconnected", queue)
  PROVE  /\ Once(queue') /\ (HasConnected' <=> HasConnected) /\ HasDisconnected'
         /\ HasDisconnected => queue' = queue
         /\ ~HasDisconnected => ~DisconnectedFirst'
<1>1. queue \in Seq(Works) /\ Once(queue) /\ "disconnected" \in Works
  BY DEF Typed, NetworkInv, Works
<1>2. Once(queue') /\ (HasConnected' <=> HasConnected) /\ HasDisconnected' /\ (HasDisconnected => queue' = queue)
  <2>1. /\ Once(queue') /\ \A x : Has(queue', x) <=> Has(queue, x) \/ x = "disconnected"
        /\ Has(queue, "disconnected") => queue' = queue
    BY <1>1, SubmittedFacts
  <2>2. (Has(queue', "connected") <=> Has(queue, "connected")) /\ Has(queue', "disconnected")
    BY <2>1
  <2> QED
    BY <2>1, <2>2 DEF HasConnected, HasDisconnected
<1>3. ASSUME ~HasDisconnected, DisconnectedFirst' PROVE FALSE
  <2>1. Before(queue, "disconnected", "connected")
    BY <1>1, <1>3, SubmittedFacts DEF HasDisconnected, DisconnectedFirst
  <2> QED
    BY <2>1, <1>3 DEF HasDisconnected, Has, Before
<1> QED
  BY <1>2, <1>3

\* Taking the channel down disables Thread and submits disconnected_work after a connection.
LEMMA DownKeeps ==
  ASSUME Typed, FollowInv, NEW c, NEW k, fd_rpc_channel_thread_down(c, k), timer' = timer,
         net'.changed \/ role' = FALSE
  PROVE  FollowInv'
<1>1. /\ state' = "none" /\ net'.enabled = FALSE /\ net'.active = FALSE
  BY Records DEF fd_rpc_channel_thread_down, NetRecord
<1>2. CASE state \notin {"listening", "connected"}
  <2>1. UNCHANGED <<endpoint, queue, history>>
    BY <1>2 DEF fd_rpc_channel_thread_down
  <2>2. SameWorks /\ Present' = Present /\ Good' = Good
    BY <2>1, SameQueue DEF FollowInv, Present, Good
  <2>3. NetworkInv'
    BY <1>1, <2>1, <2>2 DEF FollowInv, NetworkInv, SameWorks
  <2>4. ChannelInv'
    BY <1>1, <1>2, <2>1, <2>2 DEF FollowInv, ChannelInv, SameWorks
  <2> QED
    BY <2>3, <2>4 DEF FollowInv
<1>3. CASE state \in {"listening", "connected"}
  <2>1. fd_rpc_channel_thread_tcp_down
    BY <1>3 DEF fd_rpc_channel_thread_down
  <2>2. endpoint'.up = FALSE /\ endpoint'.at = "closed" /\ ~Present'
    BY <2>1 DEF fd_rpc_channel_thread_tcp_down, Present
  <2>3. Good' => Good /\ ~HasConnected
    <3>1. \E x : history' = [history EXCEPT !.late = history.late \/ Queued("connected"), !.crossed = x]
      BY <2>1 DEF fd_rpc_channel_thread_tcp_down
    <3>2. /\ history'.late <=> history.late \/ Queued("connected")
          /\ history'.merged = history.merged /\ history'.replaced = history.replaced
      BY <3>1, Records DEF HistoryRecord
    <3> QED
      BY <3>2 DEF Good, HasConnected, Has, Queued
  <2>4. CASE ~Present
    <3>1. SameWorks
      BY <2>1, <2>4, SameQueue DEF fd_rpc_channel_thread_tcp_down, Present, FollowInv
    <3>2. NetworkInv'
      BY <1>1, <2>2, <3>1 DEF FollowInv, NetworkInv, SameWorks
    <3>3. ChannelInv'
      BY <1>1, <1>3, <2>2, <2>3, <2>4, <3>1 DEF FollowInv, ChannelInv, SameWorks
    <3> QED
      BY <3>2, <3>3 DEF FollowInv
  <2>5. CASE Present
    <3>1. queue' = QueuedWith("disconnected", queue)
      BY <2>1, <2>5 DEF fd_rpc_channel_thread_tcp_down, Present, Cleaned
    <3>2. Once(queue') /\ (HasConnected' <=> HasConnected) /\ HasDisconnected'
      BY <3>1, EndSubmitted DEF FollowInv
    <3>3. NetworkInv'
      BY <1>1, <2>2, <3>2 DEF FollowInv, NetworkInv
    <3>4. ChannelInv'
      BY <1>1, <1>3, <2>2, <2>3, <3>2 DEF FollowInv, ChannelInv
    <3> QED
      BY <3>3, <3>4 DEF FollowInv
  <2> QED
    BY <2>4, <2>5
<1> QED
  BY <1>2, <1>3

\* Every step keeps what is known of network, endpoint and works.
LEMMA FollowKept == ASSUME Typed, FollowInv, [ThreadNext]_threadVars PROVE FollowInv'
<1>1. CASE fd_rpc_channel_thread_connected
  <2>1. /\ endpoint.up /\ endpoint.at = "closed" /\ endpoint' = [endpoint EXCEPT !.at = "open"]
        /\ queue' = QueuedWith("connected", queue) /\ UNCHANGED <<state, role, net, timer, app>>
    BY <1>1 DEF fd_rpc_channel_thread_connected
  <2>2. endpoint'.up /\ Present' /\ ~Present
    BY <2>1, Records DEF EndpointRecord, Present
  <2>3. queue \in Seq(Works) /\ Once(queue) /\ "connected" \in Works
    BY DEF Typed, FollowInv, NetworkInv, Works
  <2>4. /\ Once(queue') /\ (HasDisconnected' <=> HasDisconnected) /\ HasConnected'
        /\ ~HasConnected /\ HasDisconnected => DisconnectedFirst'
    <3>1. /\ Once(queue') /\ \A x : Has(queue', x) <=> Has(queue, x) \/ x = "connected"
          /\ ~Has(queue, "connected") =>
               \A a, b : Before(queue', a, b) <=> Before(queue, a, b) \/ (b = "connected" /\ Has(queue, a))
      BY <2>1, <2>3, SubmittedFacts
    <3>2. (Has(queue', "disconnected") <=> Has(queue, "disconnected")) /\ Has(queue', "connected")
      BY <3>1
    <3>3. ~Has(queue, "connected") /\ Has(queue, "disconnected") => Before(queue', "disconnected", "connected")
      BY <3>1
    <3> QED
      BY <3>1, <3>2, <3>3 DEF HasConnected, HasDisconnected, DisconnectedFirst
  <2>5. Good' => Good /\ ~(HasConnected /\ HasDisconnected)
    <3>1. \E x, y, z : history' = [history EXCEPT !.connection = z, !.first = y, !.crossed = x,
                            !.merged = history.merged \/ (Queued("connected") /\ Queued("disconnected"))]
      BY <1>1 DEF fd_rpc_channel_thread_connected
    <3>2. /\ history'.merged <=> history.merged \/ (Queued("connected") /\ Queued("disconnected"))
          /\ history'.late = history.late /\ history'.replaced = history.replaced
      BY <3>1, Records DEF HistoryRecord
    <3> QED
      BY <3>2 DEF Good, HasConnected, HasDisconnected, Has, Queued
  <2>6. NetworkInv'
    BY <2>1, <2>2, <2>4 DEF FollowInv, NetworkInv
  <2>7. ChannelInv'
    BY <2>1, <2>2, <2>4, <2>5 DEF FollowInv, ChannelInv
  <2> QED
    BY <2>6, <2>7 DEF FollowInv
<1>2. CASE fd_rpc_channel_thread_ot_TcpDisconnected
  <2>1. /\ endpoint.at # "closed" /\ endpoint' = [endpoint EXCEPT !.at = "closed", !.held = <<>>]
        /\ queue' = QueuedWith("disconnected", queue) /\ UNCHANGED <<state, role, net, timer, app>>
    BY <1>2 DEF fd_rpc_channel_thread_ot_TcpDisconnected, fd_rpc_channel_thread_disconnected, Cleaned
  <2>2. endpoint'.up = endpoint.up /\ ~Present' /\ Present
    BY <2>1, Records DEF EndpointRecord, Present
  <2>3. /\ Once(queue') /\ (HasConnected' <=> HasConnected) /\ HasDisconnected'
        /\ ~HasDisconnected => ~DisconnectedFirst'
    BY <2>1, EndSubmitted DEF FollowInv
  <2>4. Good' => Good /\ ~(HasConnected /\ HasDisconnected)
    <3>1. \E x : history' = [history EXCEPT !.crossed = x,
                            !.merged = history.merged \/ (Queued("connected") /\ Queued("disconnected"))]
      BY <1>2 DEF fd_rpc_channel_thread_ot_TcpDisconnected, fd_rpc_channel_thread_disconnected
    <3>2. /\ history'.merged <=> history.merged \/ (Queued("connected") /\ Queued("disconnected"))
          /\ history'.late = history.late /\ history'.replaced = history.replaced
      BY <3>1, Records DEF HistoryRecord
    <3> QED
      BY <3>2 DEF Good, HasConnected, HasDisconnected, Has, Queued
  <2>5. NetworkInv'
    BY <2>1, <2>2, <2>3 DEF FollowInv, NetworkInv
  <2>6. ChannelInv'
    BY <2>1, <2>2, <2>3, <2>4 DEF FollowInv, ChannelInv
  <2> QED
    BY <2>5, <2>6 DEF FollowInv
<1>3. CASE fd_rpc_channel_thread_ot_TcpReceiveAvailable
  <2>1. UNCHANGED <<state, role, net, timer, app>> /\ endpoint.at = "open"
    BY <1>3 DEF fd_rpc_channel_thread_ot_TcpReceiveAvailable
  <2>2. CASE host.to_device # <<>>
    <3>1. PICK d : fd_rpc_channel_thread_rx(d) /\ UNCHANGED endpoint
      BY <1>3, <2>2 DEF fd_rpc_channel_thread_ot_TcpReceiveAvailable
    <3>2. SameWorks
      BY <3>1, OtherSubmitted DEF fd_rpc_channel_thread_rx, FollowInv
    <3>3. Good' = Good
      BY <3>1, Records DEF fd_rpc_channel_thread_rx, Good, HistoryRecord
    <3> QED
      BY <2>1, <3>1, <3>2, <3>3, FollowStays DEF Present
  <2>3. CASE host.to_device = <<>>
    <3>1. endpoint' = [endpoint EXCEPT !.at = "aborted", !.held = <<>>] /\ UNCHANGED <<queue, history>>
      BY <1>3, <2>3 DEF fd_rpc_channel_thread_ot_TcpReceiveAvailable
    <3>2. endpoint'.up = endpoint.up /\ endpoint'.at = "aborted"
      BY <3>1, Records DEF EndpointRecord
    <3>3. Present' = Present /\ Good' = Good /\ SameWorks
      BY <2>1, <3>1, <3>2, SameQueue DEF Present, Good, FollowInv
    <3> QED
      BY <2>1, <3>2, <3>3, FollowStays
  <2> QED
    BY <2>2, <2>3
<1>4. CASE fd_rpc_channel_thread_send_done
  <2>1. SameWorks
    BY <1>4, OtherSubmitted DEF fd_rpc_channel_thread_send_done, FollowInv
  <2>2. endpoint'.up = endpoint.up /\ Present' = Present
    BY <1>4, Records DEF fd_rpc_channel_thread_send_done, EndpointRecord, Present
  <2>3. UNCHANGED <<state, role, net, timer, app, history>>
    BY <1>4 DEF fd_rpc_channel_thread_send_done
  <2> QED
    BY <2>1, <2>2, <2>3, FollowStays DEF Good
<1>5. CASE fd_rpc_channel_thread_ot_StateChanged
  <2>1. role' = net.active /\ timer' = timer /\ app' = app
    BY <1>5 DEF fd_rpc_channel_thread_ot_StateChanged
  <2>2. CASE ~role /\ net.active
    <3>1. fd_rpc_channel_thread_up
      BY <1>5, <2>2 DEF fd_rpc_channel_thread_ot_StateChanged
    <3>2. endpoint' = [endpoint EXCEPT !.up = TRUE] /\ state' = "listening" /\ net' = [net EXCEPT !.changed = FALSE]
          /\ UNCHANGED <<queue, history>>
      BY <3>1 DEF fd_rpc_channel_thread_up, fd_rpc_channel_thread_tcp_up
    <3>3. endpoint'.up /\ net'.enabled = net.enabled /\ net'.active = net.active /\ Present' = Present
      BY <3>2, Records DEF EndpointRecord, NetRecord, Present
    <3>4. SameWorks /\ Good' = Good
      BY <3>2, SameQueue DEF Good, FollowInv
    <3>5. NetworkInv'
      BY <2>1, <2>2, <3>2, <3>3, <3>4 DEF FollowInv, NetworkInv, SameWorks
    <3>6. ChannelInv'
      BY <2>1, <2>2, <3>2, <3>3, <3>4 DEF FollowInv, ChannelInv, NetworkInv, SameWorks
    <3> QED
      BY <3>5, <3>6 DEF FollowInv
  <2>3. CASE role /\ ~net.active
    <3>1. fd_rpc_channel_thread_down(FALSE, net.calls)
      BY <1>5, <2>3 DEF fd_rpc_channel_thread_ot_StateChanged
    <3>2. role' = FALSE
      BY <2>1, <2>3, Records DEF NetRecord
    <3> QED
      BY <2>1, <3>1, <3>2, DownKeeps
  <2>4. CASE ~(~role /\ net.active) /\ ~(role /\ ~net.active)
    <3>1. net' = [net EXCEPT !.changed = FALSE] /\ UNCHANGED <<state, endpoint, queue, history>>
      BY <1>5, <2>4 DEF fd_rpc_channel_thread_ot_StateChanged
    <3>2. net'.enabled = net.enabled /\ net'.active = net.active /\ role' = role
      BY <2>1, <2>4, <3>1, Records DEF NetRecord, Typed
    <3>3. SameWorks /\ Good' = Good /\ Present' = Present
      BY <3>1, SameQueue DEF Good, Present, FollowInv
    <3>4. NetworkInv'
      BY <2>1, <3>1, <3>2, <3>3 DEF FollowInv, NetworkInv, SameWorks
    <3>5. ChannelInv'
      BY <2>1, <3>1, <3>2, <3>3 DEF FollowInv, ChannelInv, SameWorks
    <3> QED
      BY <3>4, <3>5 DEF FollowInv
  <2> QED
    BY <2>2, <2>3, <2>4
<1>6. CASE fd_rpc_channel_thread_stop
  <2>1. fd_rpc_channel_thread_down(net.changed \/ net.active, net.calls + 1) /\ role' = role /\ timer' = timer
    BY <1>6 DEF fd_rpc_channel_thread_stop
  <2>2. net'.changed \/ role' = FALSE
    <3>1. net'.changed <=> net.changed \/ net.active
      BY <2>1, Records DEF fd_rpc_channel_thread_down, NetRecord
    <3> QED
      BY <2>1, <3>1 DEF FollowInv, NetworkInv, Typed
  <2> QED
    BY <2>1, <2>2, DownKeeps
<1>7. CASE SetDataset
  <2>1. role' = role /\ timer' = timer
    BY <1>7 DEF SetDataset
  <2>2. CASE state # "none"
    <3>1. fd_rpc_channel_thread_down(net.changed \/ net.active, net.calls)
      BY <1>7, <2>2 DEF SetDataset
    <3>2. net'.changed <=> net.changed \/ net.active
      BY <3>1, Records DEF fd_rpc_channel_thread_down, NetRecord
    <3>3. net'.changed \/ role' = FALSE
      BY <2>1, <3>2 DEF FollowInv, NetworkInv, Typed
    <3> QED
      BY <2>1, <3>1, <3>3, DownKeeps
  <2>3. CASE state = "none"
    <3>1. UNCHANGED <<state, net, endpoint, queue, history>>
      BY <1>7, <2>3 DEF SetDataset
    <3>2. SameWorks /\ Good' = Good /\ Present' = Present
      BY <3>1, SameQueue DEF Good, Present, FollowInv
    <3>3. NetworkInv'
      BY <2>1, <2>3, <3>1, <3>2 DEF FollowInv, NetworkInv, SameWorks
    <3>4. ChannelInv'
      BY <2>1, <3>1, <3>2 DEF FollowInv, ChannelInv, SameWorks
    <3> QED
      BY <3>3, <3>4 DEF FollowInv
  <2> QED
    BY <2>2, <2>3
<1>8. CASE fd_rpc_channel_thread_set_dataset
  <2>1. /\ app = "dataset" /\ app' = "idle" /\ state' = "started" /\ net' = [net EXCEPT !.enabled = TRUE, !.calls = net.calls + 1]
        /\ UNCHANGED <<role, endpoint, queue, timer>>
    BY <1>8 DEF fd_rpc_channel_thread_set_dataset
  <2>2. net'.enabled /\ net'.active = net.active /\ net'.changed = net.changed
    BY <2>1, Records DEF NetRecord
  <2>3. Good' => Good /\ ~role /\ ~net.changed
    <3>1. history' = [history EXCEPT !.replaced = history.replaced \/ role \/ net.changed]
      BY <1>8 DEF fd_rpc_channel_thread_set_dataset
    <3>2. /\ history'.replaced <=> history.replaced \/ role \/ net.changed
          /\ history'.merged = history.merged /\ history'.late = history.late
      BY <3>1, Records DEF HistoryRecord
    <3> QED
      BY <3>2 DEF Good
  <2>4. SameWorks /\ Present' = Present
    BY <2>1, SameQueue DEF Present, FollowInv
  <2>5. NetworkInv'
    BY <2>1, <2>2, <2>4 DEF FollowInv, NetworkInv, SameWorks
  <2>6. ~net.enabled /\ state \in {"none", "started", "listening", "connected"}
    BY <2>1 DEF FollowInv, NetworkInv, Typed
  <2>7. ChannelInv'
    BY <2>1, <2>2, <2>3, <2>4, <2>6 DEF FollowInv, ChannelInv, SameWorks
  <2> QED
    BY <2>5, <2>7 DEF FollowInv
<1>9. CASE RoleChanges
  <2>1. net.enabled /\ net' = [net EXCEPT !.active = ~net.active, !.changed = TRUE, !.roles = net.roles + 1]
        /\ UNCHANGED <<state, role, endpoint, queue, timer, app, history>>
    BY <1>9 DEF RoleChanges
  <2>2. net'.enabled = net.enabled /\ net'.changed
    BY <2>1, Records DEF NetRecord
  <2>3. SameWorks /\ Present' = Present /\ Good' = Good
    BY <2>1, SameQueue DEF Present, Good, FollowInv
  <2>4. NetworkInv'
    BY <2>1, <2>2, <2>3 DEF FollowInv, NetworkInv, SameWorks
  <2>5. ChannelInv'
    BY <2>1, <2>2, <2>3 DEF FollowInv, ChannelInv, SameWorks
  <2> QED
    BY <2>4, <2>5 DEF FollowInv
<1>10. CASE fd_rpc_channel_thread_connected_work
  <2>1. Dequeued("connected") /\ state' = "connected" /\ timer' = TRUE /\ UNCHANGED <<role, net, endpoint, app, history>>
    BY <1>10 DEF fd_rpc_channel_thread_connected_work
  <2>2. queue \in Seq(Works) /\ Once(queue) /\ queue # <<>> /\ Head(queue) = "connected" /\ queue' = Tail(queue)
    BY <2>1, TakeOff DEF Typed, FollowInv, NetworkInv
  <2>3. /\ Once(queue') /\ HasConnected /\ ~HasConnected' /\ (HasDisconnected' <=> HasDisconnected)
        /\ HasDisconnected => ~DisconnectedFirst
    <3>1. /\ Once(queue')
          /\ \A x : Has(queue', x) <=> Has(queue, x) /\ x # Head(queue)
          /\ \A a, b : a # Head(queue) => (Before(queue', a, b) <=> Before(queue, a, b))
          /\ Has(queue, Head(queue))
          /\ \A x : Has(queue, x) /\ x # Head(queue) => Before(queue, Head(queue), x) /\ ~Before(queue, x, Head(queue))
      BY <2>2, DequeuedFacts
    <3>2. /\ Has(queue, "connected") /\ ~Has(queue', "connected") /\ (Has(queue', "disconnected") <=> Has(queue, "disconnected"))
          /\ Has(queue, "disconnected") => ~Before(queue, "disconnected", "connected")
      BY <2>2, <3>1
    <3> QED
      BY <3>1, <3>2 DEF HasConnected, HasDisconnected, DisconnectedFirst
  <2>4. Present' = Present /\ Good' = Good
    BY <2>1 DEF Present, Good
  <2>5. NetworkInv'
    BY <2>1, <2>3, <2>4 DEF FollowInv, NetworkInv
  <2>6. ChannelInv'
    BY <2>1, <2>3, <2>4 DEF FollowInv, ChannelInv
  <2> QED
    BY <2>5, <2>6 DEF FollowInv
<1>11. CASE fd_rpc_channel_thread_disconnected_work
  <2>1. /\ Dequeued("disconnected") /\ state' = (IF state = "connected" THEN "listening" ELSE state)
        /\ timer' = FALSE /\ UNCHANGED <<role, net, endpoint, app, history>>
    BY <1>11 DEF fd_rpc_channel_thread_disconnected_work
  <2>2. queue \in Seq(Works) /\ Once(queue) /\ queue # <<>> /\ Head(queue) = "disconnected" /\ queue' = Tail(queue)
    BY <2>1, TakeOff DEF Typed, FollowInv, NetworkInv
  <2>3. /\ Once(queue') /\ HasDisconnected /\ ~HasDisconnected' /\ (HasConnected' <=> HasConnected)
        /\ HasConnected => DisconnectedFirst
    <3>1. /\ Once(queue')
          /\ \A x : Has(queue', x) <=> Has(queue, x) /\ x # Head(queue)
          /\ \A a, b : a # Head(queue) => (Before(queue', a, b) <=> Before(queue, a, b))
          /\ Has(queue, Head(queue))
          /\ \A x : Has(queue, x) /\ x # Head(queue) => Before(queue, Head(queue), x) /\ ~Before(queue, x, Head(queue))
      BY <2>2, DequeuedFacts
    <3>2. /\ Has(queue, "disconnected") /\ ~Has(queue', "disconnected") /\ (Has(queue', "connected") <=> Has(queue, "connected"))
          /\ Has(queue, "connected") => Before(queue, "disconnected", "connected")
      BY <2>2, <3>1
    <3> QED
      BY <3>1, <3>2 DEF HasConnected, HasDisconnected, DisconnectedFirst
  <2>4. Present' = Present /\ Good' = Good
    BY <2>1 DEF Present, Good
  <2>5. NetworkInv'
    BY <2>1, <2>3, <2>4 DEF FollowInv, NetworkInv
  <2>6. ChannelInv'
    BY <2>1, <2>3, <2>4 DEF FollowInv, ChannelInv
  <2> QED
    BY <2>5, <2>6 DEF FollowInv
<1>12. CASE fd_rpc_channel_thread_rx_work
  <2>1. SameWorks
    BY <1>12, OtherDequeued, SameQueue DEF fd_rpc_channel_thread_rx_work, FollowInv
  <2> QED
    BY <1>12, <2>1, FollowStays DEF fd_rpc_channel_thread_rx_work, Present, Good
<1>13. CASE received_data
  <2>1. Good' = Good
    BY <1>13, Records DEF received_data, Good, HistoryRecord
  <2>2. SameWorks
    BY <1>13, SameQueue DEF received_data, FollowInv
  <2> QED
    BY <1>13, <2>1, <2>2, FollowStays DEF received_data, Present
<1>14. CASE TxWork
  <2>1. SameWorks
    BY <1>14, OtherDequeued DEF TxWork, FollowInv
  <2> QED
    BY <1>14, <2>1, FollowStays DEF TxWork, Present, Good
<1>15. CASE TxCopy
  <2>1. SameWorks
    BY <1>15, SameQueue DEF TxCopy, FollowInv
  <2> QED
    BY <1>15, <2>1, FollowStays DEF TxCopy, Present, Good
<1>16. CASE fd_rpc_channel_thread_tcp_send
  <2>1. SameWorks
    BY <1>16, SameQueue DEF fd_rpc_channel_thread_tcp_send, FollowInv
  <2>2. endpoint'.up = endpoint.up /\ Present' = Present
    BY <1>16, Records DEF fd_rpc_channel_thread_tcp_send, EndpointRecord, Present
  <2> QED
    BY <1>16, <2>1, <2>2, FollowStays DEF fd_rpc_channel_thread_tcp_send, Good
<1>17. CASE TxFinish
  <2>1. SameWorks
    BY <1>17, SameQueue DEF TxFinish, FollowInv
  <2> QED
    BY <1>17, <2>1, FollowStays DEF TxFinish, Present, Good
<1>18. CASE fd_rpc_channel_thread_timer
  <2>1. queue' = QueuedWith("tx", queue)
    BY <1>18 DEF fd_rpc_channel_thread_timer, Queued, QueuedWith
  <2>2. SameWorks
    BY <2>1, OtherSubmitted DEF FollowInv
  <2> QED
    BY <1>18, <2>2, FollowStays DEF fd_rpc_channel_thread_timer, Present, Good
<1>19. CASE fd_rpc_channel_thread_packet_write
  <2>1. SameWorks
    BY <1>19, OtherSubmitted DEF fd_rpc_channel_thread_packet_write, FollowInv
  <2>2. Good' = Good
    BY <1>19, Records DEF fd_rpc_channel_thread_packet_write, Good, HistoryRecord
  <2> QED
    BY <1>19, <2>1, <2>2, FollowStays DEF fd_rpc_channel_thread_packet_write, Present
<1>20. CASE run_loop \/ close
  <2>1. HostUnchanged
    BY <1>20 DEF run_loop, close
  <2>2. SameWorks
    BY <2>1, SameQueue DEF HostUnchanged, FollowInv
  <2> QED
    BY <2>1, <2>2, FollowStays DEF HostUnchanged, Present, Good
<1>22. CASE UNCHANGED threadVars
  <2>1. SameWorks
    BY <1>22, SameQueue DEF threadVars, FollowInv
  <2> QED
    BY <1>22, <2>1, FollowStays DEF threadVars, Present, Good
<1> QED
  BY <1>1, <1>2, <1>3, <1>4, <1>5, <1>6, <1>7, <1>8, <1>9, <1>10, <1>11, <1>12, <1>13, <1>14, <1>15,
     <1>16, <1>17, <1>18, <1>19, <1>20, <1>22 DEF ThreadNext, Callbacks, WorkQueue, Environment

\* Once callbacks and works are through, the state, the timer and the endpoint of
\* the channel are what Thread and its connection are, whatever callback came
\* between the works, but for the three orders of events that history notes.
THEOREM ChannelSafe == ThreadSpec => []ChannelFollowsNetwork
<1>1. ThreadInit => Typed /\ FollowInv
  BY TypesStart, FollowStarts
<1>2. Typed /\ FollowInv /\ [ThreadNext]_threadVars => (Typed /\ FollowInv)'
  BY TypesKept, FollowKept
<1>3. Typed /\ FollowInv => ChannelFollowsNetwork
  <2> SUFFICES ASSUME Typed, FollowInv, Settled, Good PROVE ChannelFollowsNetwork
    BY DEF ChannelFollowsNetwork, Good
  <2>1. ~HasConnected /\ ~HasDisconnected /\ ~net.changed /\ endpoint.at # "aborted"
    BY DEF Settled, Queued, HasConnected, HasDisconnected, Has
  <2>2. endpoint.at \in {"closed", "open", "aborted"} /\ net.active \in BOOLEAN /\ endpoint.up \in BOOLEAN
    BY Records DEF EndpointRecord, NetRecord
  <2>3. endpoint.at = "open" <=> Present
    BY <2>1, <2>2 DEF Present
  <2>4. NetworkInv /\ ChannelInv
    BY DEF FollowInv
  <2>5. net.enabled <=> state # "none"
    BY <2>4 DEF NetworkInv, ChannelInv
  <2>6. net.active <=> endpoint.up
    BY <2>1, <2>2, <2>4 DEF NetworkInv, ChannelInv
  <2>7. (endpoint.up <=> state \in {"listening", "connected"}) /\ (Present <=> state = "connected") /\ (timer <=> state = "connected")
    BY <2>1, <2>4 DEF ChannelInv
  <2> QED
    BY <2>3, <2>5, <2>6, <2>7 DEF ChannelFollowsNetwork
<1> QED
  BY <1>1, <1>2, <1>3, PTL DEF ThreadSpec
-----------------------------------------------------------------------------
(* What is received. *)

\* The octets that the work queue took from the ring and has not put into the packet.
Taken == IF worker.at = "append" THEN worker.data ELSE <<>>
NextOctet == Octet(Connection, 2 * host.packets + 1)

Elements(s) == {s[i] : i \in DOMAIN s}
Precedes(a, b) == a.connection < b.connection \/ (a.connection = b.connection /\ a.n < b.n)
Below(A, B) == \A a \in A, b \in B : Precedes(a, b)
Sorted(s) == \A i, j \in DOMAIN s : i < j => Precedes(s[i], s[j])
Rising(h, p, t, r, d, n) ==
  /\ Below(h, p \cup t \cup r \cup d \cup n) /\ Below(p, t \cup r \cup d \cup n)
  /\ Below(t, r \cup d \cup n) /\ Below(r, d \cup n) /\ Below(d, n)

LastHandled == IF history.handled = <<>> THEN {} ELSE {history.handled[1]}

OrderInv ==
  /\ history.ordered
  /\ Sorted(Taken) /\ Sorted(rx.ring) /\ Sorted(host.to_device)
  /\ Rising(LastHandled, Elements(rx.packet), Elements(Taken), Elements(rx.ring), Elements(host.to_device), {NextOctet})

Run(s, k) == \A i \in DOMAIN s : s[i] = Octet(Connection, k + i)
WholeFrom(b) ==
  /\ b + Len(Taken) + Len(rx.ring) + Len(host.to_device) = 2 * host.packets
  /\ Run(Taken, b) /\ Run(rx.ring, b + Len(Taken)) /\ Run(host.to_device, b + Len(Taken) + Len(rx.ring))
  /\ \/ b % 2 = 0 /\ rx.packet = <<>>
     \/ b % 2 = 1 /\ rx.packet = <<Octet(Connection, b)>>
WholeInv ==
  \/ "rx" \in history.crossed \/ history.dropped
  \/ ~history.rejected /\ \E b \in Nat : WholeFrom(b)

ReceiveInv == OrderInv /\ WholeInv

\* Octets are ordered.
LEMMA PrecedesTransitive ==
  ASSUME NEW a \in Octets, NEW b \in Octets, NEW c \in Octets, Precedes(a, b), Precedes(b, c)
  PROVE  Precedes(a, c)
<1>1. /\ a.connection \in Nat /\ b.connection \in Nat /\ c.connection \in Nat
      /\ a.n \in Nat /\ b.n \in Nat /\ c.n \in Nat
  BY DEF Octets
<1> QED
  BY <1>1 DEF Precedes

\* The elements of a sequence of octets are octets.
LEMMA ElementsAre ==
  ASSUME NEW s \in Seq(Octets)
  PROVE  Elements(s) \subseteq Octets /\ (s = <<>> => Elements(s) = {})
  BY DEF Elements

\* Both parts of a sequence of octets are such sequences.
LEMMA SplitTyped ==
  ASSUME NEW s \in Seq(Octets), NEW n \in Nat
  PROVE  /\ FirstOf(s, n) \in Seq(Octets) /\ After(s, n) \in Seq(Octets)
         /\ Len(FirstOf(s, n)) \in Nat /\ Len(After(s, n)) \in Nat /\ Len(FirstOf(s, n)) = Fewer(n, Len(s))
<1> DEFINE f == FirstOf(s, n)
           a == After(s, n)
<1>1. f \in Seq(Octets) /\ a \in Seq(Octets) /\ Len(f) = Fewer(n, Len(s))
  BY FrontFacts
<1> HIDE DEF f, a
<1>2. Len(f) \in Nat /\ Len(a) \in Nat
  BY <1>1
<1> QED
  BY <1>1, <1>2 DEF f, a

\* Two octets as a sequence.
LEMMA PairOf ==
  ASSUME NEW a \in Octets, NEW b \in Octets
  PROVE  Append(<<a>>, b) = <<a, b>> /\ Len(<<a, b>>) = 2 /\ <<a, b>>[1] = a /\ <<a, b>>[2] = b
<1> DEFINE s == Append(<<a>>, b)
           t == <<a, b>>
<1>1. <<a>> \in Seq(Octets) /\ Len(<<a>>) = 1 /\ <<a>>[1] = a
  OBVIOUS
<1>2. s \in Seq(Octets) /\ Len(s) = 2 /\ s[1] = a /\ s[2] = b
  BY <1>1
<1>3. t \in Seq(Octets) /\ Len(t) = 2 /\ t[1] = a /\ t[2] = b
  OBVIOUS
<1> HIDE DEF s, t
<1>4. s = t
  BY <1>2, <1>3
<1> QED
  BY <1>3, <1>4 DEF s, t

\* Splitting a sorted sequence.
LEMMA SplitSorted ==
  ASSUME NEW s \in Seq(Octets), NEW n \in Nat, Sorted(s)
  PROVE  /\ Sorted(FirstOf(s, n)) /\ Sorted(After(s, n))
         /\ Elements(FirstOf(s, n)) \subseteq Elements(s) /\ Elements(After(s, n)) \subseteq Elements(s)
         /\ Below(Elements(FirstOf(s, n)), Elements(After(s, n)))
<1> DEFINE f == FirstOf(s, n)
           a == After(s, n)
           m == Fewer(n, Len(s))
<1>1. /\ f \in Seq(Octets) /\ a \in Seq(Octets) /\ Len(f) = m /\ Len(a) = Len(s) - m
      /\ \A i \in 1 .. m : f[i] = s[i]
      /\ \A i \in 1 .. Len(s) - m : a[i] = s[n + i]
      /\ m \in Nat /\ m <= n /\ m <= Len(s)
  BY FrontFacts
<1>2. m = n \/ m = Len(s)
  BY DEF Fewer
<1> HIDE DEF f, a, m
<1>3. DOMAIN f = 1 .. m /\ DOMAIN a = 1 .. Len(s) - m /\ DOMAIN s = 1 .. Len(s) /\ Len(s) \in Nat
  BY <1>1
<1>4. \A i \in DOMAIN f : i \in DOMAIN s /\ f[i] = s[i] /\ i <= m /\ i \in Nat
  BY <1>1, <1>3
<1>5. \A i \in DOMAIN a : n + i \in DOMAIN s /\ a[i] = s[n + i] /\ i \in Nat /\ n + i > m
  BY <1>1, <1>2, <1>3
<1>6. Sorted(f)
  BY <1>4 DEF Sorted
<1>7. Sorted(a)
  <2> SUFFICES ASSUME NEW i \in DOMAIN a, NEW j \in DOMAIN a, i < j PROVE Precedes(a[i], a[j])
    BY DEF Sorted
  <2>1. n + i < n + j
    BY <1>5
  <2> QED
    BY <1>5, <2>1 DEF Sorted
<1>8. Below(Elements(f), Elements(a))
  <2> SUFFICES ASSUME NEW i \in DOMAIN f, NEW j \in DOMAIN a PROVE Precedes(f[i], a[j])
    BY DEF Below, Elements
  <2>1. i < n + j
    BY <1>1, <1>4, <1>5
  <2> QED
    BY <1>4, <1>5, <2>1 DEF Sorted
<1>9. Elements(f) \subseteq Elements(s) /\ Elements(a) \subseteq Elements(s)
  BY <1>4, <1>5 DEF Elements
<1> QED
  BY <1>6, <1>7, <1>8, <1>9 DEF f, a

\* Joining two of them.
LEMMA JoinSorted ==
  ASSUME NEW s \in Seq(Octets), NEW t \in Seq(Octets), Sorted(s), Sorted(t), Below(Elements(s), Elements(t))
  PROVE  Sorted(s \o t) /\ Elements(s \o t) \subseteq Elements(s) \cup Elements(t)
<1> DEFINE u == s \o t
           m == Len(s)
           k == Len(t)
<1>1. /\ m \in Nat /\ k \in Nat /\ DOMAIN s = 1 .. m /\ DOMAIN t = 1 .. k /\ DOMAIN u = 1 .. m + k
      /\ \A i \in 1 .. m + k : u[i] = IF i <= m THEN s[i] ELSE t[i - m]
  OBVIOUS
<1> HIDE DEF u, m, k
<1>2. \A i \in DOMAIN u : /\ i \in Nat
                         /\ \/ i <= m /\ i \in DOMAIN s /\ u[i] = s[i]
                            \/ i > m /\ i - m \in DOMAIN t /\ u[i] = t[i - m]
  BY <1>1
<1>3. Elements(u) \subseteq Elements(s) \cup Elements(t)
  BY <1>2 DEF Elements
<1>4. Sorted(u)
  <2> SUFFICES ASSUME NEW i \in DOMAIN u, NEW j \in DOMAIN u, i < j PROVE Precedes(u[i], u[j])
    BY DEF Sorted
  <2>1. i \in Nat /\ j \in Nat /\ m \in Nat
    BY <1>1, <1>2
  <2>2. CASE j <= m
    BY <1>2, <2>1, <2>2 DEF Sorted
  <2>3. CASE i > m
    <3>1. i - m < j - m /\ i - m \in DOMAIN t /\ j - m \in DOMAIN t /\ u[i] = t[i - m] /\ u[j] = t[j - m]
      BY <1>2, <2>1, <2>3
    <3> QED
      BY <3>1 DEF Sorted
  <2>4. CASE i <= m /\ j > m
    <3>1. i \in DOMAIN s /\ u[i] = s[i] /\ j - m \in DOMAIN t /\ u[j] = t[j - m]
      BY <1>2, <2>1, <2>4
    <3> QED
      BY <3>1 DEF Below, Elements
  <2> QED
    BY <2>1, <2>2, <2>3, <2>4
<1> QED
  BY <1>3, <1>4 DEF u

\* Taking off the first octet.
LEMMA HeadSorted ==
  ASSUME NEW s \in Seq(Octets), s # <<>>, Sorted(s)
  PROVE  /\ Sorted(Tail(s)) /\ Head(s) \in Elements(s) /\ Elements(Tail(s)) \subseteq Elements(s)
         /\ Below({Head(s)}, Elements(Tail(s)))
<1> DEFINE t == Tail(s)
           n == Len(s)
           h == Head(s)
<1>1. n \in Nat /\ n # 0 /\ DOMAIN s = 1 .. n /\ DOMAIN t = 1 .. n - 1 /\ h = s[1]
      /\ \A i \in 1 .. n - 1 : t[i] = s[i + 1]
  OBVIOUS
<1> HIDE DEF t, n, h
<1>2. \A i \in DOMAIN t : i \in Nat /\ i + 1 \in DOMAIN s /\ t[i] = s[i + 1] /\ 1 < i + 1
  BY <1>1
<1>3. 1 \in DOMAIN s /\ h = s[1]
  BY <1>1
<1>4. Sorted(t)
  <2> SUFFICES ASSUME NEW i \in DOMAIN t, NEW j \in DOMAIN t, i < j PROVE Precedes(t[i], t[j])
    BY DEF Sorted
  <2>1. i + 1 < j + 1
    BY <1>2
  <2> QED
    BY <1>2, <2>1 DEF Sorted
<1>5. h \in Elements(s) /\ Elements(t) \subseteq Elements(s)
  BY <1>2, <1>3 DEF Elements
<1>6. Below({h}, Elements(t))
  BY <1>2, <1>3 DEF Below, Elements, Sorted
<1> QED
  BY <1>4, <1>5, <1>6 DEF t, h

-----------------------------------------------------------------------------
(* Runs of octets. *)

\* Splitting a run of consecutive octets.
LEMMA SplitRun ==
  ASSUME NEW s \in Seq(Octets), NEW n \in Nat, NEW k \in Nat, Run(s, k)
  PROVE  Run(FirstOf(s, n), k) /\ Run(After(s, n), k + Len(FirstOf(s, n))) /\ Len(FirstOf(s, n)) + Len(After(s, n)) = Len(s)
<1> DEFINE f == FirstOf(s, n)
           a == After(s, n)
           m == Fewer(n, Len(s))
<1>1. /\ f \in Seq(Octets) /\ a \in Seq(Octets) /\ Len(f) = m /\ Len(a) = Len(s) - m
      /\ \A i \in 1 .. m : f[i] = s[i]
      /\ \A i \in 1 .. Len(s) - m : a[i] = s[n + i]
      /\ m \in Nat /\ m <= n /\ m <= Len(s)
  BY FrontFacts
<1>2. m = n \/ m = Len(s)
  BY DEF Fewer
<1> HIDE DEF f, a, m
<1>3. DOMAIN f = 1 .. m /\ DOMAIN a = 1 .. Len(s) - m /\ DOMAIN s = 1 .. Len(s) /\ Len(s) \in Nat
  BY <1>1
<1>4. Run(f, k)
  BY <1>1, <1>3 DEF Run
<1>5. Run(a, k + m)
  <2> SUFFICES ASSUME NEW i \in DOMAIN a PROVE a[i] = Octet(Connection, (k + m) + i)
    BY DEF Run
  <2>0. i \in 1 .. Len(s) - m /\ i \in Nat
    BY <1>3
  <2>1. m = n
    BY <1>1, <1>2, <1>3, <2>0
  <2>2. n + i \in DOMAIN s /\ a[i] = s[n + i]
    BY <1>1, <1>3, <2>0, <2>1
  <2>3. k + (n + i) = (k + m) + i
    BY <2>0, <2>1
  <2> QED
    BY <2>2, <2>3 DEF Run
<1> QED
  BY <1>1, <1>3, <1>4, <1>5 DEF f, a

\* Joining two of them.
LEMMA JoinRun ==
  ASSUME NEW s \in Seq(Octets), NEW t \in Seq(Octets), NEW k \in Nat, Run(s, k), Run(t, k + Len(s))
  PROVE  Run(s \o t, k) /\ Len(s \o t) = Len(s) + Len(t)
<1> DEFINE u == s \o t
           m == Len(s)
           l == Len(t)
<1>1. /\ m \in Nat /\ l \in Nat /\ DOMAIN s = 1 .. m /\ DOMAIN t = 1 .. l /\ DOMAIN u = 1 .. m + l
      /\ Len(u) = m + l
      /\ \A i \in 1 .. m + l : u[i] = IF i <= m THEN s[i] ELSE t[i - m]
  OBVIOUS
<1>2. Run(t, k + m)
  OBVIOUS
<1> HIDE DEF u, m, l
<1>3. Run(u, k)
  <2> SUFFICES ASSUME NEW i \in DOMAIN u PROVE u[i] = Octet(Connection, k + i)
    BY DEF Run
  <2>1. CASE i <= m
    BY <1>1, <2>1 DEF Run
  <2>2. CASE i > m
    <3>1. i - m \in DOMAIN t /\ u[i] = t[i - m] /\ (k + m) + (i - m) = k + i
      BY <1>1, <2>2
    <3> QED
      BY <1>2, <3>1 DEF Run
  <2> QED
    BY <1>1, <2>1, <2>2
<1> QED
  BY <1>1, <1>3 DEF u, m, l

\* Taking off the first octet.
LEMMA TailRun ==
  ASSUME NEW s \in Seq(Octets), NEW k \in Nat, Run(s, k), s # <<>>
  PROVE  Head(s) = Octet(Connection, k + 1) /\ Run(Tail(s), k + 1) /\ Len(s) = 1 + Len(Tail(s))
<1> DEFINE t == Tail(s)
           n == Len(s)
           h == Head(s)
<1>1. n \in Nat /\ n # 0 /\ DOMAIN s = 1 .. n /\ DOMAIN t = 1 .. n - 1 /\ h = s[1] /\ Len(t) = n - 1
      /\ \A i \in 1 .. n - 1 : t[i] = s[i + 1]
  OBVIOUS
<1> HIDE DEF t, n, h
<1>2. h = Octet(Connection, k + 1)
  BY <1>1 DEF Run
<1>3. Run(t, k + 1)
  <2> SUFFICES ASSUME NEW i \in DOMAIN t PROVE t[i] = Octet(Connection, (k + 1) + i)
    BY DEF Run
  <2>0. i \in 1 .. n - 1 /\ i \in Nat
    BY <1>1
  <2>1. i + 1 \in DOMAIN s /\ t[i] = s[i + 1]
    BY <1>1, <2>0
  <2>2. k + (i + 1) = (k + 1) + i
    BY <2>0
  <2> QED
    BY <2>1, <2>2 DEF Run
<1> QED
  BY <1>1, <1>2, <1>3 DEF t, n, h
-----------------------------------------------------------------------------
(* What is received stays in order and whole. *)

\* The kinds of what is being received.
LEMMA ReceiveFacts ==
  ASSUME Typed
  PROVE  /\ Taken \in Seq(Octets) /\ rx.ring \in Seq(Octets) /\ rx.packet \in Seq(Octets)
         /\ host.to_device \in Seq(Octets) /\ history.handled \in Seq(Octets)
         /\ host.packets \in Nat /\ Connection \in Nat /\ NextOctet \in Octets
         /\ Len(Taken) \in Nat /\ Len(rx.ring) \in Nat /\ Len(host.to_device) \in Nat
         /\ LastHandled \subseteq Octets
<1>1. worker.data \in Seq(Octets) /\ rx.ring \in Seq(Octets) /\ rx.packet \in Seq(Octets)
  BY Records DEF WorkerRecord, RxRecord
<1>2. host.to_device \in Seq(Octets) /\ host.packets \in Nat
  BY Records DEF HostRecord
<1>3. history.handled \in Seq(Octets) /\ Connection \in Nat
  BY Records DEF HistoryRecord, Connection
<1>4. Taken \in Seq(Octets)
  BY <1>1 DEF Taken
<1>5. NextOctet \in Octets
  BY <1>2, <1>3 DEF NextOctet, Octet, Octets
<1>6. LastHandled \subseteq Octets
  BY <1>3 DEF LastHandled
<1> QED
  BY <1>1, <1>2, <1>3, <1>4, <1>5, <1>6

\* Fewer octets in the same order.
LEMMA RisingShrinks ==
  ASSUME NEW h, NEW p, NEW t, NEW r, NEW d, NEW n, Rising(h, p, t, r, d, n),
         NEW p1 \in SUBSET p, NEW t1 \in SUBSET t, NEW r1 \in SUBSET r, NEW d1 \in SUBSET d
  PROVE  Rising(h, p1, t1, r1, d1, n)
  BY DEF Rising, Below

\* What precedes the next octet precedes the octets after it.
LEMMA NextLater ==
  ASSUME NEW h \in SUBSET Octets, NEW p \in SUBSET Octets, NEW t \in SUBSET Octets, NEW r \in SUBSET Octets,
         NEW d \in SUBSET Octets, NEW n \in Octets, NEW m \in Octets, Rising(h, p, t, r, d, {n}), Precedes(n, m)
  PROVE  Rising(h, p, t, r, d, {m})
<1>1. \A a \in h \cup p \cup t \cup r \cup d : Precedes(a, m)
  <2> SUFFICES ASSUME NEW a \in h \cup p \cup t \cup r \cup d PROVE Precedes(a, m)
    OBVIOUS
  <2>1. a \in Octets /\ Precedes(a, n)
    BY DEF Rising, Below
  <2> QED
    BY <2>1, PrecedesTransitive
<1> QED
  BY <1>1 DEF Rising, Below

\* Who leaves the octets being received where they are keeps the invariant.
LEMMA ReceiveStays ==
  ASSUME ReceiveInv, rx' = rx, Taken' = Taken, host'.to_device = host.to_device, host'.packets = host.packets,
         history'.connection = history.connection, history'.handled = history.handled,
         history'.ordered = history.ordered, history'.rejected = history.rejected,
         "rx" \in history.crossed => "rx" \in history'.crossed, history.dropped => history'.dropped
  PROVE  ReceiveInv'
<1>1. OrderInv'
  BY DEF ReceiveInv, OrderInv, LastHandled, NextOctet, Connection
<1>2. \A b : WholeFrom(b) => WholeFrom(b)'
  BY DEF WholeFrom, Run, Connection
<1>3. WholeInv'
  BY <1>2 DEF ReceiveInv, WholeInv
<1> QED
  BY <1>1, <1>3 DEF ReceiveInv

\* At the start nothing is received.
LEMMA ReceiveStarts == ThreadInit => ReceiveInv
<1> SUFFICES ASSUME ThreadInit PROVE ReceiveInv
  OBVIOUS
<1>1. /\ rx.ring = <<>> /\ rx.packet = <<>> /\ Taken = <<>> /\ host.to_device = <<>> /\ host.packets = 0
      /\ LastHandled = {} /\ history.ordered /\ ~history.rejected
  BY DEF ThreadInit, Idle, Taken, LastHandled
<1>2. OrderInv
  BY <1>1 DEF OrderInv, Sorted, Rising, Below, Elements
<1>3. WholeFrom(0)
  BY <1>1 DEF WholeFrom, Run
<1> QED
  BY <1>1, <1>2, <1>3 DEF ReceiveInv, WholeInv

\* The buffers are reset at the end of a connection.
LEMMA EndKeepsReceived ==
  ASSUME Typed, ReceiveInv, rx' = [ring |-> <<>>, packet |-> <<>>], worker' = worker,
         host'.to_device = <<>>, host'.packets = host.packets,
         history'.connection = history.connection, history'.handled = history.handled,
         history'.ordered = history.ordered, history'.rejected = history.rejected,
         history'.dropped = history.dropped, history'.crossed = Crossed
  PROVE  ReceiveInv'
<1>0. rx'.ring = <<>> /\ rx'.packet = <<>> /\ Taken' = Taken /\ Connection' = Connection /\ NextOctet' = NextOctet
      /\ LastHandled' = LastHandled
  BY DEF Taken, Connection, NextOctet, LastHandled
<1>1. OrderInv'
  <2> DEFINE h == LastHandled
             p == Elements(rx.packet)
             t == Elements(Taken)
             r == Elements(rx.ring)
             d == Elements(host.to_device)
  <2>1. Rising(h, p, t, r, d, {NextOctet})
    BY DEF ReceiveInv, OrderInv
  <2>2. Elements(rx'.packet) = {} /\ Elements(rx'.ring) = {} /\ Elements(host'.to_device) = {}
    BY <1>0 DEF Elements
  <2> HIDE DEF h, p, t, r, d
  <2>3. Rising(h, {}, t, {}, {}, {NextOctet})
    BY <2>1, RisingShrinks
  <2>4. Rising(h, Elements(rx'.packet), t, Elements(rx'.ring), Elements(host'.to_device), {NextOctet})
    BY <2>2, <2>3
  <2>5. Sorted(rx'.ring) /\ Sorted(host'.to_device)
    BY <1>0 DEF Sorted
  <2> QED
    BY <1>0, <2>4, <2>5 DEF ReceiveInv, OrderInv, h, t
<1>2. WholeInv'
  <2>1. CASE "rx" \in history'.crossed \/ history'.dropped
    BY <2>1 DEF WholeInv
  <2>2. CASE ~("rx" \in history'.crossed \/ history'.dropped)
    <3>1. Taken = <<>> /\ ~("rx" \in history.crossed \/ history.dropped)
      BY <2>2 DEF Crossed, Taken
    <3>2. ~history'.rejected
      BY <3>1 DEF ReceiveInv, WholeInv
    <3>3. PICK b \in Nat : b = 2 * host'.packets /\ b % 2 = 0
      <4>1. 2 * host.packets \in Nat /\ (2 * host.packets) % 2 = 0 /\ host'.packets = host.packets
        BY ReceiveFacts
      <4> QED
        BY <4>1
    <3>4. WholeFrom(b)'
      <4> DEFINE t1 == Taken'
                 r1 == rx'.ring
                 d1 == host'.to_device
      <4>1. t1 = <<>> /\ r1 = <<>> /\ d1 = <<>> /\ rx'.packet = <<>>
        BY <1>0, <3>1
      <4>2. Len(t1) = 0 /\ Len(r1) = 0 /\ Len(d1) = 0 /\ DOMAIN t1 = {} /\ DOMAIN r1 = {} /\ DOMAIN d1 = {}
        BY <4>1
      <4> HIDE DEF t1, r1, d1
      <4>3. b + Len(t1) + Len(r1) + Len(d1) = 2 * host'.packets
        BY <3>3, <4>2
      <4> QED
        BY <3>3, <4>1, <4>2, <4>3 DEF WholeFrom, Run, t1, r1, d1
    <3> QED
      BY <3>2, <3>3, <3>4 DEF WholeInv
  <2> QED
    BY <2>1, <2>2
<1> QED
  BY <1>1, <1>2 DEF ReceiveInv

\* A host connects.
LEMMA ConnectKeepsReceived ==
  ASSUME Typed, ReceiveInv, rx' = [ring |-> <<>>, packet |-> <<>>], worker' = worker,
         host'.to_device = <<>>, host'.packets = 0,
         history'.connection = history.connection + 1, history'.handled = history.handled,
         history'.ordered = history.ordered, history'.rejected = history.rejected,
         history'.dropped = history.dropped, history'.crossed = Crossed
  PROVE  ReceiveInv'
<1>0. rx'.ring = <<>> /\ rx'.packet = <<>> /\ Taken' = Taken /\ Connection' = Connection + 1
      /\ LastHandled' = LastHandled
  BY DEF Taken, Connection, LastHandled
<1>1. OrderInv'
  <2> DEFINE h == LastHandled
             p == Elements(rx.packet)
             t == Elements(Taken)
             r == Elements(rx.ring)
             d == Elements(host.to_device)
  <2>1. Rising(h, p, t, r, d, {NextOctet})
    BY DEF ReceiveInv, OrderInv
  <2>2. Elements(rx'.packet) = {} /\ Elements(rx'.ring) = {} /\ Elements(host'.to_device) = {}
    BY <1>0 DEF Elements
  <2>3. h \subseteq Octets /\ t \subseteq Octets /\ NextOctet \in Octets
    BY ReceiveFacts, ElementsAre
  <2>4. NextOctet' \in Octets /\ Precedes(NextOctet, NextOctet')
    <3>1. Connection \in Nat /\ host.packets \in Nat
      BY ReceiveFacts
    <3>2. NextOctet' = Octet(Connection + 1, 1)
      BY <1>0 DEF NextOctet, Octet
    <3> QED
      BY <3>1, <3>2 DEF NextOctet, Octet, Octets, Precedes
  <2> DEFINE m == NextOctet'
             n == NextOctet
  <2> HIDE DEF h, p, t, r, d, m, n
  <2>5. Rising(h, {}, t, {}, {}, {n})
    BY <2>1, RisingShrinks DEF n
  <2>6. Rising(h, {}, t, {}, {}, {m})
    <3>1. n \in Octets /\ m \in Octets /\ Precedes(n, m) /\ {} \in SUBSET Octets
      BY <2>3, <2>4 DEF m, n
    <3> QED
      BY <2>3, <2>5, <3>1, NextLater
  <2>7. Rising(h, Elements(rx'.packet), t, Elements(rx'.ring), Elements(host'.to_device), {m})
    BY <2>2, <2>6
  <2>8. Sorted(rx'.ring) /\ Sorted(host'.to_device)
    BY <1>0 DEF Sorted
  <2> QED
    BY <1>0, <2>7, <2>8 DEF ReceiveInv, OrderInv, h, t, m
<1>2. WholeInv'
  <2>1. CASE "rx" \in history'.crossed \/ history'.dropped
    BY <2>1 DEF WholeInv
  <2>2. CASE ~("rx" \in history'.crossed \/ history'.dropped)
    <3>1. Taken = <<>> /\ ~("rx" \in history.crossed \/ history.dropped)
      BY <2>2 DEF Crossed, Taken
    <3>2. ~history'.rejected
      BY <3>1 DEF ReceiveInv, WholeInv
    <3>3. PICK b \in Nat : b = 2 * host'.packets /\ b % 2 = 0
      <4>1. 0 \in Nat /\ 0 % 2 = 0 /\ 0 = 2 * host'.packets
        OBVIOUS
      <4> QED
        BY <4>1
    <3>4. WholeFrom(b)'
      <4> DEFINE t1 == Taken'
                 r1 == rx'.ring
                 d1 == host'.to_device
      <4>1. t1 = <<>> /\ r1 = <<>> /\ d1 = <<>> /\ rx'.packet = <<>>
        BY <1>0, <3>1
      <4>2. Len(t1) = 0 /\ Len(r1) = 0 /\ Len(d1) = 0 /\ DOMAIN t1 = {} /\ DOMAIN r1 = {} /\ DOMAIN d1 = {}
        BY <4>1
      <4> HIDE DEF t1, r1, d1
      <4>3. b + Len(t1) + Len(r1) + Len(d1) = 2 * host'.packets
        BY <3>3, <4>2
      <4> QED
        BY <3>3, <4>1, <4>2, <4>3 DEF WholeFrom, Run, t1, r1, d1
    <3> QED
      BY <3>2, <3>3, <3>4 DEF WholeInv
  <2> QED
    BY <2>1, <2>2
<1> QED
  BY <1>1, <1>2 DEF ReceiveInv

\* Octets come from the host; what does not fit is dropped.
LEMMA RxKeepsReceived ==
  ASSUME Typed, ReceiveInv, NEW n \in 1 .. Len(host.to_device),
         fd_rpc_channel_thread_rx(FirstOf(host.to_device, n)),
         host' = [host EXCEPT !.to_device = After(@, n)], worker' = worker
  PROVE  ReceiveInv'
<1> DEFINE ring == rx.ring
           dev == host.to_device
           data == FirstOf(dev, n)
           left == After(dev, n)
           room == RxRing - Len(ring)
           more == FirstOf(data, room)
<1>1. /\ rx' = [rx EXCEPT !.ring = ring \o more] /\ host' = [host EXCEPT !.to_device = left]
      /\ history' = [history EXCEPT !.dropped = history.dropped \/ Len(ring) + Len(data) > RxRing]
  BY DEF fd_rpc_channel_thread_rx
<1>2. /\ rx'.ring = ring \o more /\ rx'.packet = rx.packet /\ host'.to_device = left /\ host'.packets = host.packets
      /\ history'.dropped <=> history.dropped \/ Len(ring) + Len(data) > RxRing
      /\ history'.connection = history.connection /\ history'.handled = history.handled
      /\ history'.ordered = history.ordered /\ history'.rejected = history.rejected
      /\ history'.crossed = history.crossed
  BY <1>1, Records, Zenon DEF RxRecord, HostRecord, HistoryRecord
<1>3. Taken' = Taken /\ LastHandled' = LastHandled /\ NextOctet' = NextOctet /\ Connection' = Connection
  BY <1>2 DEF Taken, LastHandled, NextOctet, Connection
<1>4. /\ ring \in Seq(Octets) /\ dev \in Seq(Octets) /\ n \in Nat /\ Len(ring) \in Nat /\ Len(dev) \in Nat
      /\ Taken \in Seq(Octets) /\ Len(Taken) \in Nat
  BY ReceiveFacts
<1>5. room \in Nat
  <2>1. Len(ring) <= RxRing /\ RxRing \in Nat
    BY ThreadAssumption DEF Typed
  <2> QED
    BY <1>4, <2>1
<1>6. data \in Seq(Octets) /\ left \in Seq(Octets) /\ Len(data) \in Nat /\ Len(left) \in Nat
  BY <1>4, FrontFacts
<1>7. more \in Seq(Octets) /\ Len(more) \in Nat /\ Len(more) = Fewer(room, Len(data))
  <2> HIDE DEF data, room
  <2> QED
    BY <1>5, <1>6, FrontFacts
<1>8. OrderInv'
  <2>1. /\ Sorted(Taken) /\ Sorted(ring) /\ Sorted(dev) /\ history.ordered
        /\ Rising(LastHandled, Elements(rx.packet), Elements(Taken), Elements(ring), Elements(dev), {NextOctet})
    BY DEF ReceiveInv, OrderInv
  <2>2. /\ Sorted(data) /\ Sorted(left) /\ Below(Elements(data), Elements(left))
        /\ Elements(data) \subseteq Elements(dev) /\ Elements(left) \subseteq Elements(dev)
    <3> HIDE DEF dev
    <3> QED
      BY <1>4, <2>1, SplitSorted
  <2>3. Sorted(more) /\ Elements(more) \subseteq Elements(data)
    <3> HIDE DEF data, room
    <3> QED
      BY <1>5, <1>6, <2>2, SplitSorted
  <2>4. Below(Elements(ring), Elements(more))
    BY <2>1, <2>2, <2>3 DEF Rising, Below
  <2>5. Sorted(ring \o more) /\ Elements(ring \o more) \subseteq Elements(ring) \cup Elements(more)
    <3> HIDE DEF ring, more
    <3> QED
      BY <1>4, <1>7, <2>1, <2>3, <2>4, JoinSorted
  <2> DEFINE h == LastHandled
             p == Elements(rx.packet)
             t == Elements(Taken)
             r == Elements(ring)
             d == Elements(dev)
             f == Elements(data)
             e == Elements(left)
             m == Elements(more)
             r1 == Elements(ring \o more)
             o == {NextOctet}
  <2>6. Rising(h, p, t, r, d, o) /\ Below(f, e) /\ f \subseteq d /\ e \subseteq d /\ m \subseteq f /\ r1 \subseteq r \cup m
    BY <2>1, <2>2, <2>3, <2>5
  <2> HIDE DEF h, p, t, r, d, f, e, m, r1, o
  <2>7. Rising(h, p, t, r1, e, o)
    BY <2>6 DEF Rising, Below
  <2> HIDE DEF ring, more, left
  <2> QED
    BY <1>2, <1>3, <2>1, <2>2, <2>5, <2>7 DEF OrderInv, h, p, t, r1, e, o
<1>9. WholeInv'
  <2>1. CASE "rx" \in history.crossed \/ history.dropped \/ Len(ring) + Len(data) > RxRing
    BY <1>2, <2>1 DEF WholeInv
  <2>2. CASE ~("rx" \in history.crossed \/ history.dropped \/ Len(ring) + Len(data) > RxRing)
    <3>1. PICK b \in Nat : WholeFrom(b)
      BY <2>2 DEF ReceiveInv, WholeInv
    <3>2. ~history'.rejected
      BY <1>2, <2>2 DEF ReceiveInv, WholeInv
    <3>3. /\ b + Len(Taken) + Len(ring) + Len(dev) = 2 * host.packets
          /\ Run(Taken, b) /\ Run(ring, b + Len(Taken)) /\ Run(dev, b + Len(Taken) + Len(ring))
      BY <3>1 DEF WholeFrom
    <3> DEFINE k == b + Len(Taken)
    <3>4. k \in Nat /\ k + Len(ring) \in Nat
      BY <1>4
    <3>5. Len(more) = Len(data)
      <4>1. Len(data) <= room
        <5>1. RxRing \in Nat
          BY ThreadAssumption
        <5> HIDE DEF ring, data
        <5> QED
          BY <1>4, <1>6, <2>2, <5>1
      <4> HIDE DEF data, room, more
      <4> QED
        BY <1>5, <1>6, <1>7, <4>1 DEF Fewer
    <3>6. Run(data, k + Len(ring)) /\ Run(left, (k + Len(ring)) + Len(data)) /\ Len(data) + Len(left) = Len(dev)
      <4> HIDE DEF dev, ring, k
      <4>1. Run(dev, k + Len(ring))
        BY <3>3 DEF k
      <4> QED
        BY <1>4, <3>4, <4>1, SplitRun
    <3>7. Run(more, k + Len(ring))
      <4> HIDE DEF data, room, ring, k
      <4> QED
        BY <1>5, <1>6, <3>4, <3>6, SplitRun
    <3>8. Run(ring \o more, k) /\ Len(ring \o more) = Len(ring) + Len(more)
      <4> HIDE DEF ring, more
      <4> QED
        BY <1>4, <1>7, <3>3, <3>4, <3>7, JoinRun DEF k
    <3> DEFINE ring1 == ring \o more
    <3>9. /\ b + Len(Taken) + Len(ring1) + Len(left) = 2 * host.packets
          /\ Run(Taken, b) /\ Run(ring1, b + Len(Taken)) /\ Run(left, b + Len(Taken) + Len(ring1))
      <4>1. Len(ring1) = Len(ring) + Len(data) /\ Len(left) \in Nat /\ Run(ring1, k)
        <5> HIDE DEF ring, data, left, more
        <5> QED
          BY <3>5, <3>8, <1>6
      <4> HIDE DEF ring, data, left, dev, ring1
      <4>2. b + Len(Taken) + Len(ring1) = (k + Len(ring)) + Len(data)
        BY <1>4, <1>6, <4>1
      <4>3. b + Len(Taken) + Len(ring1) + Len(left) = 2 * host.packets
        <5>1. b + Len(Taken) + Len(ring1) + Len(left) = b + Len(Taken) + Len(ring) + Len(dev)
          <6>1. PICK x \in Nat, q \in Nat, l \in Nat, r \in Nat, d \in Nat, e \in Nat :
                   x = b + Len(Taken) /\ q = Len(ring1) /\ l = Len(left) /\ r = Len(ring) /\ d = Len(data) /\ e = Len(dev)
            <7>1. b + Len(Taken) \in Nat
              BY <1>4
            <7>2. Len(ring1) \in Nat
              BY <1>4, <1>6, <4>1
            <7> QED
              BY <1>4, <1>6, <7>1, <7>2
          <6>2. q = r + d /\ d + l = e
            BY <3>6, <4>1, <6>1
          <6>3. x + q + l = x + r + e
            BY <6>2
          <6> QED
            BY <6>1, <6>3
        <5> QED
          BY <3>3, <5>1
      <4> QED
        BY <3>3, <3>6, <4>1, <4>2, <4>3
    <3>10. WholeFrom(b)'
      <4>1. \A q, j : Run(q, j)' <=> Run(q, j)
        BY <1>3 DEF Run
      <4> HIDE DEF ring1, left
      <4>2. rx'.ring = ring1
        BY <1>2 DEF ring1
      <4> QED
        BY <1>2, <1>3, <3>1, <3>9, <4>1, <4>2 DEF WholeFrom, Run
    <3> QED
      BY <3>2, <3>10 DEF WholeInv
  <2> QED
    BY <2>1, <2>2
<1> QED
  BY <1>8, <1>9 DEF ReceiveInv

\* The work queue takes octets from the ring.
LEMMA RxWorkKeepsReceived ==
  ASSUME Typed, ReceiveInv, fd_rpc_channel_thread_rx_work
  PROVE  ReceiveInv'
<1> DEFINE ring == rx.ring
           dev == host.to_device
           chunk == FirstOf(ring, GetChunk)
           left == After(ring, GetChunk)
<1>0. GetChunk \in Nat
  BY ThreadAssumption
<1>1. /\ rx' = [rx EXCEPT !.ring = left] /\ host' = host /\ history' = history
      /\ worker' = IF ring = <<>> THEN Idle ELSE [at |-> "append", data |-> chunk]
      /\ worker.at # "append"
  <2>1. worker = Idle \/ worker.at = "rx"
    BY DEF fd_rpc_channel_thread_rx_work, Dequeued
  <2> QED
    BY <2>1 DEF fd_rpc_channel_thread_rx_work, At, Idle
<1>2. /\ ring \in Seq(Octets) /\ dev \in Seq(Octets) /\ Len(ring) \in Nat /\ Len(dev) \in Nat
  BY ReceiveFacts
<1>3. chunk \in Seq(Octets) /\ left \in Seq(Octets) /\ Len(chunk) \in Nat /\ Len(left) \in Nat
      /\ Len(chunk) = Fewer(GetChunk, Len(ring))
  <2> HIDE DEF ring
  <2> QED
    BY <1>0, <1>2, SplitTyped
<1>4. rx'.ring = left /\ rx'.packet = rx.packet
  BY <1>1, Records DEF RxRecord
<1>5. Taken = <<>> /\ Taken' = chunk
  <2>1. CASE ring = <<>>
    <3>1. Len(chunk) = 0
      BY <1>0, <1>3, <2>1 DEF Fewer
    <3>2. chunk = <<>>
      <4> HIDE DEF chunk
      <4> QED
        BY <1>3, <3>1
    <3> QED
      BY <1>1, <2>1, <3>2 DEF Taken, Idle
  <2>2. CASE ring # <<>>
    BY <1>1, <2>2 DEF Taken
  <2> QED
    BY <2>1, <2>2
<1>6. LastHandled' = LastHandled /\ NextOctet' = NextOctet /\ Connection' = Connection
  BY <1>1 DEF LastHandled, NextOctet, Connection
<1>7. OrderInv'
  <2>1. /\ Sorted(ring) /\ Sorted(dev) /\ history.ordered
        /\ Rising(LastHandled, Elements(rx.packet), Elements(Taken), Elements(ring), Elements(dev), {NextOctet})
    BY DEF ReceiveInv, OrderInv
  <2>2. /\ Sorted(chunk) /\ Sorted(left) /\ Below(Elements(chunk), Elements(left))
        /\ Elements(chunk) \subseteq Elements(ring) /\ Elements(left) \subseteq Elements(ring)
    <3> HIDE DEF ring
    <3> QED
      BY <1>0, <1>2, <2>1, SplitSorted
  <2> DEFINE h == LastHandled
             p == Elements(rx.packet)
             t == Elements(Taken)
             r == Elements(ring)
             d == Elements(dev)
             c == Elements(chunk)
             l == Elements(left)
             o == {NextOctet}
  <2>3. Rising(h, p, t, r, d, o) /\ Below(c, l) /\ c \subseteq r /\ l \subseteq r
    BY <2>1, <2>2
  <2> HIDE DEF h, p, t, r, d, c, l, o
  <2>4. Rising(h, p, c, l, d, o)
    BY <2>3 DEF Rising, Below
  <2> HIDE DEF ring, chunk, left
  <2> QED
    BY <1>1, <1>4, <1>5, <1>6, <2>1, <2>2, <2>4 DEF OrderInv, h, p, c, l, d, o
<1>8. WholeInv'
  <2>1. CASE "rx" \in history.crossed \/ history.dropped
    BY <1>1, <2>1 DEF WholeInv
  <2>2. CASE ~("rx" \in history.crossed \/ history.dropped)
    <3>1. PICK b \in Nat : WholeFrom(b)
      BY <2>2 DEF ReceiveInv, WholeInv
    <3>2. ~history'.rejected
      BY <1>1, <2>2 DEF ReceiveInv, WholeInv
    <3>3. b + Len(ring) + Len(dev) = 2 * host.packets /\ Run(ring, b) /\ Run(dev, b + Len(ring))
      <4>1. /\ b + Len(Taken) + Len(ring) + Len(dev) = 2 * host.packets
            /\ Run(ring, b + Len(Taken)) /\ Run(dev, b + Len(Taken) + Len(ring))
        BY <3>1 DEF WholeFrom
      <4>2. Len(Taken) = 0 /\ b + Len(Taken) = b
        BY <1>5
      <4> QED
        BY <4>1, <4>2
    <3>4. Run(chunk, b) /\ Run(left, b + Len(chunk)) /\ Len(chunk) + Len(left) = Len(ring)
      <4> HIDE DEF ring
      <4> QED
        BY <1>0, <1>2, <3>3, SplitRun
    <3>5. b + Len(chunk) + Len(left) = b + Len(ring)
      <4> HIDE DEF chunk, left, ring
      <4> QED
        BY <1>3, <3>4
    <3>6. WholeFrom(b)'
      <4>1. \A q, j : Run(q, j)' <=> Run(q, j)
        BY <1>6 DEF Run
      <4> HIDE DEF chunk, left
      <4> QED
        BY <1>1, <1>4, <1>5, <1>6, <3>1, <3>3, <3>4, <3>5, <4>1 DEF WholeFrom, Run
    <3> QED
      BY <3>2, <3>6 DEF WholeInv
  <2> QED
    BY <2>1, <2>2
<1> QED
  BY <1>7, <1>8 DEF ReceiveInv

\* Only a delimiter after another octet ends a packet.
LEMMA PacketEnds ==
  ASSUME NEW s \in Seq(Octets), NEW o \in Octets, IsPacket(Append(s, o))
  PROVE  s # <<>> /\ IsDelimiter(o)
<1> DEFINE q == Append(s, o)
<1>1. Len(q) = Len(s) + 1 /\ q[Len(s) + 1] = o /\ Len(s) \in Nat /\ q \in Seq(Octets) /\ (s = <<>> => Len(s) = 0)
  OBVIOUS
<1>2. IsPacket(q)
  OBVIOUS
<1> HIDE DEF q
<1>3. Len(q) = 2 /\ q[1].n % 2 # 0 /\ q[2].n = q[1].n + 1
  BY <1>2 DEF IsPacket, IsDelimiter
<1>4. Len(s) = 1 /\ q[2] = o
  <2>1. PICK k \in Nat : k = Len(s)
    BY <1>1
  <2>2. k + 1 = 2 /\ q[k + 1] = o
    BY <1>1, <1>3, <2>1
  <2>3. k = 1
    BY <2>2
  <2> QED
    BY <2>1, <2>2, <2>3
<1>5. q[1] \in Octets
  BY <1>1, <1>3
<1>6. q[1].n \in Nat
  BY <1>5 DEF Octets
<1>7. o.n % 2 = 0
  BY <1>3, <1>4, <1>6
<1> QED
  BY <1>1, <1>4, <1>7 DEF IsDelimiter

\* An octet is put into the packet, or ends it.
LEMMA OctetKeepsReceived ==
  ASSUME Typed, ReceiveInv, received_data
  PROVE  ReceiveInv'
<1> DEFINE data == worker.data
           o == Head(data)
           rest == Tail(data)
           packet == rx.packet
           q == Append(packet, o)
<1>1. /\ worker.at = "append" /\ UNCHANGED host
      /\ rx' = [rx EXCEPT !.packet = IF IsDelimiter(o) THEN <<>> ELSE q]
      /\ history' = CASE ~IsDelimiter(o) \/ packet = <<>> -> history
                       [] IsPacket(q) -> [history EXCEPT !.handled = q, !.ordered = history.ordered /\ Follows(q)]
                       [] OTHER -> [history EXCEPT !.rejected = TRUE]
      /\ worker' = IF Len(data) = 1 THEN [at |-> "rx", data |-> <<>>] ELSE [at |-> "append", data |-> rest]
  BY DEF received_data, At
<1>2. /\ data \in Seq(Octets) /\ data # <<>> /\ packet \in Seq(Octets)
  BY <1>1, Records DEF WorkerRecord, RxRecord, Typed
<1>3. o \in Octets /\ rest \in Seq(Octets) /\ Len(rest) = Len(data) - 1 /\ Len(data) \in Nat /\ Len(rest) \in Nat
  BY <1>2
<1>4. Taken = data /\ Taken' = rest
  <2>1. Len(data) = 1 => rest = <<>>
    <3> HIDE DEF rest
    <3> QED
      BY <1>3
  <2> QED
    BY <1>1, <2>1 DEF Taken
<1>5. rx'.ring = rx.ring /\ rx'.packet = IF IsDelimiter(o) THEN <<>> ELSE q
  BY <1>1, Records DEF RxRecord
<1>6. \/ history' = history
      \/ /\ packet # <<>> /\ IsDelimiter(o) /\ IsPacket(q)
         /\ history' = [history EXCEPT !.handled = q, !.ordered = history.ordered /\ Follows(q)]
      \/ /\ packet # <<>> /\ IsDelimiter(o) /\ ~IsPacket(q) /\ history' = [history EXCEPT !.rejected = TRUE]
  <2>0. IsPacket(q) => packet # <<>> /\ IsDelimiter(o)
    <3> HIDE DEF o, packet
    <3> QED
      BY <1>2, <1>3, PacketEnds
  <2> HIDE DEF o, q, packet
  <2>1. CASE ~IsDelimiter(o) \/ packet = <<>>
    <3>1. ~IsPacket(q)
      BY <2>0, <2>1
    <3> QED
      BY <1>1, <2>1, <3>1
  <2>2. CASE IsDelimiter(o) /\ packet # <<>> /\ IsPacket(q)
    BY <1>1, <2>2
  <2>3. CASE IsDelimiter(o) /\ packet # <<>> /\ ~IsPacket(q)
    BY <1>1, <2>3
  <2> QED
    BY <2>1, <2>2, <2>3
<1>7. /\ history'.connection = history.connection /\ history'.crossed = history.crossed /\ history'.dropped = history.dropped
      /\ NextOctet' = NextOctet /\ Connection' = Connection
  <2>1. history'.connection = history.connection /\ history'.crossed = history.crossed /\ history'.dropped = history.dropped
    BY <1>6, Records DEF HistoryRecord
  <2> QED
    BY <1>1, <2>1 DEF NextOctet, Connection
<1>8. q \in Seq(Octets) /\ Elements(q) \subseteq Elements(packet) \cup {o} /\ (packet # <<>> => q[1] = packet[1] /\ q # <<>>)
      /\ (packet # <<>> => packet[1] \in Elements(packet)) /\ (packet = <<>> => q = <<o>>)
  <2>1. q \in Seq(Octets) /\ DOMAIN q = 1 .. Len(packet) + 1 /\ q[Len(packet) + 1] = o /\ Len(packet) \in Nat
        /\ \A i \in 1 .. Len(packet) : q[i] = packet[i]
    BY <1>2, <1>3
  <2>2. packet # <<>> => 1 \in DOMAIN packet
    BY <1>2
  <2>3. DOMAIN packet = 1 .. Len(packet)
    BY <1>2
  <2>4. packet = <<>> => q = <<o>>
    BY <1>3
  <2>5. Elements(q) \subseteq Elements(packet) \cup {o}
    <3> HIDE DEF q, o, packet
    <3>1. \A i \in DOMAIN q : i = Len(packet) + 1 \/ i \in DOMAIN packet
      BY <2>1, <2>3
    <3> QED
      BY <2>1, <2>3, <3>1 DEF Elements
  <2> HIDE DEF q, o, packet
  <2>6. q # <<>>
    <3>1. 1 \in DOMAIN q
      BY <2>1
    <3> QED
      BY <3>1
  <2> QED
    BY <2>1, <2>2, <2>3, <2>4, <2>5, <2>6 DEF Elements
<1> DEFINE h == LastHandled
           p == Elements(packet)
           t == Elements(data)
           t1 == Elements(rest)
           r == Elements(rx.ring)
           d == Elements(host.to_device)
           n == {NextOctet}
<1>9. Sorted(data) /\ Sorted(rx.ring) /\ Sorted(host.to_device) /\ history.ordered /\ Rising(h, p, t, r, d, n)
  BY <1>4 DEF ReceiveInv, OrderInv
<1>10. Sorted(rest) /\ o \in t /\ t1 \subseteq t /\ Below({o}, t1)
  <2> HIDE DEF data
  <2> QED
    BY <1>2, <1>9, HeadSorted
<1>11. OrderInv'
  <2> DEFINE p1 == Elements(rx'.packet)
             h1 == LastHandled'
  <2>1. Elements(<<>>) = {}
    BY DEF Elements
  <2>2. CASE ~IsDelimiter(o) \/ history' = history \/ history' = [history EXCEPT !.rejected = TRUE]
    <3>1. history'.ordered /\ h1 = h
      <4>1. history'.ordered = history.ordered /\ history'.handled = history.handled
        BY <1>6, <2>2, Records DEF HistoryRecord
      <4> QED
        BY <1>9, <4>1 DEF LastHandled
    <3>2. p1 \subseteq p \cup {o}
      BY <1>5, <1>8, <2>1
    <3> HIDE DEF h, p, t, t1, r, d, n, p1, h1, o
    <3>3. Rising(h, p1, t1, r, d, n)
      BY <1>9, <1>10, <3>2 DEF Rising, Below
    <3> HIDE DEF rest
    <3> QED
      BY <1>1, <1>4, <1>5, <1>7, <1>9, <1>10, <3>1, <3>3 DEF OrderInv, h, p1, h1, t1, r, d, n
  <2>3. CASE /\ packet # <<>> /\ IsDelimiter(o) /\ IsPacket(q)
             /\ history' = [history EXCEPT !.handled = q, !.ordered = history.ordered /\ Follows(q)]
    <3>1. history'.handled = q /\ (history'.ordered <=> history.ordered /\ Follows(q))
      <4>0. (history.ordered /\ Follows(q)) \in BOOLEAN
        OBVIOUS
      <4> HIDE DEF q
      <4> QED
        BY <2>3, <4>0, Records DEF HistoryRecord
    <3>2. q[1] = packet[1] /\ packet[1] \in p /\ q # <<>>
      BY <1>8, <2>3
    <3>3. Follows(q)
      <4>1. CASE history.handled = <<>>
        BY <4>1 DEF Follows
      <4>2. CASE history.handled # <<>>
        <5>1. Precedes(history.handled[1], packet[1])
          <6>1. history.handled[1] \in h
            BY <4>2 DEF LastHandled
          <6> HIDE DEF h, p, t, r, d, n, packet
          <6> QED
            BY <1>9, <3>2, <6>1 DEF Rising, Below
        <5> HIDE DEF q, packet
        <5> QED
          BY <3>2, <5>1 DEF Follows, Precedes
      <4> QED
        BY <4>1, <4>2
    <3>4. h1 = {packet[1]}
      <4> HIDE DEF q, packet
      <4> QED
        BY <3>1, <3>2 DEF LastHandled
    <3>5. p1 = {}
      BY <1>5, <2>1, <2>3
    <3> HIDE DEF h, p, t, t1, r, d, n, p1, h1, o, packet
    <3>6. Rising(h1, p1, t1, r, d, n)
      BY <1>9, <1>10, <3>2, <3>4, <3>5 DEF Rising, Below
    <3> HIDE DEF rest, q
    <3> QED
      BY <1>1, <1>4, <1>5, <1>7, <1>9, <1>10, <3>1, <3>3, <3>6 DEF OrderInv, h, p1, h1, t1, r, d, n
  <2> QED
    BY <1>6, <2>2, <2>3
<1>12. WholeInv'
  <2>1. CASE "rx" \in history.crossed \/ history.dropped
    BY <1>7, <2>1 DEF WholeInv
  <2>2. CASE ~("rx" \in history.crossed \/ history.dropped)
    <3>1. PICK b \in Nat : WholeFrom(b)
      BY <2>2 DEF ReceiveInv, WholeInv
    <3>2. /\ b + Len(data) + Len(rx.ring) + Len(host.to_device) = 2 * host.packets
          /\ Run(data, b) /\ Run(rx.ring, b + Len(data)) /\ Run(host.to_device, b + Len(data) + Len(rx.ring))
          /\ \/ b % 2 = 0 /\ packet = <<>>
             \/ b % 2 = 1 /\ packet = <<Octet(Connection, b)>>
      BY <1>4, <3>1 DEF WholeFrom
    <3>3. o = Octet(Connection, b + 1) /\ Run(rest, b + 1) /\ Len(data) = 1 + Len(rest)
      <4> HIDE DEF data
      <4> QED
        BY <1>2, <3>2, TailRun
    <3>4. b + Len(data) = (b + 1) + Len(rest) /\ b + 1 \in Nat
      <4> HIDE DEF data, rest
      <4> QED
        BY <1>3, <3>3
    <3>5. IsDelimiter(o) <=> (b + 1) % 2 = 0
      <4> HIDE DEF o
      <4> QED
        BY <3>3 DEF IsDelimiter, Octet
    <3>6. /\ \/ (b + 1) % 2 = 0 /\ rx'.packet = <<>>
             \/ (b + 1) % 2 = 1 /\ rx'.packet = <<Octet(Connection, b + 1)>>
          /\ ~history'.rejected
      <4>1. CASE b % 2 = 0 /\ packet = <<>>
        <5>1. (b + 1) % 2 = 1
          BY <4>1
        <5>2. ~IsDelimiter(o) /\ q = <<o>>
          BY <1>8, <3>5, <4>1, <5>1
        <5>3. history' = history
          BY <1>6, <4>1
        <5>4. ~history.rejected
          BY <2>2 DEF ReceiveInv, WholeInv
        <5> QED
          BY <1>5, <3>3, <5>1, <5>2, <5>3, <5>4
      <4>2. CASE b % 2 = 1 /\ packet = <<Octet(Connection, b)>>
        <5>1. (b + 1) % 2 = 0
          BY <4>2
        <5>2. IsDelimiter(o) /\ packet # <<>>
          BY <3>5, <4>2, <5>1
        <5>3. q = <<Octet(Connection, b), Octet(Connection, b + 1)>>
          <6>1. Octet(Connection, b) \in Octets /\ Octet(Connection, b + 1) \in Octets
            BY ReceiveFacts DEF Octet, Octets
          <6> HIDE DEF o, packet
          <6> QED
            BY <3>3, <4>2, <6>1, PairOf
        <5>4. IsPacket(q)
          <6>1. Len(q) = 2 /\ q[1] = Octet(Connection, b) /\ q[2] = Octet(Connection, b + 1)
            <7>1. Octet(Connection, b) \in Octets /\ Octet(Connection, b + 1) \in Octets
              BY ReceiveFacts DEF Octet, Octets
            <7> HIDE DEF q
            <7> QED
              BY <5>3, <7>1, PairOf
          <6>2. ~IsDelimiter(Octet(Connection, b))
            BY <4>2 DEF IsDelimiter, Octet
          <6> HIDE DEF q
          <6> QED
            BY <6>1, <6>2 DEF IsPacket, Octet
        <5>5. history'.rejected = history.rejected
          <6>1. history' = history \/ history' = [history EXCEPT !.handled = q, !.ordered = history.ordered /\ Follows(q)]
            BY <1>6, <5>4
          <6> HIDE DEF q
          <6> QED
            BY <6>1, Records DEF HistoryRecord
        <5>6. ~history.rejected
          BY <2>2 DEF ReceiveInv, WholeInv
        <5> QED
          BY <1>5, <5>1, <5>2, <5>5, <5>6
      <4> QED
        BY <3>2, <4>1, <4>2
    <3>7. WholeFrom(b + 1)'
      <4>1. \A s, j : Run(s, j)' <=> Run(s, j)
        BY <1>7 DEF Run
      <4>2. /\ (b + 1) + Len(rest) + Len(rx.ring) + Len(host.to_device) = 2 * host.packets
            /\ Run(rx.ring, (b + 1) + Len(rest)) /\ Run(host.to_device, (b + 1) + Len(rest) + Len(rx.ring))
        BY <3>2, <3>4
      <4> HIDE DEF data, rest
      <4> QED
        BY <1>1, <1>4, <1>5, <1>7, <3>3, <3>6, <4>1, <4>2 DEF WholeFrom, Run
    <3> QED
      BY <3>4, <3>6, <3>7 DEF WholeInv
  <2> QED
    BY <2>1, <2>2
<1> QED
  BY <1>11, <1>12 DEF ReceiveInv
\* The host writes a packet.
LEMMA PacketKeepsReceived ==
  ASSUME Typed, ReceiveInv, rx' = rx, worker' = worker, history' = history,
         host'.packets = host.packets + 1,
         host'.to_device = host.to_device \o <<Octet(Connection, 2 * host.packets + 1), Octet(Connection, 2 * host.packets + 2)>>
  PROVE  ReceiveInv'
<1> DEFINE count == host.packets
           dev == host.to_device
           o1 == Octet(Connection, 2 * count + 1)
           o2 == Octet(Connection, 2 * count + 2)
           o3 == Octet(Connection, 2 * (count + 1) + 1)
           two == <<o1, o2>>
           dev1 == dev \o two
<1>1. /\ count \in Nat /\ Connection \in Nat /\ dev \in Seq(Octets) /\ Len(dev) \in Nat
      /\ Len(Taken) \in Nat /\ Len(rx.ring) \in Nat /\ Taken \in Seq(Octets) /\ rx.ring \in Seq(Octets)
      /\ rx.packet \in Seq(Octets) /\ LastHandled \in SUBSET Octets
  BY ReceiveFacts
<1>2. o1 \in Octets /\ o2 \in Octets /\ o3 \in Octets
  <2>1. \A k \in Nat : Octet(Connection, k) \in Octets
    BY <1>1 DEF Octet, Octets
  <2>2. 2 * count + 1 \in Nat /\ 2 * count + 2 \in Nat /\ 2 * (count + 1) + 1 \in Nat
    <3> HIDE DEF count
    <3> QED
      BY <1>1
  <2> QED
    BY <2>1, <2>2
<1>3. Precedes(o1, o2) /\ Precedes(o1, o3) /\ Precedes(o2, o3)
  <2> HIDE DEF count
  <2>1. 2 * count + 1 < 2 * count + 2 /\ 2 * count + 2 < 2 * (count + 1) + 1 /\ 2 * count + 1 < 2 * (count + 1) + 1
    BY <1>1
  <2> QED
    BY <2>1 DEF Precedes, Octet
<1>4. /\ Taken' = Taken /\ Connection' = Connection /\ LastHandled' = LastHandled
      /\ NextOctet' = o3 /\ NextOctet = o1 /\ host'.to_device = dev1
  BY DEF Taken, Connection, LastHandled, NextOctet
<1> HIDE DEF o1, o2, o3
<1>5. two \in Seq(Octets) /\ Len(two) = 2 /\ two[1] = o1 /\ two[2] = o2 /\ DOMAIN two = {1, 2}
  BY <1>2
<1>6. OrderInv'
  <2>1. /\ Sorted(Taken) /\ Sorted(rx.ring) /\ Sorted(dev) /\ history.ordered
        /\ Rising(LastHandled, Elements(rx.packet), Elements(Taken), Elements(rx.ring), Elements(dev), {o1})
    BY <1>4 DEF ReceiveInv, OrderInv
  <2>2. Sorted(two) /\ Elements(two) = {o1, o2}
    <3> HIDE DEF two
    <3> QED
      BY <1>3, <1>5 DEF Sorted, Elements
  <2> DEFINE h == LastHandled
             p == Elements(rx.packet)
             t == Elements(Taken)
             r == Elements(rx.ring)
             d == Elements(dev)
             d1 == Elements(dev1)
  <2>3. /\ h \in SUBSET Octets /\ p \in SUBSET Octets /\ t \in SUBSET Octets /\ r \in SUBSET Octets
        /\ d \in SUBSET Octets
    BY <1>1, ElementsAre
  <2>4. Rising(h, p, t, r, d, {o1})
    BY <2>1
  <2>5. Rising(h, p, t, r, d, {o2}) /\ Rising(h, p, t, r, d, {o3})
    <3> HIDE DEF h, p, t, r, d
    <3> QED
      BY <1>2, <1>3, <2>3, <2>4, NextLater
  <2>6. Below(Elements(dev), Elements(two))
    BY <2>2, <2>4, <2>5 DEF Rising, Below
  <2>7. Sorted(dev1) /\ d1 \subseteq d \cup {o1, o2}
    <3>1. Sorted(dev1) /\ d1 \subseteq d \cup Elements(two)
      <4> HIDE DEF dev, two
      <4> QED
        BY <1>1, <1>5, <2>1, <2>2, <2>6, JoinSorted
    <3> HIDE DEF two, dev1
    <3> QED
      BY <2>2, <3>1
  <2> HIDE DEF h, p, t, r, d, d1
  <2>8. Rising(h, p, t, r, d1, {o3})
    BY <1>3, <2>4, <2>5, <2>7 DEF Rising, Below
  <2> HIDE DEF dev1
  <2> QED
    BY <1>4, <2>1, <2>7, <2>8 DEF OrderInv, h, p, t, r, d1
<1>7. WholeInv'
  <2>1. CASE "rx" \in history.crossed \/ history.dropped
    BY <2>1 DEF WholeInv
  <2>2. CASE ~("rx" \in history.crossed \/ history.dropped)
    <3>1. PICK b \in Nat : WholeFrom(b)
      BY <2>2 DEF ReceiveInv, WholeInv
    <3>2. ~history'.rejected
      BY <2>2 DEF ReceiveInv, WholeInv
    <3>3. PICK k \in Nat : k = b + Len(Taken) + Len(rx.ring)
      <4>1. PICK x \in Nat, y \in Nat : x = Len(Taken) /\ y = Len(rx.ring)
        BY <1>1
      <4>2. b + x + y \in Nat
        OBVIOUS
      <4> QED
        BY <4>1, <4>2
    <3>4. k + Len(dev) = 2 * count /\ Run(Taken, b) /\ Run(rx.ring, b + Len(Taken)) /\ Run(dev, k)
      BY <3>1, <3>3 DEF WholeFrom
    <3>5. Run(two, k + Len(dev))
      <4>1. o1 = Octet(Connection, k + Len(dev) + 1) /\ o2 = Octet(Connection, k + Len(dev) + 2)
        BY <3>4 DEF o1, o2
      <4> HIDE DEF two, dev
      <4>2. two[1] = Octet(Connection, (k + Len(dev)) + 1) /\ two[2] = Octet(Connection, (k + Len(dev)) + 2)
        BY <1>5, <4>1
      <4> QED
        BY <1>5, <4>2 DEF Run
    <3>6. Run(dev1, k) /\ Len(dev1) = Len(dev) + 2
      <4> HIDE DEF two, dev
      <4>1. Run(dev \o two, k) /\ Len(dev \o two) = Len(dev) + Len(two)
        <5>1. two \in Seq(Octets) /\ dev \in Seq(Octets) /\ Run(dev, k) /\ Run(two, k + Len(dev))
          BY <1>1, <1>5, <3>4, <3>5
        <5> QED
          BY <5>1, JoinRun
      <4> QED
        BY <1>5, <4>1
    <3>7. k + Len(dev1) = 2 * (count + 1)
      <4> HIDE DEF dev1, count, dev
      <4> QED
        BY <1>1, <3>4, <3>6
    <3>8. WholeFrom(b)'
      <4>1. \A s, j : Run(s, j)' <=> Run(s, j)
        BY <1>4 DEF Run
      <4> HIDE DEF dev1, dev
      <4> QED
        BY <1>4, <3>1, <3>3, <3>4, <3>6, <3>7, <4>1 DEF WholeFrom, Run
    <3> QED
      BY <3>2, <3>8 DEF WholeInv
  <2> QED
    BY <2>1, <2>2
<1> QED
  BY <1>6, <1>7 DEF ReceiveInv

\* Taking the channel down ends a connection, if there is one.
LEMMA DownKeepsReceived ==
  ASSUME Typed, ReceiveInv, NEW c, NEW n, fd_rpc_channel_thread_down(c, n), worker' = worker
  PROVE  ReceiveInv'
<1>1. CASE state \in {"listening", "connected"} /\ endpoint.at # "closed"
  <2>1. /\ rx' = [ring |-> <<>>, packet |-> <<>>]
        /\ host' = [host EXCEPT !.at = IF host.at = "off" THEN host.at ELSE "broken", !.to_device = <<>>]
        /\ history' = [history EXCEPT !.late = history.late \/ Queued("connected"), !.crossed = Crossed]
    BY <1>1 DEF fd_rpc_channel_thread_down, fd_rpc_channel_thread_tcp_down, Cleaned, fd_rpc_channel_thread_reset_buffers
  <2>2. host'.to_device = <<>> /\ host'.packets = host.packets
    BY <2>1, Records DEF HostRecord
  <2>3. /\ history'.connection = history.connection /\ history'.handled = history.handled
        /\ history'.ordered = history.ordered /\ history'.rejected = history.rejected
        /\ history'.dropped = history.dropped /\ history'.crossed = Crossed
    BY <2>1, Records DEF HistoryRecord
  <2> QED
    BY <2>1, <2>2, <2>3, EndKeepsReceived
<1>2. CASE ~(state \in {"listening", "connected"} /\ endpoint.at # "closed")
  <2>1. /\ rx' = rx /\ host' = host
        /\ history' = history \/ history' = [history EXCEPT !.late = history.late \/ Queued("connected"), !.crossed = history.crossed]
    BY <1>2 DEF fd_rpc_channel_thread_down, fd_rpc_channel_thread_tcp_down
  <2>2. /\ history'.connection = history.connection /\ history'.handled = history.handled
        /\ history'.ordered = history.ordered /\ history'.rejected = history.rejected
        /\ history'.dropped = history.dropped /\ history'.crossed = history.crossed
    BY <2>1, Records DEF HistoryRecord
  <2>3. Taken' = Taken
    BY DEF Taken
  <2> QED
    BY <2>1, <2>2, <2>3, ReceiveStays
<1> QED
  BY <1>1, <1>2

\* Nothing that is received is touched, and the work queue holds as much of it as before.
LEMMA ElsewhereKeepsReceived ==
  ASSUME ReceiveInv, rx' = rx, host' = host, Taken' = Taken,
         \/ history' = history
         \/ Typed /\ \E x : history' = [history EXCEPT !.replaced = x]
         \/ Typed /\ \E x : history' = [history EXCEPT !.written = x]
  PROVE  ReceiveInv'
<1>1. /\ history'.connection = history.connection /\ history'.handled = history.handled
      /\ history'.ordered = history.ordered /\ history'.rejected = history.rejected
      /\ history'.dropped = history.dropped /\ history'.crossed = history.crossed
  BY Records DEF HistoryRecord
<1> QED
  BY <1>1, ReceiveStays

\* Every step keeps what is received in order and whole.
LEMMA ReceiveKept == ASSUME Typed, ReceiveInv, [ThreadNext]_threadVars PROVE ReceiveInv'
<1>1. CASE fd_rpc_channel_thread_connected
  <2>1. /\ rx' = [ring |-> <<>>, packet |-> <<>>] /\ worker' = worker
        /\ host' = [at |-> "running", to_device |-> <<>>, got |-> <<>>, packets |-> 0]
        /\ history' = [history EXCEPT !.connection = history.connection + 1, !.first = history.written, !.crossed = Crossed,
                          !.merged = history.merged \/ (Queued("connected") /\ Queued("disconnected"))]
    BY <1>1 DEF fd_rpc_channel_thread_connected, fd_rpc_channel_thread_reset_buffers
  <2>2. /\ history'.connection = history.connection + 1 /\ history'.handled = history.handled
        /\ history'.ordered = history.ordered /\ history'.rejected = history.rejected
        /\ history'.dropped = history.dropped /\ history'.crossed = Crossed
    BY <2>1, Records DEF HistoryRecord
  <2> QED
    BY <2>1, <2>2, ConnectKeepsReceived
<1>2. CASE fd_rpc_channel_thread_ot_TcpDisconnected
  <2>1. /\ rx' = [ring |-> <<>>, packet |-> <<>>] /\ worker' = worker
        /\ host' = [host EXCEPT !.at = IF host.at = "off" THEN host.at ELSE "broken", !.to_device = <<>>]
        /\ history' = [history EXCEPT !.crossed = Crossed,
                          !.merged = history.merged \/ (Queued("connected") /\ Queued("disconnected"))]
    BY <1>2 DEF fd_rpc_channel_thread_ot_TcpDisconnected, fd_rpc_channel_thread_disconnected, Cleaned,
                fd_rpc_channel_thread_reset_buffers
  <2>2. host'.to_device = <<>> /\ host'.packets = host.packets
    BY <2>1, Records DEF HostRecord
  <2>3. /\ history'.connection = history.connection /\ history'.handled = history.handled
        /\ history'.ordered = history.ordered /\ history'.rejected = history.rejected
        /\ history'.dropped = history.dropped /\ history'.crossed = Crossed
    BY <2>1, Records DEF HistoryRecord
  <2> QED
    BY <2>1, <2>2, <2>3, EndKeepsReceived
<1>3. CASE fd_rpc_channel_thread_ot_TcpReceiveAvailable
  <2>1. CASE \E n \in 1 .. Len(host.to_device) :
               /\ fd_rpc_channel_thread_rx(FirstOf(host.to_device, n))
               /\ host' = [host EXCEPT !.to_device = After(@, n)]
    <3>1. worker' = worker
      BY <1>3 DEF fd_rpc_channel_thread_ot_TcpReceiveAvailable
    <3>2. PICK n \in 1 .. Len(host.to_device) :
               /\ fd_rpc_channel_thread_rx(FirstOf(host.to_device, n))
               /\ host' = [host EXCEPT !.to_device = After(@, n)]
      BY <2>1
    <3> QED
      BY <3>1, <3>2, RxKeepsReceived
  <2>2. CASE UNCHANGED <<rx, queue, host, history>>
    <3>1. Taken' = Taken
      BY <1>3 DEF fd_rpc_channel_thread_ot_TcpReceiveAvailable, Taken
    <3> QED
      BY <2>2, <3>1, ElsewhereKeepsReceived
  <2> QED
    BY <1>3, <2>1, <2>2 DEF fd_rpc_channel_thread_ot_TcpReceiveAvailable
<1>4. CASE fd_rpc_channel_thread_send_done
  <2>1. rx' = rx /\ worker' = worker /\ history' = history
        /\ host' = [host EXCEPT !.got = host.got \o FirstOf(tx.buffer, Head(endpoint.held))]
    BY <1>4 DEF fd_rpc_channel_thread_send_done
  <2>2. host'.to_device = host.to_device /\ host'.packets = host.packets
    BY <2>1, Records DEF HostRecord
  <2>3. Taken' = Taken
    BY <2>1 DEF Taken
  <2> QED
    BY <2>1, <2>2, <2>3, ReceiveStays
<1>5. CASE fd_rpc_channel_thread_ot_StateChanged
  <2>1. worker' = worker
    BY <1>5 DEF fd_rpc_channel_thread_ot_StateChanged
  <2>2. \/ fd_rpc_channel_thread_up
        \/ fd_rpc_channel_thread_down(FALSE, net.calls)
        \/ UNCHANGED <<rx, host, history>>
    <3>1. CASE ~role /\ net.active
      BY <1>5, <3>1 DEF fd_rpc_channel_thread_ot_StateChanged
    <3>2. CASE role /\ ~net.active
      BY <1>5, <3>2 DEF fd_rpc_channel_thread_ot_StateChanged
    <3>3. CASE ~(~role /\ net.active) /\ ~(role /\ ~net.active)
      BY <1>5, <3>3 DEF fd_rpc_channel_thread_ot_StateChanged
    <3> QED
      BY <3>1, <3>2, <3>3
  <2>3. CASE fd_rpc_channel_thread_up
    <3>1. UNCHANGED <<rx, host, history>> /\ Taken' = Taken
      BY <2>1, <2>3 DEF fd_rpc_channel_thread_up, Taken
    <3> QED
      BY <3>1, ElsewhereKeepsReceived
  <2>4. CASE fd_rpc_channel_thread_down(FALSE, net.calls)
    BY <2>1, <2>4, DownKeepsReceived
  <2>5. CASE UNCHANGED <<rx, host, history>>
    <3>1. Taken' = Taken
      BY <2>1 DEF Taken
    <3> QED
      BY <2>5, <3>1, ElsewhereKeepsReceived
  <2> QED
    BY <2>2, <2>3, <2>4, <2>5
<1>6. CASE fd_rpc_channel_thread_stop
  <2>1. worker' = worker /\ fd_rpc_channel_thread_down(net.changed \/ net.active, net.calls + 1)
    BY <1>6 DEF fd_rpc_channel_thread_stop
  <2> QED
    BY <2>1, DownKeepsReceived
<1>7. CASE SetDataset
  <2>1. worker' = worker
        /\ (fd_rpc_channel_thread_down(net.changed \/ net.active, net.calls) \/ UNCHANGED <<rx, host, history>>)
    BY <1>7 DEF SetDataset
  <2>2. CASE fd_rpc_channel_thread_down(net.changed \/ net.active, net.calls)
    BY <2>1, <2>2, DownKeepsReceived
  <2>3. CASE UNCHANGED <<rx, host, history>>
    <3>1. Taken' = Taken
      BY <2>1 DEF Taken
    <3> QED
      BY <2>3, <3>1, ElsewhereKeepsReceived
  <2> QED
    BY <2>1, <2>2, <2>3
<1>8. CASE fd_rpc_channel_thread_set_dataset
  <2>1. rx' = rx /\ host' = host /\ worker' = worker /\ \E x : history' = [history EXCEPT !.replaced = x]
    BY <1>8 DEF fd_rpc_channel_thread_set_dataset
  <2>2. Taken' = Taken
    BY <2>1 DEF Taken
  <2> QED
    BY <2>1, <2>2, ElsewhereKeepsReceived
<1>9. CASE fd_rpc_channel_thread_packet_write
  <2>1. rx' = rx /\ host' = host /\ worker' = worker /\ \E x : history' = [history EXCEPT !.written = x]
    BY <1>9 DEF fd_rpc_channel_thread_packet_write
  <2>2. Taken' = Taken
    BY <2>1 DEF Taken
  <2> QED
    BY <2>1, <2>2, ElsewhereKeepsReceived
<1>10. CASE fd_rpc_channel_thread_rx_work
  BY <1>10, RxWorkKeepsReceived
<1>11. CASE received_data
  BY <1>11, OctetKeepsReceived
<1>12. CASE run_loop
  <2>1. rx' = rx /\ worker' = worker /\ history' = history
    BY <1>12 DEF run_loop, HostUnchanged
  <2>2. Taken' = Taken
    BY <2>1 DEF Taken
  <2> DEFINE o1 == Octet(Connection, 2 * host.packets + 1)
             o2 == Octet(Connection, 2 * host.packets + 2)
  <2>3. \/ host' = [host EXCEPT !.at = "off"]
        \/ host' = [host EXCEPT !.packets = host.packets + 1, !.to_device = host.to_device \o <<o1, o2>>]
    BY <1>12 DEF run_loop
  <2>4. CASE host' = [host EXCEPT !.at = "off"]
    <3>1. host'.to_device = host.to_device /\ host'.packets = host.packets
      BY <2>4, Records DEF HostRecord
    <3> QED
      BY <2>1, <2>2, <3>1, ReceiveStays
  <2>5. CASE host' = [host EXCEPT !.packets = host.packets + 1, !.to_device = host.to_device \o <<o1, o2>>]
    <3>1. host'.to_device = host.to_device \o <<o1, o2>> /\ host'.packets = host.packets + 1
      <4> HIDE DEF o1, o2
      <4> QED
        BY <2>5, Records DEF HostRecord
    <3> QED
      BY <2>1, <3>1, PacketKeepsReceived
  <2> QED
    BY <2>3, <2>4, <2>5
<1>13. CASE close
  <2>1. rx' = rx /\ worker' = worker /\ history' = history /\ host' = [host EXCEPT !.at = "off"]
    BY <1>13 DEF close, HostUnchanged
  <2>2. Taken' = Taken /\ host'.to_device = host.to_device /\ host'.packets = host.packets
    BY <2>1, Records DEF HostRecord, Taken
  <2> QED
    BY <2>1, <2>2, ReceiveStays
<1>14. CASE \/ fd_rpc_channel_thread_connected_work \/ fd_rpc_channel_thread_disconnected_work
            \/ fd_rpc_channel_thread_timer \/ RoleChanges \/ UNCHANGED threadVars
  <2>1. rx' = rx /\ host' = host /\ worker' = worker /\ history' = history
    BY <1>14 DEF fd_rpc_channel_thread_connected_work, fd_rpc_channel_thread_disconnected_work,
                 fd_rpc_channel_thread_timer, RoleChanges, threadVars
  <2>2. Taken' = Taken
    BY <2>1 DEF Taken
  <2> QED
    BY <2>1, <2>2, ElsewhereKeepsReceived
<1>15. CASE TxWork \/ TxCopy \/ TxFinish \/ fd_rpc_channel_thread_tcp_send
  <2>1. rx' = rx /\ host' = host /\ history' = history
    BY <1>15 DEF TxWork, TxCopy, TxFinish, fd_rpc_channel_thread_tcp_send
  <2>2. worker.at # "append" /\ worker'.at # "append"
    <3>1. CASE TxWork
      BY <3>1 DEF TxWork, At, Dequeued, Idle
    <3>2. CASE TxCopy \/ TxFinish \/ fd_rpc_channel_thread_tcp_send
      BY <3>2 DEF TxCopy, TxFinish, fd_rpc_channel_thread_tcp_send, At, Idle
    <3> QED
      BY <1>15, <3>1, <3>2
  <2>3. Taken' = Taken
    BY <2>2 DEF Taken
  <2> QED
    BY <2>1, <2>3, ElsewhereKeepsReceived
<1> QED
  BY <1>1, <1>2, <1>3, <1>4, <1>5, <1>6, <1>7, <1>8, <1>9, <1>10, <1>11, <1>12, <1>13, <1>14, <1>15
  DEF ThreadNext, Callbacks, WorkQueue, Environment
-----------------------------------------------------------------------------
(* What is sent. *)

\* The ring starts with these octets, so that ring_buf_get_finish takes them off.
Claimed(r, d) == FirstOf(r, Len(d)) = d
\* The host has the octets of its connection up to here.
Reached == history.first + Len(host.got)
\* It has, or gets from the buffer that the stack refers to, the octets up to k.
SentTo(k) ==
  \/ endpoint.held = <<>> /\ Reached = k
  \/ /\ endpoint.held = <<Len(tx.buffer)>> /\ tx.pending
     /\ Run(tx.buffer, Reached) /\ Reached + Len(tx.buffer) = k
\* The ring holds the octets after b.
RingFrom(b) == b + Len(tx.ring) = history.written /\ b >= history.first /\ Run(tx.ring, b)
Sending(b) ==
  /\ worker.at \in {"copy", "send"} => /\ endpoint.held = <<>> /\ Reached = b
                                       /\ Claimed(tx.ring, worker.data)
  /\ worker.at = "copy" => ~tx.pending
  /\ worker.at = "send" => tx.pending /\ tx.buffer = worker.data
  /\ worker.at = "finish" /\ Claimed(tx.ring, worker.data) => SentTo(b + Len(worker.data))
  /\ worker.at = "finish" /\ ~Claimed(tx.ring, worker.data) => SentTo(b) /\ worker.data[1].n <= b
  /\ worker.at \notin {"copy", "send", "finish"} => SentTo(b)

\* The stack holds no reference without a connection.
HeldInv == endpoint.at # "open" => endpoint.held = <<>>

SendInv ==
  /\ worker.at \in {"copy", "send", "finish"} => worker.data[1].n <= history.written
  /\ \E b \in Nat :
       /\ RingFrom(b)
       /\ "tx" \notin history.crossed =>
            Run(host.got, history.first) /\ (endpoint.at = "open" => Sending(b))

\* A claim is a prefix of the ring.
LEMMA ClaimFacts ==
  ASSUME NEW r \in Seq(Octets), NEW d \in Seq(Octets)
  PROVE  Claimed(r, d) <=> Len(d) <= Len(r) /\ \A i \in 1 .. Len(d) : r[i] = d[i]
<1> DEFINE f == FirstOf(r, Len(d))
           m == Fewer(Len(d), Len(r))
<1>1. /\ f \in Seq(Octets) /\ Len(f) = m /\ \A i \in 1 .. m : f[i] = r[i]
      /\ m \in Nat /\ m <= Len(d) /\ m <= Len(r)
  BY FrontFacts
<1>2. (m = Len(d) \/ m = Len(r)) /\ Len(d) \in Nat /\ Len(r) \in Nat
  BY DEF Fewer
<1>3. Claimed(r, d) <=> f = d
  BY DEF Claimed
<1> HIDE DEF f, m
<1>4. ASSUME f = d PROVE Len(d) <= Len(r) /\ \A i \in 1 .. Len(d) : r[i] = d[i]
  BY <1>1, <1>4
<1>5. ASSUME Len(d) <= Len(r), \A i \in 1 .. Len(d) : r[i] = d[i] PROVE f = d
  <2>1. m = Len(d)
    BY <1>1, <1>2, <1>5
  <2>2. Len(f) = Len(d) /\ \A i \in 1 .. Len(d) : f[i] = d[i]
    BY <1>1, <1>5, <2>1
  <2> QED
    BY <1>1, <2>2
<1> QED
  BY <1>3, <1>4, <1>5

\* The front of the ring can be claimed.
LEMMA ClaimFront ==
  ASSUME NEW r \in Seq(Octets), NEW n \in Nat
  PROVE  Claimed(r, FirstOf(r, n))
<1> DEFINE f == FirstOf(r, n)
           m == Fewer(n, Len(r))
<1>1. /\ f \in Seq(Octets) /\ Len(f) = m /\ \A i \in 1 .. m : f[i] = r[i]
      /\ m \in Nat /\ m <= Len(r)
  BY FrontFacts
<1> HIDE DEF f, m
<1>2. Claimed(r, f)
  BY <1>1, ClaimFacts
<1> QED
  BY <1>2 DEF f

\* A claim starts with the first octet of the ring.
LEMMA ClaimFirst ==
  ASSUME NEW r \in Seq(Octets), NEW d \in Seq(Octets), Claimed(r, d), d # <<>>
  PROVE  r # <<>> /\ r[1] = d[1]
<1>1. Len(d) <= Len(r) /\ \A i \in 1 .. Len(d) : r[i] = d[i]
  BY ClaimFacts
<1>2. 1 \in 1 .. Len(d) /\ Len(r) # 0
  BY <1>1
<1> QED
  BY <1>1, <1>2

\* Writing to the ring keeps a claim.
LEMMA AppendClaim ==
  ASSUME NEW r \in Seq(Octets), NEW d \in Seq(Octets), NEW e \in Octets, Claimed(r, d)
  PROVE  Claimed(Append(r, e), d)
<1> DEFINE a == Append(r, e)
<1>1. Len(d) <= Len(r) /\ (\A i \in 1 .. Len(d) : r[i] = d[i]) /\ Len(d) \in Nat /\ Len(r) \in Nat
  BY ClaimFacts
<1>2. a \in Seq(Octets) /\ Len(a) = Len(r) + 1 /\ \A i \in 1 .. Len(r) : a[i] = r[i]
  OBVIOUS
<1> HIDE DEF a
<1>3. Len(d) <= Len(a) /\ \A i \in 1 .. Len(d) : a[i] = d[i]
  BY <1>1, <1>2
<1>4. Claimed(a, d)
  BY <1>2, <1>3, ClaimFacts
<1> QED
  BY <1>4 DEF a

\* A claim of a run is a run, and what comes after it is one, too.
LEMMA ClaimRun ==
  ASSUME NEW r \in Seq(Octets), NEW d \in Seq(Octets), NEW b \in Nat, Claimed(r, d), Run(r, b)
  PROVE  /\ Run(d, b) /\ Run(After(r, Len(d)), b + Len(d)) /\ Len(d) + Len(After(r, Len(d))) = Len(r)
         /\ After(r, Len(d)) \in Seq(Octets)
<1>1. Len(d) \in Nat /\ FirstOf(r, Len(d)) = d
  BY DEF Claimed
<1> DEFINE n == Len(d)
<1>2. /\ Run(FirstOf(r, n), b) /\ Run(After(r, n), b + Len(FirstOf(r, n)))
      /\ Len(FirstOf(r, n)) + Len(After(r, n)) = Len(r)
  <2> HIDE DEF n
  <2>1. n \in Nat
    BY <1>1 DEF n
  <2> QED
    BY <2>1, SplitRun
<1>3. After(r, n) \in Seq(Octets)
  <2> HIDE DEF n
  <2>1. n \in Nat
    BY <1>1 DEF n
  <2> QED
    BY <2>1, SplitTyped
<1> QED
  BY <1>1, <1>2, <1>3

\* The number of the first octet of a run.
LEMMA FirstOfRun ==
  ASSUME NEW r \in Seq(Octets), NEW b \in Nat, Run(r, b), r # <<>>
  PROVE  r[1].n = b + 1
<1>1. 1 \in DOMAIN r
  OBVIOUS
<1>2. r[1] = Octet(Connection, b + 1)
  BY <1>1 DEF Run
<1> QED
  BY <1>2 DEF Octet

\* The next octet prolongs a run.
LEMMA AppendRun ==
  ASSUME NEW r \in Seq(Octets), NEW b \in Nat, NEW k \in Nat, Run(r, b), k = b + Len(r)
  PROVE  Run(Append(r, Octet(Connection, k + 1)), b)
<1> DEFINE e == Octet(Connection, k + 1)
           a == Append(r, e)
           m == Len(r)
<1>1. m \in Nat /\ DOMAIN r = 1 .. m /\ DOMAIN a = 1 .. m + 1 /\ a[m + 1] = e /\ \A i \in 1 .. m : a[i] = r[i]
  OBVIOUS
<1>2. k = b + m
  OBVIOUS
<1> HIDE DEF a, m
<1>3. Run(a, b)
  <2> SUFFICES ASSUME NEW i \in DOMAIN a PROVE a[i] = Octet(Connection, b + i)
    BY DEF Run
  <2>1. CASE i <= m
    BY <1>1, <2>1 DEF Run
  <2>2. CASE i > m
    <3>1. i = m + 1 /\ b + i = k + 1
      BY <1>1, <1>2, <2>2
    <3> QED
      BY <1>1, <3>1
  <2> QED
    BY <1>1, <2>1, <2>2
<1> QED
  BY <1>3 DEF a
-----------------------------------------------------------------------------
(* What is sent stays as it was written. *)

\* The kinds of what is being sent.
LEMMA SendFacts ==
  ASSUME Typed
  PROVE  /\ tx.ring \in Seq(Octets) /\ tx.buffer \in Seq(Octets) /\ worker.data \in Seq(Octets)
         /\ host.got \in Seq(Octets) /\ endpoint.held \in Seq(Nat)
         /\ history.written \in Nat /\ history.first \in Nat /\ Connection \in Nat
         /\ Len(tx.ring) \in Nat /\ Len(tx.buffer) \in Nat /\ Len(worker.data) \in Nat /\ Len(host.got) \in Nat
         /\ Reached \in Nat
<1>1. /\ tx.ring \in Seq(Octets) /\ tx.buffer \in Seq(Octets) /\ worker.data \in Seq(Octets)
      /\ host.got \in Seq(Octets) /\ endpoint.held \in Seq(Nat)
  BY Records DEF TxRecord, WorkerRecord, HostRecord, EndpointRecord
<1>2. history.written \in Nat /\ history.first \in Nat /\ Connection \in Nat
  BY Records DEF HistoryRecord, Connection
<1>3. Len(tx.ring) \in Nat /\ Len(tx.buffer) \in Nat /\ Len(worker.data) \in Nat /\ Len(host.got) \in Nat
  BY <1>1
<1>4. Reached \in Nat
  BY <1>2, <1>3 DEF Reached
<1> QED
  BY <1>1, <1>2, <1>3, <1>4

\* Who leaves the octets being sent where they are keeps the invariant.
LEMMA SendStays ==
  ASSUME SendInv, tx' = tx, worker'.data = worker.data \/ worker'.at \notin {"copy", "send", "finish"},
         \/ worker'.at = worker.at
         \/ {worker.at, worker'.at} \cap {"copy", "send", "finish"} = {},
         endpoint'.at = "open" => endpoint.at = "open" /\ endpoint'.held = endpoint.held,
         host'.got = host.got, history'.connection = history.connection,
         history'.written = history.written, history'.first = history.first,
         "tx" \in history.crossed => "tx" \in history'.crossed
  PROVE  SendInv'
<1>1. PICK b \in Nat : /\ RingFrom(b)
                       /\ "tx" \notin history.crossed =>
                            Run(host.got, history.first) /\ (endpoint.at = "open" => Sending(b))
  BY DEF SendInv
<1>2. Connection' = Connection /\ Reached' = Reached
  BY DEF Connection, Reached
<1>3. \A s, j : Run(s, j)' <=> Run(s, j)
  BY <1>2 DEF Run
<1>4. RingFrom(b)'
  BY <1>1, <1>2 DEF RingFrom, Run
<1>5. Run(host.got, history.first) => Run(host.got, history.first)'
  BY <1>2 DEF Run
<1>6. ASSUME endpoint'.at = "open", Sending(b) PROVE Sending(b)'
  <2>1. \A k : SentTo(k) <=> SentTo(k)'
    BY <1>2, <1>6 DEF SentTo, Run
  <2>2. CASE worker'.at = worker.at /\ worker'.data = worker.data
    BY <1>2, <1>6, <2>1, <2>2 DEF Sending
  <2>3. CASE worker.at \notin {"copy", "send", "finish"} /\ worker'.at \notin {"copy", "send", "finish"}
    BY <1>6, <2>1, <2>3 DEF Sending
  <2> QED
    BY <2>2, <2>3
<1>7. worker'.at \in {"copy", "send", "finish"} => worker'.data[1].n <= history'.written
  BY DEF SendInv
<1> QED
  BY <1>1, <1>4, <1>5, <1>6, <1>7 DEF SendInv

\* At the start nothing is sent.
LEMMA SendStarts == ThreadInit => SendInv
<1> SUFFICES ASSUME ThreadInit PROVE SendInv
  OBVIOUS
<1>1. /\ tx.ring = <<>> /\ worker.at = "idle" /\ host.got = <<>> /\ endpoint.at = "closed"
      /\ history.written = 0 /\ history.first = 0
  BY DEF ThreadInit, Idle
<1>2. RingFrom(0) /\ Run(host.got, history.first)
  BY <1>1 DEF RingFrom, Run
<1> QED
  BY <1>1, <1>2 DEF SendInv

\* The buffers are reset at the end of a connection.
LEMMA EndKeepsSent ==
  ASSUME Typed, SendInv, tx'.ring = <<>>, worker' = worker, endpoint'.at = "closed",
         host'.got = host.got, history'.connection = history.connection,
         history'.written = history.written, history'.first = history.first, history'.crossed = Crossed
  PROVE  SendInv'
<1>1. Connection' = Connection
  BY DEF Connection
<1>2. PICK b \in Nat : RingFrom(b) /\ ("tx" \notin history.crossed => Run(host.got, history.first))
  BY DEF SendInv
<1>3. history.written \in Nat /\ history.first \in Nat /\ Len(tx.ring) \in Nat
  BY SendFacts
<1>4. history.written >= history.first
  BY <1>2, <1>3 DEF RingFrom
<1>5. PICK k \in Nat : k = history.written
  BY <1>3
<1>6. "tx" \notin history'.crossed => Run(host.got, history.first)'
  <2>1. "tx" \notin history'.crossed => "tx" \notin history.crossed
    BY DEF Crossed
  <2> QED
    BY <1>1, <1>2, <2>1 DEF Run
<1>7. worker'.at \in {"copy", "send", "finish"} => worker'.data[1].n <= history'.written
  BY DEF SendInv
<1>8. Len(tx'.ring) = 0 /\ \A i \in DOMAIN tx'.ring : FALSE
  OBVIOUS
<1>9. RingFrom(k)'
  BY <1>4, <1>5, <1>8 DEF RingFrom, Run
<1> QED
  BY <1>6, <1>7, <1>9 DEF SendInv

\* A host connects: its octets are those that are written from now on.
LEMMA ConnectKeepsSent ==
  ASSUME Typed, SendInv, tx'.ring = <<>>, worker' = worker, endpoint'.held = <<>>, host'.got = <<>>,
         history'.written = history.written, history'.first = history.written, history'.crossed = Crossed
  PROVE  SendInv'
<1>1. history.written \in Nat /\ worker.data \in Seq(Octets)
  BY SendFacts
<1>2. worker.at \in {"copy", "send", "finish"} => worker.data[1].n <= history.written /\ worker.data # <<>>
  BY DEF SendInv, Typed
<1>3. PICK b \in Nat : b = history.written
  BY <1>1
<1>4. Len(tx'.ring) = 0 /\ Len(host'.got) = 0 /\ Reached' = b
  <2>1. Len(tx'.ring) = 0 /\ Len(host'.got) = 0
    OBVIOUS
  <2> QED
    BY <1>3, <2>1 DEF Reached
<1>5. RingFrom(b)' /\ Run(host.got, history.first)'
  BY <1>3, <1>4 DEF RingFrom, Run
<1>6. SentTo(b)'
  BY <1>4 DEF SentTo
<1>7. worker.at = "finish" => ~Claimed(<<>>, worker.data)
  <2>1. <<>> \in Seq(Octets) /\ Len(<<>>) = 0
    OBVIOUS
  <2>2. ASSUME worker.data # <<>>, Claimed(<<>>, worker.data) PROVE FALSE
    <3>1. Len(worker.data) <= Len(<<>>)
      BY <1>1, <2>1, <2>2, ClaimFacts
    <3> QED
      BY <1>1, <2>1, <2>2, <3>1
  <2> QED
    BY <1>2, <2>2
<1>8. "tx" \notin history'.crossed => Sending(b)'
  <2>1. "tx" \notin history'.crossed => worker.at \notin {"copy", "send"}
    BY DEF Crossed
  <2>2. worker'.at = "finish" => ~Claimed(tx.ring, worker.data)'
    BY <1>7 DEF Claimed
  <2> QED
    BY <1>2, <1>3, <1>6, <2>1, <2>2 DEF Sending
<1> QED
  BY <1>2, <1>5, <1>8 DEF SendInv

\* The host acknowledged what the stack sent from the buffer.
LEMMA AcknowledgeKeepsSent ==
  ASSUME Typed, HeldInv, SendInv, fd_rpc_channel_thread_send_done
  PROVE  SendInv'
<1>1. /\ endpoint.held # <<>> /\ worker' = worker /\ history' = history
      /\ endpoint' = [endpoint EXCEPT !.held = Tail(endpoint.held)]
      /\ host' = [host EXCEPT !.got = host.got \o FirstOf(tx.buffer, Head(endpoint.held))]
      /\ tx' = [tx EXCEPT !.pending = FALSE]
  BY DEF fd_rpc_channel_thread_send_done
<1>2. endpoint.at = "open"
  BY <1>1 DEF HeldInv
<1>3. /\ tx'.ring = tx.ring /\ tx'.buffer = tx.buffer /\ tx'.pending = FALSE
      /\ endpoint'.at = endpoint.at /\ endpoint'.held = Tail(endpoint.held)
      /\ host'.got = host.got \o FirstOf(tx.buffer, Head(endpoint.held))
  <2>1. tx'.ring = tx.ring /\ tx'.buffer = tx.buffer /\ tx'.pending = FALSE
    BY <1>1, Records DEF TxRecord
  <2>2. endpoint'.at = endpoint.at /\ endpoint'.held = Tail(endpoint.held)
    BY <1>1, Records DEF EndpointRecord
  <2>3. host'.got = host.got \o FirstOf(tx.buffer, Head(endpoint.held))
    BY <1>1, Records, Zenon DEF HostRecord
  <2> QED
    BY <2>1, <2>2, <2>3
<1>4. Connection' = Connection
  BY <1>1 DEF Connection
<1>5. PICK b \in Nat : RingFrom(b) /\ ("tx" \notin history.crossed => Run(host.got, history.first) /\ Sending(b))
  BY <1>2 DEF SendInv
<1>6. RingFrom(b)'
  BY <1>1, <1>3, <1>4, <1>5 DEF RingFrom, Run
<1>7. ASSUME "tx" \notin history.crossed PROVE Run(host.got, history.first)' /\ Sending(b)'
  <2> DEFINE f == history.first
             got == host.got
             buffer == tx.buffer
  <2>0. /\ f \in Nat /\ got \in Seq(Octets) /\ buffer \in Seq(Octets)
        /\ Len(got) \in Nat /\ Len(buffer) \in Nat /\ Reached = f + Len(got)
    BY SendFacts DEF Reached
  <2>1. /\ Run(got, f) /\ endpoint.held = <<Len(buffer)>> /\ Run(buffer, f + Len(got))
        /\ worker.at \notin {"copy", "send"}
    <3>1. Sending(b) /\ Run(got, f)
      BY <1>5, <1>7
    <3>2. worker.at \notin {"copy", "send"}
      BY <1>1, <3>1 DEF Sending
    <3>3. SentTo(b) \/ SentTo(b + Len(worker.data))
      BY <3>1, <3>2 DEF Sending
    <3>4. endpoint.held = <<Len(buffer)>> /\ Run(buffer, Reached)
      BY <1>1, <3>3 DEF SentTo
    <3> QED
      BY <2>0, <3>1, <3>2, <3>4
  <2>2. Head(endpoint.held) = Len(buffer) /\ endpoint'.held = <<>>
    <3> HIDE DEF buffer
    <3> QED
      BY <1>3, <2>0, <2>1
  <2>3. FirstOf(buffer, Len(buffer)) = buffer
    <3> HIDE DEF buffer
    <3>1. Claimed(buffer, buffer)
      BY <2>0, ClaimFacts
    <3> QED
      BY <3>1 DEF Claimed
  <2>4. host'.got = got \o buffer
    BY <1>3, <2>2, <2>3
  <2>5. Run(got \o buffer, f) /\ Len(got \o buffer) = Len(got) + Len(buffer)
    <3> HIDE DEF got, buffer, f
    <3> QED
      BY <2>0, <2>1, JoinRun
  <2>6. Run(host.got, history.first)'
    BY <1>1, <1>4, <2>4, <2>5 DEF Run
  <2>7. Reached' = f + (Len(got) + Len(buffer))
    BY <1>1, <2>4, <2>5 DEF Reached
  <2>8. \A k : SentTo(k) => SentTo(k)'
    <3>1. endpoint.held # <<>>
      BY <1>1
    <3>2. Reached' = Reached + Len(buffer)
      <4> HIDE DEF got, buffer, f
      <4> QED
        BY <2>0, <2>7
    <3> QED
      BY <2>2, <3>1, <3>2 DEF SentTo
  <2>9. Sending(b)'
    <3>1. worker' = worker /\ tx'.ring = tx.ring /\ Sending(b)
      BY <1>1, <1>3, <1>5, <1>7
    <3> QED
      BY <2>1, <2>8, <3>1 DEF Sending
  <2> QED
    BY <2>6, <2>9
<1>8. worker'.at \in {"copy", "send", "finish"} => worker'.data[1].n <= history'.written
  BY <1>1 DEF SendInv
<1> QED
  BY <1>1, <1>6, <1>7, <1>8 DEF SendInv

\* Taking the channel down ends a connection, if there is one.
LEMMA DownKeepsSent ==
  ASSUME Typed, SendInv, NEW c, NEW n, fd_rpc_channel_thread_down(c, n), worker' = worker
  PROVE  SendInv'
<1>1. CASE state \in {"listening", "connected"} /\ endpoint.at # "closed"
  <2>1. /\ tx' = [tx EXCEPT !.ring = <<>>, !.pending = FALSE]
        /\ endpoint' = [up |-> FALSE, at |-> "closed", held |-> <<>>]
        /\ host' = [host EXCEPT !.at = IF host.at = "off" THEN host.at ELSE "broken", !.to_device = <<>>]
        /\ history' = [history EXCEPT !.late = history.late \/ Queued("connected"), !.crossed = Crossed]
    BY <1>1 DEF fd_rpc_channel_thread_down, fd_rpc_channel_thread_tcp_down, Cleaned, fd_rpc_channel_thread_reset_buffers
  <2>2. host'.got = host.got /\ tx'.ring = <<>> /\ endpoint'.at = "closed"
    BY <2>1, Records DEF HostRecord, TxRecord
  <2>3. /\ history'.connection = history.connection /\ history'.written = history.written
        /\ history'.first = history.first /\ history'.crossed = Crossed
    BY <2>1, Records DEF HistoryRecord
  <2> QED
    BY <2>2, <2>3, EndKeepsSent
<1>2. CASE ~(state \in {"listening", "connected"} /\ endpoint.at # "closed")
  <2>1. /\ tx' = tx /\ host' = host
        /\ history' = history \/ history' = [history EXCEPT !.late = history.late \/ Queued("connected"), !.crossed = history.crossed]
        /\ endpoint' = endpoint \/ endpoint' = [up |-> FALSE, at |-> "closed", held |-> <<>>]
    BY <1>2 DEF fd_rpc_channel_thread_down, fd_rpc_channel_thread_tcp_down
  <2>2. /\ history'.connection = history.connection /\ history'.written = history.written
        /\ history'.first = history.first /\ history'.crossed = history.crossed
    BY <2>1, Records DEF HistoryRecord
  <2>3. endpoint'.at = "open" => endpoint.at = "open" /\ endpoint'.held = endpoint.held
    BY <2>1
  <2> QED
    BY <2>1, <2>2, <2>3, SendStays
<1> QED
  BY <1>1, <1>2

\* fd_rpc_channel_thread_tx claims octets of the ring.
LEMMA ClaimKeepsSent ==
  ASSUME Typed, SendInv, TxWork
  PROVE  SendInv'
<1> DEFINE data == FirstOf(tx.ring, SendBuffer)
<1>1. /\ tx' = tx /\ endpoint' = endpoint /\ host' = host /\ history' = history
      /\ worker.at = "idle"
      /\ \/ worker' = worker
         \/ ~tx.pending /\ tx.ring # <<>> /\ worker' = [at |-> "copy", data |-> data]
  BY DEF TxWork, Dequeued, Idle, At
<1>2. CASE worker' = worker
  BY <1>1, <1>2, SendStays
<1>3. CASE ~tx.pending /\ tx.ring # <<>> /\ worker' = [at |-> "copy", data |-> data]
  <2>1. tx.ring \in Seq(Octets) /\ SendBuffer \in Nat /\ SendBuffer # 0 /\ history.written \in Nat /\ Len(tx.ring) \in Nat
    BY SendFacts, ThreadAssumption
  <2>2. data \in Seq(Octets) /\ data # <<>> /\ Claimed(tx.ring, data)
    BY <1>3, <2>1, FrontFacts, ClaimFront
  <2>3. PICK b \in Nat : /\ RingFrom(b)
                         /\ "tx" \notin history.crossed =>
                              Run(host.got, history.first) /\ (endpoint.at = "open" => Sending(b))
    BY DEF SendInv
  <2>4. tx.ring[1] = data[1] /\ tx.ring[1].n = b + 1
    <3> HIDE DEF data
    <3>1. Run(tx.ring, b)
      BY <2>3 DEF RingFrom
    <3> QED
      BY <1>3, <2>1, <2>2, <3>1, ClaimFirst, FirstOfRun
  <2>5. b + 1 <= history.written
    <3>1. Len(tx.ring) # 0
      BY <1>3, <2>1
    <3> QED
      BY <2>1, <2>3, <3>1 DEF RingFrom
  <2> HIDE DEF data
  <2>6. RingFrom(b)' /\ (Run(host.got, history.first) => Run(host.got, history.first)')
    BY <1>1, <2>3 DEF RingFrom, Run, Connection
  <2>7. worker'.at = "copy" /\ worker'.data = data
    BY <1>3
  <2>8. ASSUME Sending(b) PROVE Sending(b)'
    <3>1. SentTo(b)
      BY <1>1, <2>8 DEF Sending
    <3>2. endpoint.held = <<>> /\ Reached = b
      BY <1>3, <3>1 DEF SentTo
    <3>3. Reached' = Reached
      BY <1>1 DEF Reached
    <3> QED
      BY <1>1, <1>3, <2>2, <2>7, <3>2, <3>3 DEF Sending
  <2>9. worker'.data[1].n <= history'.written
    BY <1>1, <2>4, <2>5, <2>7
  <2> QED
    BY <1>1, <2>3, <2>6, <2>8, <2>9 DEF SendInv
<1> QED
  BY <1>1, <1>2, <1>3

\* It copies them to the buffer that the stack will refer to.
LEMMA CopyKeepsSent ==
  ASSUME Typed, SendInv, TxCopy
  PROVE  SendInv'
<1>1. /\ worker.at = "copy" /\ worker' = [at |-> "send", data |-> worker.data]
      /\ tx' = [tx EXCEPT !.pending = TRUE, !.buffer = worker.data]
      /\ endpoint' = endpoint /\ host' = host /\ history' = history
  BY DEF TxCopy, At
<1>2. tx'.ring = tx.ring /\ tx'.pending = TRUE /\ tx'.buffer = worker.data
  BY <1>1, Records DEF TxRecord
<1>3. worker'.at = "send" /\ worker'.data = worker.data
  BY <1>1
<1>4. PICK b \in Nat : /\ RingFrom(b)
                       /\ "tx" \notin history.crossed =>
                            Run(host.got, history.first) /\ (endpoint.at = "open" => Sending(b))
  BY DEF SendInv
<1>5. RingFrom(b)' /\ (Run(host.got, history.first) => Run(host.got, history.first)')
  BY <1>1, <1>2, <1>4 DEF RingFrom, Run, Connection
<1>6. ASSUME Sending(b) PROVE Sending(b)'
  <2>1. endpoint.held = <<>> /\ Reached = b /\ Claimed(tx.ring, worker.data) /\ Reached' = Reached
    BY <1>1, <1>6 DEF Sending, Reached
  <2> QED
    BY <1>1, <1>2, <1>3, <2>1 DEF Sending
<1>7. worker'.data[1].n <= history'.written
  BY <1>1, <1>3 DEF SendInv
<1> QED
  BY <1>1, <1>4, <1>5, <1>6, <1>7 DEF SendInv

\* The stack takes the reference, or has no room for it.
LEMMA ReferenceKeepsSent ==
  ASSUME Typed, SendInv, fd_rpc_channel_thread_tcp_send
  PROVE  SendInv'
<1>1. worker.at = "send" /\ host' = host /\ history' = history
  BY DEF fd_rpc_channel_thread_tcp_send
<1>2. PICK b \in Nat : /\ RingFrom(b)
                       /\ "tx" \notin history.crossed =>
                            Run(host.got, history.first) /\ (endpoint.at = "open" => Sending(b))
  BY DEF SendInv
<1>3. \A s, j : Run(s, j)' <=> Run(s, j)
  BY <1>1 DEF Run, Connection
<1>4. Reached' = Reached
  BY <1>1 DEF Reached
<1>5. CASE /\ endpoint.at = "open" /\ tx' = tx
           /\ endpoint' = [endpoint EXCEPT !.held = Append(endpoint.held, Len(worker.data))]
           /\ worker' = [at |-> "finish", data |-> worker.data]
  <2>1. endpoint'.at = "open" /\ endpoint'.held = Append(endpoint.held, Len(worker.data))
    BY <1>5, Records DEF EndpointRecord
  <2>2. worker'.at = "finish" /\ worker'.data = worker.data
    BY <1>5
  <2>3. RingFrom(b)' /\ (Run(host.got, history.first) => Run(host.got, history.first)')
    BY <1>1, <1>2, <1>5 DEF RingFrom, Run, Connection
  <2>4. ASSUME Sending(b) PROVE Sending(b)'
    <3>1. /\ endpoint.held = <<>> /\ Reached = b /\ Claimed(tx.ring, worker.data)
          /\ tx.pending /\ tx.buffer = worker.data
      BY <1>1, <2>4 DEF Sending
    <3>2. endpoint'.held = <<Len(worker.data)>>
      BY <2>1, <3>1, SendFacts
    <3>3. Run(worker.data, b)
      <4>1. Run(tx.ring, b) /\ tx.ring \in Seq(Octets) /\ worker.data \in Seq(Octets)
        BY <1>2, SendFacts DEF RingFrom
      <4> QED
        BY <3>1, <4>1, ClaimRun
    <3>4. SentTo(b + Len(worker.data))'
      BY <1>3, <1>4, <1>5, <2>2, <3>1, <3>2, <3>3 DEF SentTo, Run
    <3>5. Claimed(tx.ring, worker.data)'
      BY <1>5, <2>2, <3>1 DEF Claimed
    <3> QED
      BY <2>2, <3>4, <3>5 DEF Sending
  <2>5. worker'.data[1].n <= history'.written
    BY <1>1, <2>2 DEF SendInv
  <2> QED
    BY <1>1, <1>2, <1>5, <2>3, <2>4, <2>5 DEF SendInv
<1>6. CASE worker' = Idle /\ tx' = [tx EXCEPT !.pending = FALSE] /\ endpoint' = endpoint
  <2>1. tx'.ring = tx.ring /\ worker'.at = "idle"
    BY <1>6, Records DEF TxRecord, Idle
  <2>2. RingFrom(b)' /\ (Run(host.got, history.first) => Run(host.got, history.first)')
    BY <1>1, <1>2, <2>1 DEF RingFrom, Run, Connection
  <2>3. ASSUME Sending(b) PROVE Sending(b)'
    <3>1. endpoint.held = <<>> /\ Reached = b
      BY <1>1, <2>3 DEF Sending
    <3>2. SentTo(b)'
      BY <1>4, <1>6, <3>1 DEF SentTo
    <3> QED
      BY <2>1, <3>2 DEF Sending
  <2> QED
    BY <1>1, <1>2, <1>6, <2>1, <2>2, <2>3 DEF SendInv
<1> QED
  BY <1>5, <1>6 DEF fd_rpc_channel_thread_tcp_send, At

\* The octets that were sent are taken off the ring, unless it was reset.
LEMMA FinishKeepsSent ==
  ASSUME Typed, SendInv, TxFinish
  PROVE  SendInv'
<1> DEFINE data == worker.data
           ring == tx.ring
           left == After(ring, Len(data))
<1>1. /\ worker.at = "finish" /\ worker' = Idle /\ endpoint' = endpoint /\ host' = host /\ history' = history
      /\ tx' = IF Claimed(ring, data) THEN [tx EXCEPT !.ring = left] ELSE tx
  BY DEF TxFinish, Claimed
<1>2. PICK b \in Nat : /\ RingFrom(b)
                       /\ "tx" \notin history.crossed =>
                            Run(host.got, history.first) /\ (endpoint.at = "open" => Sending(b))
  BY DEF SendInv
<1>3. /\ data \in Seq(Octets) /\ ring \in Seq(Octets) /\ Len(data) \in Nat /\ Len(ring) \in Nat
      /\ history.written \in Nat /\ history.first \in Nat
  BY SendFacts
<1>4. worker'.at = "idle" /\ Reached' = Reached
  BY <1>1 DEF Idle, Reached
<1>5. \A s, j : Run(s, j)' <=> Run(s, j)
  BY <1>1 DEF Run, Connection
<1>6. Run(host.got, history.first) => Run(host.got, history.first)'
  BY <1>1 DEF Run, Connection
<1>7. CASE Claimed(ring, data)
  <2>1. tx'.ring = left /\ tx'.pending = tx.pending /\ tx'.buffer = tx.buffer
    <3> HIDE DEF left, ring, data
    <3> QED
      BY <1>1, <1>7, Records DEF TxRecord
  <2>2. Run(left, b + Len(data)) /\ Len(data) + Len(left) = Len(ring) /\ left \in Seq(Octets)
    <3>1. Run(ring, b)
      BY <1>2 DEF RingFrom
    <3> HIDE DEF ring, data
    <3> QED
      BY <1>3, <1>7, <3>1, ClaimRun
  <2>3. PICK k \in Nat : k = b + Len(data)
    <3> HIDE DEF data
    <3> QED
      BY <1>3
  <2>4. k + Len(left) = history.written /\ k >= history.first
    <3>1. b + Len(ring) = history.written /\ b >= history.first
      BY <1>2 DEF RingFrom
    <3>2. Len(left) \in Nat
      BY <2>2
    <3> HIDE DEF left, ring, data
    <3> QED
      BY <1>3, <2>2, <2>3, <3>1, <3>2
  <2>5. RingFrom(k)'
    <3> HIDE DEF left, data
    <3> QED
      BY <1>1, <1>5, <2>1, <2>2, <2>3, <2>4 DEF RingFrom, Run
  <2>6. Sending(b) => Sending(k)'
    <3>1. Sending(b) => SentTo(k)
      BY <1>1, <1>7, <2>3 DEF Sending
    <3>2. SentTo(k) => SentTo(k)'
      BY <1>1, <1>4, <2>1 DEF SentTo, Run, Connection
    <3> QED
      BY <1>4, <3>1, <3>2 DEF Sending
  <2> QED
    BY <1>1, <1>2, <1>4, <1>6, <2>5, <2>6 DEF SendInv
<1>8. CASE ~Claimed(ring, data)
  <2>1. tx' = tx
    BY <1>1, <1>8
  <2>2. RingFrom(b)'
    BY <1>1, <1>2, <2>1 DEF RingFrom, Run, Connection
  <2>3. Sending(b) => Sending(b)'
    <3>1. Sending(b) => SentTo(b)
      BY <1>1, <1>8 DEF Sending
    <3>2. SentTo(b) => SentTo(b)'
      BY <1>1, <1>4, <2>1 DEF SentTo, Run, Connection
    <3> QED
      BY <1>4, <3>1, <3>2 DEF Sending
  <2> QED
    BY <1>1, <1>2, <1>4, <1>6, <2>2, <2>3 DEF SendInv
<1> QED
  BY <1>7, <1>8

\* An octet that is written comes after those in the ring, whatever the work queue claimed.
LEMMA WriteKeepsSent ==
  ASSUME Typed, SendInv, fd_rpc_channel_thread_packet_write
  PROVE  SendInv'
<1> DEFINE data == worker.data
           ring == tx.ring
           o == Octet(Connection, history.written + 1)
           ring1 == Append(ring, o)
<1>1. /\ tx' = [tx EXCEPT !.ring = ring1] /\ history' = [history EXCEPT !.written = history.written + 1]
      /\ worker' = worker /\ endpoint' = endpoint /\ host' = host
  BY DEF fd_rpc_channel_thread_packet_write
<1>2. PICK b \in Nat : /\ RingFrom(b)
                       /\ "tx" \notin history.crossed =>
                            Run(host.got, history.first) /\ (endpoint.at = "open" => Sending(b))
  BY DEF SendInv
<1>3. /\ data \in Seq(Octets) /\ ring \in Seq(Octets) /\ Len(data) \in Nat /\ Len(ring) \in Nat
      /\ history.written \in Nat /\ history.first \in Nat /\ Connection \in Nat
  BY SendFacts
<1>4. /\ tx'.ring = ring1 /\ tx'.pending = tx.pending /\ tx'.buffer = tx.buffer
  <2> HIDE DEF ring1
  <2> QED
    BY <1>1, Records DEF TxRecord
<1>5. /\ history'.written = history.written + 1 /\ history'.first = history.first
      /\ history'.connection = history.connection /\ history'.crossed = history.crossed
  BY <1>1, Records DEF HistoryRecord
<1>6. Connection' = Connection /\ Reached' = Reached
  BY <1>1, <1>5 DEF Connection, Reached
<1>7. o \in Octets /\ ring1 \in Seq(Octets) /\ Len(ring1) = Len(ring) + 1
  <2>1. o \in Octets
    BY <1>3 DEF Octet, Octets
  <2> HIDE DEF o, ring
  <2> QED
    BY <1>3, <2>1
<1>8. RingFrom(b)'
  <2>1. Run(ring, b) /\ b + Len(ring) = history.written /\ b >= history.first
    BY <1>2 DEF RingFrom
  <2>2. Run(ring1, b)
    <3> HIDE DEF ring
    <3> QED
      BY <1>3, <2>1, AppendRun
  <2>3. b + Len(ring1) = history.written + 1
    <3> HIDE DEF ring, ring1
    <3> QED
      BY <1>3, <1>7, <2>1
  <2> HIDE DEF ring1
  <2> QED
    BY <1>4, <1>5, <1>6, <2>1, <2>2, <2>3 DEF RingFrom, Run
<1>9. Run(host.got, history.first) => Run(host.got, history.first)'
  BY <1>1, <1>5, <1>6 DEF Run
<1>10. ASSUME Sending(b) PROVE Sending(b)'
  <2>1. Claimed(ring, data) => Claimed(ring1, data)
    <3> HIDE DEF ring, data, o
    <3> QED
      BY <1>3, <1>7, AppendClaim
  <2>2. worker.at = "finish" /\ ~Claimed(ring, data) => ~Claimed(ring1, data)
    <3> SUFFICES ASSUME worker.at = "finish", ~Claimed(ring, data), Claimed(ring1, data) PROVE FALSE
      OBVIOUS
    <3>1. data # <<>> /\ data[1].n <= b
      BY <1>10 DEF Sending, Typed
    <3>2. Run(ring1, b)
      BY <1>4, <1>6, <1>8 DEF RingFrom, Run
    <3> HIDE DEF ring, ring1, data
    <3>3. ring1 # <<>> /\ ring1[1] = data[1]
      BY <1>3, <1>7, <3>1, ClaimFirst
    <3>4. ring1[1].n = b + 1
      BY <1>7, <3>2, <3>3, FirstOfRun
    <3> QED
      BY <3>1, <3>3, <3>4
  <2>3. \A k : SentTo(k) => SentTo(k)'
    BY <1>1, <1>4, <1>6 DEF SentTo, Run
  <2>4. Claimed(tx.ring, worker.data)' <=> Claimed(ring1, data)
    BY <1>1, <1>4 DEF Claimed
  <2> HIDE DEF ring1
  <2> QED
    BY <1>1, <1>4, <1>6, <1>10, <2>1, <2>2, <2>3, <2>4 DEF Sending
<1>11. worker'.at \in {"copy", "send", "finish"} => worker'.data[1].n <= history'.written
  <2>1. CASE worker.at \in {"copy", "send", "finish"}
    <3>1. data[1] \in Octets
      BY <1>3, <2>1 DEF Typed
    <3>2. data[1].n \in Nat /\ data[1].n <= history.written
      BY <2>1, <3>1 DEF SendInv, Octets
    <3> HIDE DEF data
    <3>3. data[1].n <= history.written + 1
      BY <1>3, <3>2
    <3> QED
      BY <1>1, <1>5, <3>3 DEF data
  <2> QED
    BY <1>1, <2>1
<1> QED
  BY <1>1, <1>2, <1>5, <1>8, <1>9, <1>10, <1>11 DEF SendInv

\* A packet that is handled leaves the rest of the history as it is.
LEMMA ReceivedHistory ==
  ASSUME Typed, received_data
  PROVE  \/ history' = history \/ \E x, y : history' = [history EXCEPT !.handled = x, !.ordered = y]
         \/ \E x : history' = [history EXCEPT !.rejected = x]
<1> DEFINE o == Head(worker.data)
           p == Append(rx.packet, o)
           a == ~IsDelimiter(o) \/ rx.packet = <<>>
           b == IsPacket(p)
<1>1. history' = CASE a -> history
                   [] b -> [history EXCEPT !.handled = p, !.ordered = history.ordered /\ Follows(p)]
                   [] OTHER -> [history EXCEPT !.rejected = TRUE]
  BY DEF received_data
<1>5. b => ~a
  <2>1. rx.packet \in Seq(Octets) /\ o \in Octets
    <3>1. worker.data \in Seq(Octets) /\ worker.data # <<>> /\ rx.packet \in Seq(Octets)
      BY Records DEF received_data, WorkerRecord, RxRecord, Typed
    <3> QED
      BY <3>1
  <2> HIDE DEF o
  <2> QED
    BY <2>1, PacketEnds
<1> HIDE DEF a, b
<1>2. CASE a /\ ~b
  BY <1>1, <1>2
<1>3. CASE b /\ ~a
  BY <1>1, <1>3
<1>4. CASE ~a /\ ~b
  BY <1>1, <1>4
<1> QED
  BY <1>2, <1>3, <1>4, <1>5

\* Every step that ends a connection gives the reference back.
LEMMA HeldKept == ASSUME Typed, HeldInv, [ThreadNext]_threadVars PROVE HeldInv'
<1>1. CASE fd_rpc_channel_thread_connected
  <2>1. endpoint' = [endpoint EXCEPT !.at = "open"]
    BY <1>1 DEF fd_rpc_channel_thread_connected
  <2> QED
    BY <2>1, Records DEF HeldInv, EndpointRecord
<1>2. CASE fd_rpc_channel_thread_ot_TcpDisconnected
  <2>1. endpoint' = [endpoint EXCEPT !.at = "closed", !.held = <<>>]
    BY <1>2 DEF fd_rpc_channel_thread_ot_TcpDisconnected
  <2> QED
    BY <2>1, Records DEF HeldInv, EndpointRecord
<1>3. CASE fd_rpc_channel_thread_ot_TcpReceiveAvailable
  <2>1. endpoint' = endpoint \/ endpoint' = [endpoint EXCEPT !.at = "aborted", !.held = <<>>]
    BY <1>3 DEF fd_rpc_channel_thread_ot_TcpReceiveAvailable
  <2> QED
    BY <2>1, Records DEF HeldInv, EndpointRecord
<1>4. CASE fd_rpc_channel_thread_send_done
  <2>1. endpoint' = [endpoint EXCEPT !.held = Tail(endpoint.held)] /\ endpoint.held # <<>>
    BY <1>4 DEF fd_rpc_channel_thread_send_done
  <2> QED
    BY <2>1, Records DEF HeldInv, EndpointRecord
<1>5. CASE fd_rpc_channel_thread_tcp_send
  <2>1. endpoint' = endpoint \/ (endpoint.at = "open" /\ endpoint' = [endpoint EXCEPT !.held = Append(endpoint.held, Len(worker.data))])
    BY <1>5 DEF fd_rpc_channel_thread_tcp_send
  <2> QED
    BY <2>1, Records DEF HeldInv, EndpointRecord
<1>6. CASE fd_rpc_channel_thread_ot_StateChanged \/ fd_rpc_channel_thread_stop \/ SetDataset
  <2>1. \/ endpoint' = endpoint \/ endpoint' = [endpoint EXCEPT !.up = TRUE]
        \/ endpoint' = [up |-> FALSE, at |-> "closed", held |-> <<>>]
    <3>1. CASE fd_rpc_channel_thread_stop \/ SetDataset
      BY <3>1 DEF fd_rpc_channel_thread_stop, SetDataset, fd_rpc_channel_thread_down, fd_rpc_channel_thread_tcp_down
    <3>2. CASE fd_rpc_channel_thread_ot_StateChanged
      <4>1. CASE ~role /\ net.active
        BY <3>2, <4>1 DEF fd_rpc_channel_thread_ot_StateChanged, fd_rpc_channel_thread_up, fd_rpc_channel_thread_tcp_up
      <4>2. CASE role /\ ~net.active
        BY <3>2, <4>2 DEF fd_rpc_channel_thread_ot_StateChanged, fd_rpc_channel_thread_down, fd_rpc_channel_thread_tcp_down
      <4>3. CASE ~(~role /\ net.active) /\ ~(role /\ ~net.active)
        BY <3>2, <4>3 DEF fd_rpc_channel_thread_ot_StateChanged
      <4> QED
        BY <4>1, <4>2, <4>3
    <3> QED
      BY <1>6, <3>1, <3>2
  <2>2. endpoint'.held = <<>> \/ (endpoint'.held = endpoint.held /\ endpoint'.at = endpoint.at)
    BY <2>1, Records DEF EndpointRecord
  <2> QED
    BY <2>2 DEF HeldInv
<1>7. CASE endpoint' = endpoint
  BY <1>7 DEF HeldInv
<1>8. CASE \/ fd_rpc_channel_thread_set_dataset \/ fd_rpc_channel_thread_packet_write
           \/ fd_rpc_channel_thread_rx_work \/ received_data \/ run_loop \/ close
           \/ fd_rpc_channel_thread_connected_work \/ fd_rpc_channel_thread_disconnected_work
           \/ fd_rpc_channel_thread_timer \/ RoleChanges \/ UNCHANGED threadVars
           \/ TxWork \/ TxCopy \/ TxFinish
  <2>1. endpoint' = endpoint
    BY <1>8 DEF fd_rpc_channel_thread_set_dataset, fd_rpc_channel_thread_packet_write,
                fd_rpc_channel_thread_rx_work, received_data, run_loop, close, HostUnchanged,
                fd_rpc_channel_thread_connected_work, fd_rpc_channel_thread_disconnected_work,
                fd_rpc_channel_thread_timer, RoleChanges, threadVars, TxWork, TxCopy, TxFinish
  <2> QED
    BY <1>7, <2>1
<1> QED
  BY <1>1, <1>2, <1>3, <1>4, <1>5, <1>6, <1>8 DEF ThreadNext, Callbacks, WorkQueue, Environment

\* Every step keeps what is sent as it was written.
LEMMA SendKept == ASSUME Typed, HeldInv, SendInv, [ThreadNext]_threadVars PROVE SendInv'
<1>1. CASE fd_rpc_channel_thread_connected
  <2>1. /\ endpoint.at = "closed" /\ endpoint' = [endpoint EXCEPT !.at = "open"] /\ worker' = worker
        /\ tx' = [tx EXCEPT !.ring = <<>>, !.pending = FALSE]
        /\ host' = [at |-> "running", to_device |-> <<>>, got |-> <<>>, packets |-> 0]
        /\ history' = [history EXCEPT !.connection = history.connection + 1, !.first = history.written, !.crossed = Crossed,
                          !.merged = history.merged \/ (Queued("connected") /\ Queued("disconnected"))]
    BY <1>1 DEF fd_rpc_channel_thread_connected, fd_rpc_channel_thread_reset_buffers
  <2>2. history'.written = history.written /\ history'.first = history.written /\ history'.crossed = Crossed
    BY <2>1, Records DEF HistoryRecord
  <2>3. tx'.ring = <<>> /\ host'.got = <<>>
    BY <2>1, Records DEF TxRecord
  <2>4. endpoint'.held = <<>>
    BY <2>1, Records DEF EndpointRecord, HeldInv
  <2> QED
    BY <2>1, <2>2, <2>3, <2>4, ConnectKeepsSent
<1>2. CASE fd_rpc_channel_thread_ot_TcpDisconnected
  <2>1. /\ tx' = [tx EXCEPT !.ring = <<>>, !.pending = FALSE] /\ worker' = worker
        /\ endpoint' = [endpoint EXCEPT !.at = "closed", !.held = <<>>]
        /\ host' = [host EXCEPT !.at = IF host.at = "off" THEN host.at ELSE "broken", !.to_device = <<>>]
        /\ history' = [history EXCEPT !.crossed = Crossed,
                          !.merged = history.merged \/ (Queued("connected") /\ Queued("disconnected"))]
    BY <1>2 DEF fd_rpc_channel_thread_ot_TcpDisconnected, fd_rpc_channel_thread_disconnected, Cleaned,
                fd_rpc_channel_thread_reset_buffers
  <2>2. host'.got = host.got /\ tx'.ring = <<>> /\ endpoint'.at = "closed"
    BY <2>1, Records DEF HostRecord, TxRecord, EndpointRecord
  <2>3. /\ history'.connection = history.connection /\ history'.written = history.written
        /\ history'.first = history.first /\ history'.crossed = Crossed
    BY <2>1, Records DEF HistoryRecord
  <2> QED
    BY <2>1, <2>2, <2>3, EndKeepsSent
<1>3. CASE fd_rpc_channel_thread_ot_TcpReceiveAvailable
  <2>1. /\ tx' = tx /\ worker' = worker
        /\ endpoint' = endpoint \/ endpoint' = [endpoint EXCEPT !.at = "aborted", !.held = <<>>]
        /\ host' = host \/ \E x : host' = [host EXCEPT !.to_device = x]
        /\ history' = history \/ \E x : history' = [history EXCEPT !.dropped = x]
    BY <1>3 DEF fd_rpc_channel_thread_ot_TcpReceiveAvailable, fd_rpc_channel_thread_rx
  <2>2. host'.got = host.got
    BY <2>1, Records DEF HostRecord
  <2>3. /\ history'.connection = history.connection /\ history'.written = history.written
        /\ history'.first = history.first /\ history'.crossed = history.crossed
    BY <2>1, Records DEF HistoryRecord
  <2>4. endpoint'.at = "open" => endpoint.at = "open" /\ endpoint'.held = endpoint.held
    BY <2>1, Records DEF EndpointRecord
  <2> QED
    BY <2>1, <2>2, <2>3, <2>4, SendStays
<1>4. CASE fd_rpc_channel_thread_send_done
  BY <1>4, AcknowledgeKeepsSent
<1>5. CASE fd_rpc_channel_thread_ot_StateChanged
  <2>1. worker' = worker
    BY <1>5 DEF fd_rpc_channel_thread_ot_StateChanged
  <2>2. \/ fd_rpc_channel_thread_up
        \/ fd_rpc_channel_thread_down(FALSE, net.calls)
        \/ UNCHANGED <<tx, endpoint, host, history>>
    <3>1. CASE ~role /\ net.active
      BY <1>5, <3>1 DEF fd_rpc_channel_thread_ot_StateChanged
    <3>2. CASE role /\ ~net.active
      BY <1>5, <3>2 DEF fd_rpc_channel_thread_ot_StateChanged
    <3>3. CASE ~(~role /\ net.active) /\ ~(role /\ ~net.active)
      BY <1>5, <3>3 DEF fd_rpc_channel_thread_ot_StateChanged
    <3> QED
      BY <3>1, <3>2, <3>3
  <2>3. CASE fd_rpc_channel_thread_up
    <3>1. UNCHANGED <<tx, host, history>> /\ endpoint' = [endpoint EXCEPT !.up = TRUE]
      BY <2>3 DEF fd_rpc_channel_thread_up, fd_rpc_channel_thread_tcp_up
    <3>2. endpoint'.at = endpoint.at /\ endpoint'.held = endpoint.held
      BY <3>1, Records DEF EndpointRecord
    <3> QED
      BY <2>1, <3>1, <3>2, SendStays
  <2>4. CASE fd_rpc_channel_thread_down(FALSE, net.calls)
    BY <2>1, <2>4, DownKeepsSent
  <2>5. CASE UNCHANGED <<tx, endpoint, host, history>>
    BY <2>1, <2>5, SendStays
  <2> QED
    BY <2>2, <2>3, <2>4, <2>5
<1>6. CASE fd_rpc_channel_thread_stop
  <2>1. worker' = worker /\ fd_rpc_channel_thread_down(net.changed \/ net.active, net.calls + 1)
    BY <1>6 DEF fd_rpc_channel_thread_stop
  <2> QED
    BY <2>1, DownKeepsSent
<1>7. CASE SetDataset
  <2>1. worker' = worker
        /\ (fd_rpc_channel_thread_down(net.changed \/ net.active, net.calls) \/ UNCHANGED <<tx, endpoint, host, history>>)
    BY <1>7 DEF SetDataset
  <2> QED
    BY <2>1, DownKeepsSent, SendStays
<1>8. CASE fd_rpc_channel_thread_set_dataset
  <2>1. tx' = tx /\ host' = host /\ endpoint' = endpoint /\ worker' = worker /\ \E x : history' = [history EXCEPT !.replaced = x]
    BY <1>8 DEF fd_rpc_channel_thread_set_dataset
  <2>2. /\ history'.connection = history.connection /\ history'.written = history.written
        /\ history'.first = history.first /\ history'.crossed = history.crossed
    BY <2>1, Records DEF HistoryRecord
  <2> QED
    BY <2>1, <2>2, SendStays
<1>9. CASE fd_rpc_channel_thread_packet_write
  BY <1>9, WriteKeepsSent
<1>10. CASE fd_rpc_channel_thread_rx_work
  <2>1. tx' = tx /\ host' = host /\ endpoint' = endpoint /\ history' = history
    BY <1>10 DEF fd_rpc_channel_thread_rx_work
  <2>2. worker.at \in {"idle", "rx"} /\ worker'.at \in {"idle", "append"}
    <3>1. worker = Idle \/ worker.at = "rx"
      BY <1>10 DEF fd_rpc_channel_thread_rx_work, Dequeued
    <3>2. worker' = Idle \/ worker' = [at |-> "append", data |-> FirstOf(rx.ring, GetChunk)]
      BY <1>10 DEF fd_rpc_channel_thread_rx_work, At
    <3> QED
      BY <3>1, <3>2 DEF Idle
  <2>3. {worker.at, worker'.at} \cap {"copy", "send", "finish"} = {} /\ worker'.at \notin {"copy", "send", "finish"}
    BY <2>2
  <2> QED
    BY <2>1, <2>3, SendStays
<1>11. CASE received_data
  <2>1. /\ tx' = tx /\ host' = host /\ endpoint' = endpoint /\ worker.at = "append"
        /\ worker' = [at |-> "rx", data |-> <<>>] \/ worker' = [at |-> "append", data |-> Tail(worker.data)]
    BY <1>11 DEF received_data, At
  <2>2. \/ history' = history \/ \E x, y : history' = [history EXCEPT !.handled = x, !.ordered = y]
        \/ \E x : history' = [history EXCEPT !.rejected = x]
    BY <1>11, ReceivedHistory
  <2>3. /\ history'.connection = history.connection /\ history'.written = history.written
        /\ history'.first = history.first /\ history'.crossed = history.crossed
    BY <2>2, Records DEF HistoryRecord
  <2>4. {worker.at, worker'.at} \cap {"copy", "send", "finish"} = {} /\ worker'.at \notin {"copy", "send", "finish"}
    BY <2>1
  <2> QED
    BY <2>1, <2>3, <2>4, SendStays
<1>12. CASE run_loop \/ close
  <2>1. /\ tx' = tx /\ worker' = worker /\ history' = history /\ endpoint' = endpoint
        /\ \/ host' = [host EXCEPT !.at = "off"]
           \/ \E x, y : host' = [host EXCEPT !.packets = x, !.to_device = y]
    BY <1>12 DEF run_loop, close, HostUnchanged
  <2>2. host'.got = host.got
    BY <2>1, Records DEF HostRecord
  <2> QED
    BY <2>1, <2>2, SendStays
<1>13. CASE \/ fd_rpc_channel_thread_connected_work \/ fd_rpc_channel_thread_disconnected_work
            \/ fd_rpc_channel_thread_timer \/ RoleChanges \/ UNCHANGED threadVars
  <2>1. tx' = tx /\ host' = host /\ worker' = worker /\ history' = history /\ endpoint' = endpoint
    BY <1>13 DEF fd_rpc_channel_thread_connected_work, fd_rpc_channel_thread_disconnected_work,
                 fd_rpc_channel_thread_timer, RoleChanges, threadVars
  <2> QED
    BY <2>1, SendStays
<1>14. CASE TxWork
  BY <1>14, ClaimKeepsSent
<1>15. CASE TxCopy
  BY <1>15, CopyKeepsSent
<1>16. CASE fd_rpc_channel_thread_tcp_send
  BY <1>16, ReferenceKeepsSent
<1>17. CASE TxFinish
  BY <1>17, FinishKeepsSent
<1> QED
  BY <1>1, <1>2, <1>3, <1>4, <1>5, <1>6, <1>7, <1>8, <1>9, <1>10, <1>11, <1>12, <1>13, <1>14, <1>15, <1>16, <1>17
  DEF ThreadNext, Callbacks, WorkQueue, Environment

\* Every octet is received and sent as OctetsKept says: what a packet is rejected
\* for, in which order packets are handled, and what the host gets.
THEOREM OctetsSafe == ThreadSpec => []OctetsKept
<1>1. ThreadInit => Typed /\ HeldInv /\ ReceiveInv /\ SendInv
  <2>1. ThreadInit => HeldInv
    BY DEF ThreadInit, HeldInv
  <2> QED
    BY <2>1, TypesStart, ReceiveStarts, SendStarts
<1>2. Typed /\ HeldInv /\ ReceiveInv /\ SendInv /\ [ThreadNext]_threadVars => (Typed /\ HeldInv /\ ReceiveInv /\ SendInv)'
  BY TypesKept, HeldKept, ReceiveKept, SendKept
<1>3. Typed /\ HeldInv /\ ReceiveInv /\ SendInv => OctetsKept
  <2> SUFFICES ASSUME Typed, HeldInv, ReceiveInv, SendInv PROVE OctetsKept
    OBVIOUS
  <2>1. history.rejected => "rx" \in history.crossed \/ history.dropped
    BY DEF ReceiveInv, WholeInv
  <2>2. history.ordered
    BY DEF ReceiveInv, OrderInv
  <2>3. ASSUME "tx" \notin history.crossed
        PROVE  host.got = [i \in DOMAIN host.got |-> Octet(Connection, history.first + i)]
    <3>1. Run(host.got, history.first)
      BY <2>3 DEF SendInv
    <3>2. host.got \in Seq(Octets)
      BY SendFacts
    <3> QED
      BY <3>1, <3>2 DEF Run
  <2>4. ASSUME "tx" \notin history.crossed, endpoint.held # <<>>
        PROVE  /\ endpoint.held = <<Len(tx.buffer)>> /\ tx.pending
    <3>1. PICK b \in Nat : Sending(b)
      BY <2>4 DEF SendInv, HeldInv
    <3>2. SentTo(b) \/ SentTo(b + Len(worker.data))
      BY <2>4, <3>1 DEF Sending
    <3> QED
      BY <2>4, <3>2 DEF SentTo
  <2>5. ASSUME endpoint.held = <<Len(tx.buffer)>>
        PROVE  Len(endpoint.held) = 1 /\ Head(endpoint.held) = Len(tx.buffer)
    <3>1. PICK k \in Nat : k = Len(tx.buffer)
      BY SendFacts
    <3>2. endpoint.held = <<k>>
      BY <2>5, <3>1
    <3>3. Len(<<k>>) = 1 /\ Head(<<k>>) = k
      OBVIOUS
    <3> QED
      BY <3>1, <3>2, <3>3
  <2>6. endpoint.held = <<>> => Len(endpoint.held) <= 1
    OBVIOUS
  <2>7. ASSUME "tx" \notin history.crossed, endpoint.held # <<>>
        PROVE  Len(endpoint.held) = 1 /\ tx.pending /\ Len(tx.buffer) = Head(endpoint.held)
    BY <2>4, <2>5, <2>7
  <2>8. ASSUME "tx" \notin history.crossed PROVE Len(endpoint.held) <= 1
    <3>1. CASE endpoint.held = <<>>
      BY <2>6, <3>1
    <3>2. CASE endpoint.held # <<>>
      <4>1. Len(endpoint.held) = 1
        BY <2>7, <2>8, <3>2
      <4> QED
        BY <4>1
    <3> QED
      BY <3>1, <3>2
  <2>9. ASSUME "tx" \notin history.crossed
        PROVE  endpoint.held # <<>> => tx.pending /\ Len(tx.buffer) = Head(endpoint.held)
    BY <2>7, <2>9
  <2> DEFINE sent == [i \in DOMAIN host.got |-> Octet(Connection, history.first + i)]
  <2>10. "tx" \notin history.crossed => host.got = sent
    BY <2>3
  <2> HIDE DEF sent
  <2>11. /\ history.rejected => "rx" \in history.crossed \/ history.dropped
         /\ history.ordered
         /\ "tx" \notin history.crossed =>
               /\ host.got = sent
               /\ Len(endpoint.held) <= 1
               /\ endpoint.held # <<>> => tx.pending /\ Len(tx.buffer) = Head(endpoint.held)
    BY <2>1, <2>2, <2>8, <2>9, <2>10
  <2> QED
    BY <2>11 DEF OctetsKept, sent
<1> QED
  BY <1>1, <1>2, <1>3, PTL DEF ThreadSpec

-----------------------------------------------------------------------------
(* Bluetooth: the connections. *)

\* The fields of the records.
BleShapes ==
  /\ stack = [live |-> stack.live, refs |-> stack.refs, closing |-> stack.closing, chan |-> stack.chan,
              adv |-> stack.adv, payload |-> stack.payload, power |-> stack.power, calls |-> stack.calls]
  /\ ble = [conn |-> ble.conn, disconnect_reason |-> ble.disconnect_reason, uuid |-> ble.uuid, data |-> ble.data]
  /\ application = [conns |-> application.conns, view |-> application.view, got |-> application.got,
                    call |-> application.call]
  /\ stack.refs \in [Conns -> Int]
  /\ stack.power = [h \in {"adv", "conn"} |-> stack.power[h]]

\* What the call says that was made last.
CallTrue ==
  /\ application.call.op = "power" =>
       /\ application.call.handle \in {"adv", "conn"}
       /\ application.call.fine => stack.power[application.call.handle] = application.call.level
  /\ application.call.op = "version" /\ application.call.fine =>
       /\ application.call.digits = application.call.hash
       /\ application.call.hash \in DOMAIN SoftDevices => application.call.revision = SoftDevices[application.call.hash]

ConnInv ==
  /\ BleShapes
  /\ stack.live \subseteq Conns /\ application.conns = stack.live
  /\ ble.conn # None => ble.conn \in stack.live
  /\ \A c \in Conns : stack.refs[c] = (IF c \in stack.live THEN 1 ELSE 0)
  /\ Cardinality(Conns) = 1 => (ble.conn # None <=> stack.live # {})
  /\ CallTrue

\* At the start there is no connection.
LEMMA ConnStarts == BleInit => ConnInv
BY DEF BleInit, BleInitialized, ConnInv, BleShapes, CallTrue, None

\* With one connection the stack has it or none.
LEMMA OneConnection ==
  ASSUME Cardinality(Conns) = 1, NEW c \in Conns
  PROVE  \A d \in Conns : d = c
<1>1. PICK x : Conns = {x}
  BY FS_Singleton, BleAssumption
<1> QED
  BY <1>1

\* A connection begins.
LEMMA ConnectConn == ASSUME ConnInv, NEW c \in Conns, Connect(c) PROVE ConnInv'
<1> USE DEF Connect, ConnInv
<1>1. c \notin stack.live /\ c # None
  BY BleAssumption DEF None
<1>2. BleShapes'
  <2> DEFINE r == [stack.refs EXCEPT ![c] = @ + 1]
  <2>1. stack' = [live |-> stack.live \cup {c}, refs |-> r, closing |-> stack.closing, chan |-> stack.chan,
                  adv |-> FALSE, payload |-> stack.payload, power |-> stack.power, calls |-> stack.calls + 1]
    BY DEF BleShapes
  <2>2. r \in [Conns -> Int] /\ stack.power = [h \in {"adv", "conn"} |-> stack.power[h]]
    BY DEF BleShapes
  <2> HIDE DEF r
  <2>3. ble' = [conn |-> c, disconnect_reason |-> ble.disconnect_reason, uuid |-> ble.uuid, data |-> ble.data]
    BY DEF BleShapes
  <2>4. application' = [conns |-> application.conns \cup {c}, view |-> application.view,
                        got |-> application.got, call |-> application.call]
    BY DEF BleShapes
  <2> HIDE DEF ConnInv, Connect
  <2> QED
    BY <2>1, <2>2, <2>3, <2>4 DEF BleShapes
<1>3. /\ stack'.live = stack.live \cup {c} /\ stack'.power = stack.power
      /\ stack'.refs = [stack.refs EXCEPT ![c] = @ + 1]
      /\ ble'.conn = c /\ application'.conns = application.conns \cup {c} /\ application'.call = application.call
  <2>1. stack'.live = stack.live \cup {c} /\ stack'.power = stack.power
    BY DEF BleShapes
  <2>2. stack'.refs = [stack.refs EXCEPT ![c] = @ + 1]
    BY DEF BleShapes
  <2>3. ble'.conn = c
    BY DEF BleShapes
  <2>4. application'.conns = application.conns \cup {c} /\ application'.call = application.call
    BY DEF BleShapes
  <2> QED
    BY <2>1, <2>2, <2>3, <2>4
<1>4. \A d \in Conns : stack'.refs[d] = (IF d \in stack'.live THEN 1 ELSE 0)
  BY <1>1, <1>3 DEF BleShapes
<1>5. CallTrue'
  BY <1>3 DEF CallTrue
<1> QED
  BY <1>1, <1>2, <1>3, <1>4, <1>5

\* A connection ends.
LEMMA DisconnectedConn == ASSUME ConnInv, NEW c \in Conns, Disconnected(c) PROVE ConnInv'
<1> USE DEF Disconnected, ConnInv
<1>1. c \in stack.live
  OBVIOUS
<1>2. BleShapes'
  <2> DEFINE r == [stack.refs EXCEPT ![c] = @ - 1]
             reason == IF c \in stack.closing THEN "local" ELSE "remote"
  <2>1. stack' = [live |-> stack.live \ {c}, refs |-> r, closing |-> stack.closing \ {c}, chan |-> stack.chan,
                  adv |-> stack.adv, payload |-> stack.payload, power |-> stack.power, calls |-> stack.calls]
    BY DEF BleShapes
  <2>2. r \in [Conns -> Int] /\ stack.power = [h \in {"adv", "conn"} |-> stack.power[h]]
    BY DEF BleShapes
  <2> HIDE DEF r
  <2>3. ble' = [conn |-> None, disconnect_reason |-> reason, uuid |-> ble.uuid, data |-> ble.data]
    BY DEF BleShapes
  <2>4. application' = [conns |-> application.conns \ {c}, view |-> application.view,
                        got |-> application.got, call |-> application.call]
    BY DEF BleShapes
  <2> HIDE DEF ConnInv, Disconnected, reason
  <2> QED
    BY <2>1, <2>2, <2>3, <2>4 DEF BleShapes
<1>3. /\ stack'.live = stack.live \ {c} /\ stack'.power = stack.power
      /\ stack'.refs = [stack.refs EXCEPT ![c] = @ - 1]
      /\ ble'.conn = None /\ application'.conns = application.conns \ {c} /\ application'.call = application.call
  <2>1. stack'.live = stack.live \ {c} /\ stack'.power = stack.power
    BY DEF BleShapes
  <2>2. stack'.refs = [stack.refs EXCEPT ![c] = @ - 1]
    BY DEF BleShapes
  <2>3. ble'.conn = None
    BY DEF BleShapes
  <2>4. application'.conns = application.conns \ {c} /\ application'.call = application.call
    BY DEF BleShapes
  <2> QED
    BY <2>1, <2>2, <2>3, <2>4
<1>4. \A d \in Conns : stack'.refs[d] = (IF d \in stack'.live THEN 1 ELSE 0)
  BY <1>1, <1>3 DEF BleShapes
<1>5. CallTrue'
  BY <1>3 DEF CallTrue
<1>6. Cardinality(Conns) = 1 => stack'.live = {}
  BY <1>3, OneConnection
<1> QED
  BY <1>2, <1>3, <1>4, <1>5, <1>6

\* A step that leaves connections and powers alone, and the call as it was or true of nothing.
LEMMA SameConns ==
  ASSUME ConnInv, BleShapes', stack'.live = stack.live, stack'.refs = stack.refs,
         ble'.conn = ble.conn, application'.conns = application.conns, CallTrue'
  PROVE  ConnInv'
BY DEF ConnInv

\* The power that was read back is the one the controller has.
LEMMA PowerRead ==
  ASSUME ConnInv, NEW handle \in {"adv", "conn"}, NEW level, NEW set, NEW get, SetPower(handle, level, set, get)
  PROVE  ConnInv'
<1> DEFINE g == SetTxPower([power |-> stack.power, got |-> 0, asserts |-> 0], handle, level, set)
           h == GetTxPower(g, handle, get)
<1>1. /\ stack' = [stack EXCEPT !.power = h.power, !.calls = @ + 1]
      /\ application' = [application EXCEPT !.call = [op |-> "power", handle |-> handle, level |-> level,
                                       fine |-> h.asserts = 0 /\ h.got = level]]
      /\ UNCHANGED <<ble, l2cap>>
  BY DEF SetPower
<1>2. /\ g = [power |-> g.power, got |-> 0, asserts |-> g.asserts]
      /\ g.power = [k \in {"adv", "conn"} |-> g.power[k]] /\ g.asserts \in {0, 1}
  <2>1. stack.power = [k \in {"adv", "conn"} |-> stack.power[k]]
    BY DEF ConnInv, BleShapes
  <2>2. CASE set # "ok"
    <3>1. g = [power |-> stack.power, got |-> 0, asserts |-> 1]
      BY <2>2 DEF SetTxPower
    <3> QED
      BY <2>1, <3>1
  <2>3. CASE set = "ok"
    <3> DEFINE p == [stack.power EXCEPT ![handle] = Closest(level)]
    <3>1. g = [power |-> p, got |-> 0, asserts |-> 0]
      BY <2>3 DEF SetTxPower
    <3>2. p = [k \in {"adv", "conn"} |-> p[k]]
      BY <2>1
    <3> HIDE DEF p
    <3> QED
      BY <3>1, <3>2
  <2> QED
    BY <2>2, <2>3
<1> HIDE DEF g
<1>3. /\ h.power = g.power
      /\ h.asserts = 0 => h.got = g.power[handle]
  BY <1>2 DEF GetTxPower
<1> HIDE DEF h
<1>4. BleShapes'
  BY <1>1, <1>2, <1>3 DEF ConnInv, BleShapes
<1>5. /\ stack'.live = stack.live /\ stack'.refs = stack.refs /\ stack'.power = h.power
      /\ ble' = ble /\ application'.conns = application.conns
      /\ application'.call = [op |-> "power", handle |-> handle, level |-> level,
                              fine |-> h.asserts = 0 /\ h.got = level]
  BY <1>1 DEF ConnInv, BleShapes
<1>6. PICK fine \in BOOLEAN : fine = (h.asserts = 0 /\ h.got = level)
  OBVIOUS
<1>7. CallTrue'
  <2>1. application'.call = [op |-> "power", handle |-> handle, level |-> level, fine |-> fine]
    BY <1>5, <1>6
  <2>2. fine => stack'.power[handle] = level
    BY <1>3, <1>5, <1>6
  <2> QED
    BY <2>1, <2>2 DEF CallTrue
<1> QED
  BY <1>4, <1>5, <1>7, SameConns

\* The octets of a hash are put together from the fields they came in.
LEMMA HashRead == ASSUME NEW hash \in Hashes PROVE GitHash(Fields(hash)) = hash
<1>1. hash \in [1..7 -> 0..255]
  BY BleAssumption
<1>2. ASSUME NEW i \in 1..7 PROVE hash[i] \in Nat /\ hash[i] <= 255
  <2>1. hash[i] \in 0..255
    BY <1>1
  <2> QED
    BY <2>1
<1>3. ASSUME NEW a \in Nat, NEW b \in Nat, a <= 255, b <= 255
      PROVE  (a + 256 * b) % 256 = a /\ (a + 256 * b) \div 256 = b
  <2>1. (a + 256 * b) \div 256 = b
    BY <1>3
  <2>2. (a + 256 * b) % 256 = a
    BY <1>3
  <2> QED
    BY <2>1, <2>2
<1> DEFINE f == Fields(hash)
<1>4. /\ f.fw_version = hash[1] /\ f.fw_revision = hash[2] + 256 * hash[3]
      /\ f.fw_build = <<hash[4] + 256 * hash[5], hash[6] + 256 * hash[7]>>
  BY DEF Fields
<1>5. /\ f.fw_revision % 256 = hash[2] /\ f.fw_revision \div 256 = hash[3]
      /\ f.fw_build[1] % 256 = hash[4] /\ f.fw_build[1] \div 256 = hash[5]
      /\ f.fw_build[2] % 256 = hash[6] /\ f.fw_build[2] \div 256 = hash[7]
  <2> HIDE DEF f
  <2>0. /\ hash[2] \in Nat /\ hash[2] <= 255 /\ hash[3] \in Nat /\ hash[3] <= 255
        /\ hash[4] \in Nat /\ hash[4] <= 255 /\ hash[5] \in Nat /\ hash[5] <= 255
        /\ hash[6] \in Nat /\ hash[6] <= 255 /\ hash[7] \in Nat /\ hash[7] <= 255
    BY <1>2
  <2>1. f.fw_build[1] = hash[4] + 256 * hash[5] /\ f.fw_build[2] = hash[6] + 256 * hash[7]
    BY <1>4
  <2>2. f.fw_revision % 256 = hash[2] /\ f.fw_revision \div 256 = hash[3]
    <3>1. (hash[2] + 256 * hash[3]) % 256 = hash[2] /\ (hash[2] + 256 * hash[3]) \div 256 = hash[3]
      BY <2>0, <1>3
    <3> QED
      BY <3>1, <1>4
  <2>3. f.fw_build[1] % 256 = hash[4] /\ f.fw_build[1] \div 256 = hash[5]
    <3>1. (hash[4] + 256 * hash[5]) % 256 = hash[4] /\ (hash[4] + 256 * hash[5]) \div 256 = hash[5]
      BY <2>0, <1>3
    <3> QED
      BY <3>1, <2>1
  <2>4. f.fw_build[2] % 256 = hash[6] /\ f.fw_build[2] \div 256 = hash[7]
    <3>1. (hash[6] + 256 * hash[7]) % 256 = hash[6] /\ (hash[6] + 256 * hash[7]) \div 256 = hash[7]
      BY <2>0, <1>3
    <3> QED
      BY <3>1, <2>1
  <2> QED
    BY <2>2, <2>3, <2>4
<1> HIDE DEF f
<1>6. GitHash(f) = <<hash[1], hash[2], hash[3], hash[4], hash[5], hash[6], hash[7]>>
  BY <1>4, <1>5 DEF GitHash
<1> QED
  BY <1>1, <1>6 DEF f

\* The version is looked up under the hash that the controller has.
LEMMA VersionConn == ASSUME ConnInv, GetVersion PROVE ConnInv'
<1>1. PICK hash \in Hashes, answered \in {"ok", "err", "nobuf"} :
        /\ stack' = [stack EXCEPT !.calls = @ + 1]
        /\ application' = [application EXCEPT !.call =
             [op |-> "version", hash |-> hash, fine |-> answered = "ok",
              revision |-> LookupSoftDeviceRevision(hash), digits |-> hash]]
        /\ UNCHANGED <<ble, l2cap>>
  BY HashRead DEF GetVersion
<1>2. BleShapes'
  BY <1>1 DEF ConnInv, BleShapes
<1>3. /\ stack'.live = stack.live /\ stack'.refs = stack.refs /\ ble' = ble
      /\ application'.conns = application.conns
      /\ application'.call = [op |-> "version", hash |-> hash, fine |-> answered = "ok",
                              revision |-> LookupSoftDeviceRevision(hash), digits |-> hash]
  BY <1>1 DEF ConnInv, BleShapes
<1>4. CallTrue'
  BY <1>3 DEF CallTrue, LookupSoftDeviceRevision
<1> QED
  BY <1>2, <1>3, <1>4, SameConns

\* Every other step leaves the connections alone.
LEMMA OthersConn ==
  ASSUME ConnInv,
         \/ ConnectFailed \/ Disconnect \/ StartAdvertising \/ StopAdvertising
         \/ SetServiceUuid \/ SetManufacturerData
         \/ Send \/ ChanConnected \/ ChanDisconnected \/ ChanRecv
         \/ RunNotification \/ RunRecv \/ RecvClaim \/ RecvDeliver
  PROVE  ConnInv'
<1> DEFINE Same == /\ BleShapes' /\ stack'.live = stack.live /\ stack'.refs = stack.refs /\ stack'.power = stack.power
                   /\ ble'.conn = ble.conn /\ application'.conns = application.conns
<1>1. ASSUME Same, application'.call = application.call PROVE ConnInv'
  <2>1. CallTrue'
    BY <1>1 DEF ConnInv, CallTrue
  <2> QED
    BY <1>1, <2>1, SameConns
<1>2. ASSUME ConnectFailed \/ Disconnect \/ StopAdvertising PROVE ConnInv'
  <2>1. Same /\ application'.call = application.call
    BY <1>2 DEF ConnectFailed, Disconnect, StopAdvertising, ConnInv, BleShapes
  <2> QED
    BY <1>1, <2>1
<1>3. ASSUME StartAdvertising PROVE ConnInv'
  <2>1. PICK a, p : /\ stack' = [stack EXCEPT !.adv = a, !.calls = @ + 1, !.payload = p]
                    /\ UNCHANGED <<ble, l2cap, application>>
    BY <1>3 DEF StartAdvertising
  <2>2. Same /\ application'.call = application.call
    BY <2>1 DEF ConnInv, BleShapes
  <2> QED
    BY <1>1, <2>2
<1>4. ASSUME SetServiceUuid \/ SetManufacturerData PROVE ConnInv'
  <2>1. Same /\ application'.call = application.call
    BY <1>4 DEF SetServiceUuid, SetManufacturerData, ConnInv, BleShapes
  <2> QED
    BY <1>1, <2>1
<1>5. ASSUME Send PROVE ConnInv'
  <2>1. PICK size, accepts :
          /\ application' = [application EXCEPT !.call = [op |-> "send", size |-> size, accepted |-> accepts]]
          /\ stack' = [stack EXCEPT !.calls = @ + 1]
          /\ UNCHANGED ble
    BY <1>5 DEF Send
  <2>2. Same /\ application'.call = [op |-> "send", size |-> size, accepted |-> accepts]
    BY <2>1 DEF ConnInv, BleShapes
  <2>3. CallTrue'
    BY <2>2 DEF CallTrue
  <2> QED
    BY <2>2, <2>3, SameConns
<1>6. ASSUME ChanConnected \/ ChanDisconnected PROVE ConnInv'
  <2>1. PICK c : stack' = [stack EXCEPT !.chan = c] /\ UNCHANGED <<ble, application>>
    BY <1>6 DEF ChanConnected, ChanDisconnected
  <2>2. Same /\ application'.call = application.call
    BY <2>1 DEF ConnInv, BleShapes
  <2> QED
    BY <1>1, <2>2
<1>7. ASSUME ChanRecv \/ RunRecv \/ RecvClaim PROVE ConnInv'
  <2>1. UNCHANGED <<ble, stack, application>>
    BY <1>7 DEF ChanRecv, RunRecv, RecvClaim
  <2>2. Same /\ application'.call = application.call
    BY <2>1 DEF ConnInv, BleShapes
  <2> QED
    BY <1>1, <2>2
<1>8. ASSUME RunNotification PROVE ConnInv'
  <2>1. PICK v : application' = [application EXCEPT !.view = v] /\ UNCHANGED <<ble, stack>>
    BY <1>8 DEF RunNotification
  <2>2. Same /\ application'.call = application.call
    BY <2>1 DEF ConnInv, BleShapes
  <2> QED
    BY <1>1, <2>2
<1>9. ASSUME RecvDeliver PROVE ConnInv'
  <2>1. PICK g : application' = [application EXCEPT !.got = g] /\ UNCHANGED <<ble, stack>>
    BY <1>9 DEF RecvDeliver
  <2>2. Same /\ application'.call = application.call
    BY <2>1 DEF ConnInv, BleShapes
  <2> QED
    BY <1>1, <2>2
<1> QED
  BY <1>2, <1>3, <1>4, <1>5, <1>6, <1>7, <1>8, <1>9

\* Connections and calls are known after every step.
LEMMA ConnKept == ASSUME ConnInv, [BleNext]_bleVars PROVE ConnInv'
<1>1. ASSUME UNCHANGED bleVars PROVE ConnInv'
  BY <1>1 DEF bleVars, ConnInv, BleShapes, CallTrue
<1>2. ASSUME SetAdvertisingTxPower PROVE ConnInv'
  BY <1>2, PowerRead DEF SetAdvertisingTxPower
<1>3. ASSUME SetConnectionTxPower PROVE ConnInv'
  BY <1>3, PowerRead DEF SetConnectionTxPower
<1>4. ASSUME NEW c \in Conns, Connect(c) \/ Disconnected(c) PROVE ConnInv'
  BY <1>4, ConnectConn, DisconnectedConn
<1>5. ASSUME HostNext PROVE ConnInv'
  BY <1>2, <1>3, <1>5, OthersConn, VersionConn DEF HostNext
<1>6. ASSUME StreamNext PROVE ConnInv'
  BY <1>6, OthersConn DEF StreamNext
<1> QED
  BY <1>1, <1>4, <1>5, <1>6 DEF BleNext

-----------------------------------------------------------------------------
(* Bluetooth: the octets. *)

BleWorks == {"connected", "disconnected", "recv"}
L2capRecord ==
  [connected : BOOLEAN, rx : Seq(Nat), tx : {<<>>}, tx_count : Nat, received : Nat,
   rx_drop_count : Nat, lost : Int, queue : Seq(BleWorks), running : {None, "recv", "claimed"},
   claimed : Nat, copy : Seq(Nat), channels : Nat, merged : BOOLEAN]

Rises(s) == \A i, j \in DOMAIN s : i < j => s[i] < s[j]
Under(s, t) == \A i \in DOMAIN s, j \in DOMAIN t : s[i] < t[j]
UpTo(s, n) == \A i \in DOMAIN s : s[i] <= n

\* The octets that the work has taken a copy of are the first of the ring, unless
\* the ring was emptied since; then they are older.
CopyInv(l) ==
  IF l.running = "claimed"
  THEN \/ l.claimed = 0 /\ Under(l.copy, l.rx)
       \/ l.claimed = Len(l.copy) /\ l.claimed <= Len(l.rx) /\ \A i \in 1 .. l.claimed : l.copy[i] = l.rx[i]
  ELSE l.claimed = 0 /\ l.copy = <<>>

\* What the application got, the copy and the ring rise one after the other, and
\* account for all octets that were received.
OctetInv(l, got) ==
  /\ got \in Seq(Nat) /\ Rises(got) /\ Rises(l.rx) /\ Rises(l.copy)
  /\ UpTo(got, l.received) /\ UpTo(l.rx, l.received) /\ UpTo(l.copy, l.received)
  /\ Under(got, l.rx) /\ Under(got, l.copy)
  /\ CopyInv(l)
  /\ Len(l.rx) <= L2capRing
  /\ l.received = Len(got) + Len(l.rx) + l.rx_drop_count + l.lost

\* Whoever has octets to fetch is going to.
FetchInv(l) == l.rx # <<>> => Waits(l.queue, "recv") \/ l.running # None

\* The last notification that waits, or the one before, says whether the channel is up.
NewsInv(l, view) ==
  l.merged \/ \E i \in 0 .. Len(l.queue) :
    /\ \A j \in (i + 1) .. Len(l.queue) : l.queue[j] = "recv"
    /\ (IF i = 0 THEN view ELSE l.queue[i]) = (IF l.connected THEN "connected" ELSE "disconnected")

BleStreamInv ==
  /\ BleShapes /\ l2cap \in L2capRecord
  /\ OctetInv(l2cap, application.got) /\ FetchInv(l2cap) /\ NewsInv(l2cap, application.view)

\* At the start nothing was received.
LEMMA BleStreamStarts == BleInit => BleStreamInv
<1> SUFFICES ASSUME BleInit PROVE BleStreamInv
  OBVIOUS
<1>1. BleShapes
  BY ConnStarts DEF ConnInv
<1>2. l2cap \in L2capRecord
  BY DEF BleInit, ChannelInitialized, L2capRecord
<1>3. OctetInv(l2cap, application.got)
  BY BleAssumption DEF BleInit, ChannelInitialized, OctetInv, CopyInv, Rises, Under, UpTo, None
<1>4. FetchInv(l2cap)
  BY DEF BleInit, ChannelInitialized, FetchInv
<1>5. NewsInv(l2cap, application.view)
  BY DEF BleInit, ChannelInitialized, NewsInv
<1> QED
  BY <1>1, <1>2, <1>3, <1>4, <1>5 DEF BleStreamInv

\* What submitting makes of the queue.
LEMMA SubmitFacts ==
  ASSUME NEW q \in Seq(BleWorks), NEW w \in BleWorks
  PROVE  /\ Submit(q, w) \in Seq(BleWorks) /\ Waits(Submit(q, w), w)
         /\ \A v : Waits(q, v) => Waits(Submit(q, w), v)
         /\ Waits(q, w) => Submit(q, w) = q
         /\ ~Waits(q, w) => /\ Len(Submit(q, w)) = Len(q) + 1 /\ Submit(q, w)[Len(q) + 1] = w
                            /\ \A i \in 1 .. Len(q) : Submit(q, w)[i] = q[i]
<1>1. CASE Waits(q, w)
  BY <1>1 DEF Submit, Waits
<1>2. CASE ~Waits(q, w)
  <2>1. Submit(q, w) = Append(q, w)
    BY <1>2 DEF Submit, Waits
  <2>2. /\ Append(q, w) \in Seq(BleWorks) /\ Len(Append(q, w)) = Len(q) + 1 /\ Append(q, w)[Len(q) + 1] = w
        /\ \A i \in 1 .. Len(q) : Append(q, w)[i] = q[i]
    OBVIOUS
  <2>3. Waits(Append(q, w), w) /\ \A v : Waits(q, v) => Waits(Append(q, w), v)
    BY <2>2 DEF Waits
  <2> QED
    BY <1>2, <2>1, <2>2, <2>3
<1> QED
  BY <1>1, <1>2

\* A notification that is submitted is the last one that waits.
LEMMA NotifyNews ==
  ASSUME NEW l \in L2capRecord, NEW m \in L2capRecord, NEW view, NewsInv(l, view),
         NEW w \in {"connected", "disconnected"}, m.queue = Submit(l.queue, w),
         m.connected = (w = "connected"), m.merged = (l.merged \/ Waits(l.queue, w))
  PROVE  NewsInv(m, view)
<1>1. l.queue \in Seq(BleWorks) /\ w \in BleWorks
  BY DEF L2capRecord, BleWorks
<1>2. CASE l.merged \/ Waits(l.queue, w)
  BY <1>2 DEF NewsInv
<1>3. CASE ~Waits(l.queue, w)
  <2> DEFINE i == Len(m.queue)
  <2>1. i = Len(l.queue) + 1 /\ m.queue[i] = w
    BY <1>1, <1>3, SubmitFacts
  <2>2. i \in 0 .. Len(m.queue) /\ i # 0 /\ (i + 1) .. Len(m.queue) = {}
    BY <1>1, <2>1
  <2> HIDE DEF i
  <2>3. w = IF m.connected THEN "connected" ELSE "disconnected"
    OBVIOUS
  <2> QED
    BY <2>1, <2>2, <2>3 DEF NewsInv
<1> QED
  BY <1>2, <1>3

\* Submitting the receive work is no news.
LEMMA RecvNews ==
  ASSUME NEW l \in L2capRecord, NEW m \in L2capRecord, NEW view, NewsInv(l, view),
         m.queue = Submit(l.queue, "recv"), m.connected = l.connected, m.merged = l.merged
  PROVE  NewsInv(m, view)
<1>1. l.queue \in Seq(BleWorks) /\ "recv" \in BleWorks
  BY DEF L2capRecord, BleWorks
<1>2. CASE l.merged \/ Waits(l.queue, "recv")
  <2>1. CASE l.merged
    BY <2>1 DEF NewsInv
  <2>2. CASE Waits(l.queue, "recv")
    <3>1. m.queue = l.queue
      BY <2>2 DEF Submit, Waits
    <3> QED
      BY <3>1 DEF NewsInv
  <2> QED
    BY <1>2, <2>1, <2>2
<1>3. CASE ~l.merged /\ ~Waits(l.queue, "recv")
  <2>1. PICK i \in 0 .. Len(l.queue) :
          /\ \A j \in (i + 1) .. Len(l.queue) : l.queue[j] = "recv"
          /\ (IF i = 0 THEN view ELSE l.queue[i]) = (IF l.connected THEN "connected" ELSE "disconnected")
    BY <1>3 DEF NewsInv
  <2>2. /\ Len(m.queue) = Len(l.queue) + 1 /\ m.queue[Len(l.queue) + 1] = "recv"
        /\ \A j \in 1 .. Len(l.queue) : m.queue[j] = l.queue[j]
    <3>1. ASSUME NEW w \in BleWorks, ~Waits(l.queue, w)
          PROVE  /\ Len(Submit(l.queue, w)) = Len(l.queue) + 1 /\ Submit(l.queue, w)[Len(l.queue) + 1] = w
                 /\ \A j \in 1 .. Len(l.queue) : Submit(l.queue, w)[j] = l.queue[j]
      BY <1>1, <3>1, SubmitFacts
    <3> QED
      BY <1>1, <1>3, <3>1
  <2>3. Len(l.queue) \in Nat
    BY <1>1
  <2>4. i \in 0 .. Len(m.queue) /\ (i # 0 => i \in 1 .. Len(l.queue))
    BY <2>2, <2>3
  <2>5. ASSUME NEW j \in (i + 1) .. Len(m.queue) PROVE m.queue[j] = "recv"
    <3>1. j = Len(l.queue) + 1 \/ (j \in (i + 1) .. Len(l.queue) /\ j \in 1 .. Len(l.queue))
      BY <2>2, <2>3
    <3> QED
      BY <2>1, <2>2, <3>1
  <2>6. (IF i = 0 THEN view ELSE m.queue[i]) = (IF m.connected THEN "connected" ELSE "disconnected")
    BY <2>1, <2>2, <2>4
  <2> QED
    BY <2>4, <2>5, <2>6 DEF NewsInv
<1> QED
  BY <1>2, <1>3

\* The work queue takes the first item, and tells the application if it is news.
LEMMA TakeNews ==
  ASSUME NEW l \in L2capRecord, NEW m \in L2capRecord, NEW view, NewsInv(l, view), l.queue # <<>>,
         m.queue = Tail(l.queue), m.connected = l.connected, m.merged = l.merged
  PROVE  NewsInv(m, IF Head(l.queue) = "recv" THEN view ELSE Head(l.queue))
<1> DEFINE v == IF Head(l.queue) = "recv" THEN view ELSE Head(l.queue)
<1>1. l.queue \in Seq(BleWorks)
  BY DEF L2capRecord
<1>2. /\ Len(l.queue) \in Nat \ {0} /\ Len(m.queue) = Len(l.queue) - 1 /\ Head(l.queue) = l.queue[1]
      /\ \A j \in 1 .. Len(m.queue) : m.queue[j] = l.queue[j + 1]
  BY <1>1
<1>3. CASE l.merged
  BY <1>3 DEF NewsInv
<1>4. CASE ~l.merged
  <2>1. PICK i \in 0 .. Len(l.queue) :
          /\ \A j \in (i + 1) .. Len(l.queue) : l.queue[j] = "recv"
          /\ (IF i = 0 THEN view ELSE l.queue[i]) = (IF l.connected THEN "connected" ELSE "disconnected")
    BY <1>4 DEF NewsInv
  <2> DEFINE k == IF i = 0 THEN 0 ELSE i - 1
  <2>2. k \in 0 .. Len(m.queue)
    BY <1>2
  <2>3. ASSUME NEW j \in (k + 1) .. Len(m.queue) PROVE m.queue[j] = "recv"
    <3>1. j \in 1 .. Len(m.queue) /\ j + 1 \in (i + 1) .. Len(l.queue)
      BY <1>2, <2>2
    <3> QED
      BY <1>2, <2>1, <3>1
  <2>4. (IF k = 0 THEN v ELSE m.queue[k]) = (IF m.connected THEN "connected" ELSE "disconnected")
    <3>1. CASE i = 0
      <4>1. 1 \in (i + 1) .. Len(l.queue)
        BY <1>2, <3>1
      <4>2. l.queue[1] = "recv"
        BY <2>1, <4>1
      <4> QED
        BY <1>2, <2>1, <3>1, <4>2
    <3>2. CASE i = 1
      <4>1. l.queue[1] # "recv"
        BY <2>1, <3>2
      <4> QED
        BY <1>2, <2>1, <3>2, <4>1
    <3>3. CASE i \notin {0, 1}
      <4>1. k = i - 1 /\ k \in 1 .. Len(m.queue) /\ k + 1 = i
        BY <1>2, <3>3
      <4>2. m.queue[k] = l.queue[i]
        BY <1>2, <4>1
      <4> QED
        BY <2>1, <3>3, <4>1, <4>2
    <3> QED
      BY <3>1, <3>2, <3>3
  <2> HIDE DEF k, v
  <2>5. NewsInv(m, v)
    BY <2>2, <2>3, <2>4 DEF NewsInv
  <2> QED
    BY <2>5 DEF v
<1> QED
  BY <1>3, <1>4

\* What the last step of a notification has to keep, octets and works apart.
LEMMA SameOctets ==
  ASSUME NEW l, NEW m, NEW got, OctetInv(l, got), m.rx = l.rx, m.received = l.received,
         m.rx_drop_count = l.rx_drop_count, m.lost = l.lost, m.claimed = l.claimed, m.copy = l.copy,
         (m.running = "claimed") <=> (l.running = "claimed")
  PROVE  OctetInv(m, got)
BY DEF OctetInv, CopyInv

\* What joining makes of two sequences.
LEMMA JoinFacts ==
  ASSUME NEW S, NEW s \in Seq(S), NEW t \in Seq(S)
  PROVE  /\ s \o t \in Seq(S) /\ Len(s \o t) = Len(s) + Len(t)
         /\ \A i \in 1 .. Len(s) + Len(t) : (s \o t)[i] = IF i <= Len(s) THEN s[i] ELSE t[i - Len(s)]
OBVIOUS

\* A record of the channel stays one when a field is changed.
LEMMA L2capUpdate ==
  ASSUME NEW l \in L2capRecord
  PROVE  /\ \A b \in BOOLEAN : [l EXCEPT !.connected = b] \in L2capRecord
         /\ \A b \in BOOLEAN : [l EXCEPT !.merged = b] \in L2capRecord
         /\ \A s \in Seq(Nat) : [l EXCEPT !.rx = s] \in L2capRecord
         /\ \A s \in Seq(Nat) : [l EXCEPT !.copy = s] \in L2capRecord
         /\ [l EXCEPT !.tx = <<>>] \in L2capRecord
         /\ \A q \in Seq(BleWorks) : [l EXCEPT !.queue = q] \in L2capRecord
         /\ \A n \in Nat : [l EXCEPT !.received = n] \in L2capRecord
         /\ \A n \in Nat : [l EXCEPT !.rx_drop_count = n] \in L2capRecord
         /\ \A n \in Nat : [l EXCEPT !.claimed = n] \in L2capRecord
         /\ \A n \in Nat : [l EXCEPT !.channels = n] \in L2capRecord
         /\ \A n \in Int : [l EXCEPT !.lost = n] \in L2capRecord
         /\ \A w \in {None, "recv", "claimed"} : [l EXCEPT !.running = w] \in L2capRecord
<1>1. \A b \in BOOLEAN : [l EXCEPT !.connected = b] \in L2capRecord
  BY DEF L2capRecord
<1>2. \A b \in BOOLEAN : [l EXCEPT !.merged = b] \in L2capRecord
  BY DEF L2capRecord
<1>3. \A s \in Seq(Nat) : [l EXCEPT !.rx = s] \in L2capRecord
  BY DEF L2capRecord
<1>4. \A s \in Seq(Nat) : [l EXCEPT !.copy = s] \in L2capRecord
  BY DEF L2capRecord
<1>5. [l EXCEPT !.tx = <<>>] \in L2capRecord
  BY DEF L2capRecord
<1>6. \A q \in Seq(BleWorks) : [l EXCEPT !.queue = q] \in L2capRecord
  BY DEF L2capRecord
<1>7. \A n \in Nat : [l EXCEPT !.received = n] \in L2capRecord
  BY DEF L2capRecord
<1>8. \A n \in Nat : [l EXCEPT !.rx_drop_count = n] \in L2capRecord
  BY DEF L2capRecord
<1>9. \A n \in Nat : [l EXCEPT !.claimed = n] \in L2capRecord
  BY DEF L2capRecord
<1>10. \A n \in Nat : [l EXCEPT !.channels = n] \in L2capRecord
  BY DEF L2capRecord
<1>11. \A n \in Int : [l EXCEPT !.lost = n] \in L2capRecord
  BY DEF L2capRecord
<1>12. \A w \in {None, "recv", "claimed"} : [l EXCEPT !.running = w] \in L2capRecord
  BY DEF L2capRecord
<1> QED
  BY <1>1, <1>2, <1>3, <1>4, <1>5, <1>6, <1>7, <1>8, <1>9, <1>10, <1>11, <1>12

\* The channel comes up.
LEMMA ChanConnectedKept == ASSUME BleStreamInv, BleShapes', ChanConnected PROVE BleStreamInv'
<1> DEFINE l == l2cap
           m == [l EXCEPT !.connected = TRUE, !.queue = Submit(@, "connected"), !.channels = @ + 1,
                          !.merged = @ \/ Waits(l.queue, "connected")]
<1>1. l2cap' = m /\ UNCHANGED application
  BY DEF ChanConnected
<1>2. l \in L2capRecord /\ l.queue \in Seq(BleWorks) /\ "connected" \in BleWorks
  BY DEF BleStreamInv, L2capRecord, BleWorks
<1>3. Submit(l.queue, "connected") \in Seq(BleWorks) /\ (Waits(l.queue, "recv") => Waits(Submit(l.queue, "connected"), "recv"))
  BY <1>2, SubmitFacts
<1>4. PICK merged \in BOOLEAN : merged = (l.merged \/ Waits(l.queue, "connected"))
  OBVIOUS
<1>5a. m = [l EXCEPT !.connected = TRUE, !.queue = Submit(@, "connected"), !.channels = @ + 1, !.merged = merged]
  BY <1>4
<1>5. /\ m \in L2capRecord /\ m.rx = l.rx /\ m.received = l.received /\ m.rx_drop_count = l.rx_drop_count
      /\ m.lost = l.lost /\ m.claimed = l.claimed /\ m.copy = l.copy /\ m.running = l.running
      /\ m.connected = TRUE /\ m.queue = Submit(l.queue, "connected")
      /\ m.merged = (l.merged \/ Waits(l.queue, "connected"))
  <2> HIDE DEF m
  <2>1. m \in L2capRecord
    <3> DEFINE l1 == [l EXCEPT !.connected = TRUE]
               l2 == [l1 EXCEPT !.queue = Submit(l.queue, "connected")]
               l3 == [l2 EXCEPT !.channels = l.channels + 1]
    <3>1. l1 \in L2capRecord
      BY <1>2, L2capUpdate
    <3>2. l2 \in L2capRecord
      <4> HIDE DEF l1
      <4> QED
        BY <1>3, <3>1, L2capUpdate
    <3>3. l.channels + 1 \in Nat
      BY <1>2 DEF L2capRecord
    <3>4. l3 \in L2capRecord
      <4> HIDE DEF l2
      <4> QED
        BY <3>2, <3>3, L2capUpdate
    <3>5. m = [l3 EXCEPT !.merged = merged]
      BY <1>5a
    <3> HIDE DEF l3
    <3> QED
      BY <3>4, <3>5, L2capUpdate
  <2>2. /\ m.rx = l.rx /\ m.received = l.received /\ m.rx_drop_count = l.rx_drop_count
        /\ m.lost = l.lost /\ m.claimed = l.claimed /\ m.copy = l.copy /\ m.running = l.running
        /\ m.connected = TRUE /\ m.queue = Submit(l.queue, "connected") /\ m.merged = merged
    BY <1>2, <1>5a DEF L2capRecord
  <2> QED
    BY <1>4, <2>1, <2>2
<1> HIDE DEF m
<1>6. OctetInv(m, application.got)
  BY <1>5, SameOctets DEF BleStreamInv
<1>7. FetchInv(m)
  BY <1>3, <1>5 DEF BleStreamInv, FetchInv
<1>8. NewsInv(m, application.view)
  BY <1>2, <1>5, NotifyNews DEF BleStreamInv
<1> QED
  BY <1>1, <1>5, <1>6, <1>7, <1>8 DEF BleStreamInv

\* The channel goes down: what the ring held is lost, a copy is not.
LEMMA ChanDisconnectedKept == ASSUME BleStreamInv, BleShapes', ChanDisconnected PROVE BleStreamInv'
<1> DEFINE l == l2cap
           m == [l EXCEPT !.connected = FALSE, !.rx = <<>>, !.tx = <<>>, !.lost = @ + Len(l.rx),
                          !.claimed = 0, !.queue = Submit(@, "disconnected"),
                          !.merged = @ \/ Waits(l.queue, "disconnected")]
<1>1. l2cap' = m /\ UNCHANGED application
  BY DEF ChanDisconnected
<1>2. /\ l \in L2capRecord /\ l.queue \in Seq(BleWorks) /\ "disconnected" \in BleWorks
      /\ l.rx \in Seq(Nat) /\ l.lost \in Int /\ l.received \in Nat /\ l.rx_drop_count \in Nat
  BY DEF BleStreamInv, L2capRecord, BleWorks
<1>3. Submit(l.queue, "disconnected") \in Seq(BleWorks)
  BY <1>2, SubmitFacts
<1>4. PICK merged \in BOOLEAN : merged = (l.merged \/ Waits(l.queue, "disconnected"))
  OBVIOUS
<1>5. Len(l.rx) \in Nat /\ <<>> \in Seq(Nat)
  BY <1>2
<1>5a. m = [l EXCEPT !.connected = FALSE, !.rx = <<>>, !.tx = <<>>, !.lost = @ + Len(l.rx),
                     !.claimed = 0, !.queue = Submit(@, "disconnected"), !.merged = merged]
  BY <1>4
<1>6. /\ m \in L2capRecord /\ m.rx = <<>> /\ m.received = l.received /\ m.rx_drop_count = l.rx_drop_count
      /\ m.lost = l.lost + Len(l.rx) /\ m.claimed = 0 /\ m.copy = l.copy /\ m.running = l.running
      /\ m.connected = FALSE /\ m.queue = Submit(l.queue, "disconnected")
      /\ m.merged = (l.merged \/ Waits(l.queue, "disconnected"))
  <2> HIDE DEF m
  <2>1. m \in L2capRecord
    <3> DEFINE l1 == [l EXCEPT !.connected = FALSE]
               l2 == [l1 EXCEPT !.rx = <<>>]
               l3 == [l2 EXCEPT !.tx = <<>>]
               l4 == [l3 EXCEPT !.lost = l.lost + Len(l.rx)]
               l5 == [l4 EXCEPT !.claimed = 0]
               l6 == [l5 EXCEPT !.queue = Submit(l.queue, "disconnected")]
    <3>1. l1 \in L2capRecord
      BY <1>2, L2capUpdate
    <3>2. l2 \in L2capRecord
      <4> HIDE DEF l1
      <4> QED
        BY <1>5, <3>1, L2capUpdate
    <3>3. l3 \in L2capRecord
      <4> HIDE DEF l2
      <4> QED
        BY <3>2, L2capUpdate
    <3>4. l4 \in L2capRecord
      <4> HIDE DEF l3
      <4>1. l.lost + Len(l.rx) \in Int
        BY <1>2, <1>5
      <4> QED
        BY <3>3, <4>1, L2capUpdate
    <3>5. l5 \in L2capRecord
      <4> HIDE DEF l4
      <4> QED
        BY <3>4, L2capUpdate
    <3>6. l6 \in L2capRecord
      <4> HIDE DEF l5
      <4> QED
        BY <1>3, <3>5, L2capUpdate
    <3>7. m = [l6 EXCEPT !.merged = merged]
      BY <1>5a
    <3> HIDE DEF l6
    <3> QED
      BY <3>6, <3>7, L2capUpdate
  <2>2. /\ m.rx = <<>> /\ m.received = l.received /\ m.rx_drop_count = l.rx_drop_count
        /\ m.lost = l.lost + Len(l.rx) /\ m.claimed = 0 /\ m.copy = l.copy /\ m.running = l.running
        /\ m.connected = FALSE /\ m.queue = Submit(l.queue, "disconnected") /\ m.merged = merged
    BY <1>2, <1>5a DEF L2capRecord
  <2> QED
    BY <1>4, <2>1, <2>2
<1> HIDE DEF m
<1>7. OctetInv(m, application.got)
  <2>1. OctetInv(l, application.got)
    BY DEF BleStreamInv
  <2>2. /\ Rises(m.rx) /\ UpTo(m.rx, m.received) /\ Under(application.got, m.rx) /\ Under(m.copy, m.rx)
        /\ Len(m.rx) = 0
    BY <1>6 DEF Rises, UpTo, Under
  <2>3. CopyInv(m)
    BY <1>6, <2>1, <2>2 DEF OctetInv, CopyInv
  <2>4. m.received = Len(application.got) + Len(m.rx) + m.rx_drop_count + m.lost
    <3>1. l.received = Len(application.got) + Len(l.rx) + l.rx_drop_count + l.lost /\ Len(application.got) \in Nat
      BY <2>1 DEF OctetInv
    <3>2. m.received = l.received /\ m.rx_drop_count = l.rx_drop_count /\ m.lost = l.lost + Len(l.rx)
      BY <1>6
    <3> DEFINE g == Len(application.got)
               x == Len(l.rx)
    <3>3. g \in Int /\ x \in Int /\ l.received \in Int /\ l.rx_drop_count \in Int /\ l.lost \in Int
      <4>1. Len(application.got) \in Nat
        BY <3>1
      <4>2. l.received \in Int /\ l.rx_drop_count \in Int /\ l.lost \in Int
        BY <1>2
      <4> QED
        BY <1>5, <4>1, <4>2
    <3>4. l.received = g + x + l.rx_drop_count + l.lost
      BY <3>1
    <3>5. Len(m.rx) = 0
      BY <2>2
    <3> HIDE DEF g, x
    <3>6. l.received = g + 0 + l.rx_drop_count + (l.lost + x)
      BY <3>3, <3>4
    <3> USE DEF g, x
    <3> QED
      BY <3>2, <3>5, <3>6
  <2>5. Len(m.rx) <= L2capRing
    BY <2>2, BleAssumption
  <2> QED
    BY <1>6, <2>1, <2>2, <2>3, <2>4, <2>5 DEF OctetInv
<1>8. FetchInv(m)
  BY <1>6 DEF FetchInv
<1>9. NewsInv(m, application.view)
  <2>1. NewsInv(l, application.view) /\ "disconnected" \in {"connected", "disconnected"}
    BY DEF BleStreamInv
  <2>2. m.connected = ("disconnected" = "connected")
    BY <1>6
  <2> QED
    BY <1>2, <1>6, <2>1, <2>2, NotifyNews
<1> QED
  BY <1>1, <1>6, <1>7, <1>8, <1>9 DEF BleStreamInv

\* Octets are received: the first that the ring has room for are put behind those it holds.
LEMMA ChanRecvKept == ASSUME BleStreamInv, BleShapes', ChanRecv PROVE BleStreamInv'
<1> DEFINE l == l2cap
           room == L2capRing - Len(l.rx)
           Put(n) == IF n > room THEN room ELSE n
           More(n) == [i \in 1 .. Put(n) |-> l.received + i]
           M(n) == [l EXCEPT !.rx = @ \o More(n), !.received = @ + n, !.rx_drop_count = @ + (n - Put(n)),
                             !.queue = Submit(@, "recv")]
<1>1. PICK n \in SduSizes : l2cap' = M(n) /\ UNCHANGED application
  BY DEF ChanRecv
<1> DEFINE put == Put(n)
           more == More(n)
           m == M(n)
           got == application.got
<1>2. /\ l \in L2capRecord /\ l.queue \in Seq(BleWorks) /\ "recv" \in BleWorks
      /\ l.rx \in Seq(Nat) /\ l.lost \in Int /\ l.received \in Nat /\ l.rx_drop_count \in Nat /\ l.copy \in Seq(Nat)
  BY DEF BleStreamInv, L2capRecord, BleWorks
<1>3. OctetInv(l, got) /\ got \in Seq(Nat) /\ Len(l.rx) <= L2capRing
  BY DEF BleStreamInv, OctetInv
<1>4. Len(l.rx) \in Nat /\ n \in Nat /\ put \in Nat /\ put <= n /\ Len(l.rx) + put <= L2capRing
  <2>1. Len(l.rx) \in Nat /\ n \in Nat /\ L2capRing \in Nat /\ Len(l.rx) <= L2capRing
    BY <1>2, <1>3, BleAssumption
  <2>2. room \in Nat /\ room = L2capRing - Len(l.rx)
    BY <2>1
  <2> HIDE DEF room
  <2>3. put = IF n > room THEN room ELSE n
    OBVIOUS
  <2>4. put \in Nat /\ put <= n /\ put <= room
    <3>1. CASE n > room
      <4>1. put = room
        BY <3>1
      <4> HIDE DEF put
      <4>2. room \in Nat /\ room <= n
        BY <2>1, <2>2, <3>1
      <4> QED
        BY <4>1, <4>2
    <3>2. CASE ~(n > room)
      <4>1. put = n
        BY <3>2
      <4> HIDE DEF put
      <4>2. n \in Nat /\ n <= room
        BY <2>1, <2>2, <3>2
      <4> QED
        BY <4>1, <4>2
    <3> QED
      BY <3>1, <3>2
  <2> HIDE DEF put
  <2>5. Len(l.rx) + put <= L2capRing
    <3> DEFINE x == Len(l.rx)
    <3>1. x \in Nat /\ x <= L2capRing /\ room = L2capRing - x
      BY <2>1, <2>2
    <3> HIDE DEF x
    <3>2. x + put <= L2capRing
      BY <2>1, <2>4, <3>1
    <3> QED
      BY <3>2 DEF x
  <2> QED
    BY <2>1, <2>4, <2>5
<1> HIDE DEF put
<1>5. more \in Seq(Nat) /\ Len(more) = put /\ \A i \in 1 .. put : more[i] = l.received + i
  <2>1. more = [i \in 1 .. put |-> l.received + i]
    BY DEF put
  <2>2. \A i \in 1 .. put : l.received + i \in Nat
    BY <1>2
  <2> HIDE DEF more
  <2> QED
    BY <1>4, <2>1, <2>2
<1> HIDE DEF more
<1>6. Submit(l.queue, "recv") \in Seq(BleWorks) /\ Waits(Submit(l.queue, "recv"), "recv")
  BY <1>2, SubmitFacts
<1> DEFINE r == l.rx \o more
<1>7. r \in Seq(Nat) /\ Len(r) = Len(l.rx) + put
  <2>1. l.rx \in Seq(Nat) /\ more \in Seq(Nat) /\ Len(more) = put
    BY <1>2, <1>5
  <2>2. r = l.rx \o more
    OBVIOUS
  <2> HIDE DEF r
  <2>3. l.rx \o more \in Seq(Nat) /\ Len(l.rx \o more) = Len(l.rx) + Len(more)
    BY <2>1, JoinFacts
  <2> QED
    BY <2>1, <2>2, <2>3
<1>8. \A i \in 1 .. Len(r) : r[i] = IF i <= Len(l.rx) THEN l.rx[i] ELSE l.received + (i - Len(l.rx))
  <2> SUFFICES ASSUME NEW i \in 1 .. Len(r)
               PROVE  r[i] = IF i <= Len(l.rx) THEN l.rx[i] ELSE l.received + (i - Len(l.rx))
    OBVIOUS
  <2>1. r[i] = IF i <= Len(l.rx) THEN l.rx[i] ELSE more[i - Len(l.rx)]
    BY <1>2, <1>5
  <2>2. i <= Len(l.rx) \/ i - Len(l.rx) \in 1 .. put
    BY <1>4, <1>7
  <2> QED
    BY <1>5, <2>1, <2>2
<1>9. m = [l EXCEPT !.rx = r, !.received = @ + n, !.rx_drop_count = @ + (n - put), !.queue = Submit(@, "recv")]
  BY DEF put, more
<1> HIDE DEF m, r
<1>10. /\ m \in L2capRecord /\ m.rx = r /\ m.received = l.received + n
       /\ m.rx_drop_count = l.rx_drop_count + (n - put) /\ m.lost = l.lost /\ m.claimed = l.claimed
       /\ m.copy = l.copy /\ m.running = l.running /\ m.connected = l.connected
       /\ m.queue = Submit(l.queue, "recv") /\ m.merged = l.merged
  <2>1. l.received + n \in Nat /\ l.rx_drop_count + (n - put) \in Nat
    BY <1>2, <1>4
  <2>2. m \in L2capRecord
    BY <1>2, <1>6, <1>7, <1>9, <2>1 DEF L2capRecord
  <2> QED
    BY <1>2, <1>9, <2>2 DEF L2capRecord
<1>11. \A i \in DOMAIN r : \/ i \in DOMAIN l.rx /\ r[i] = l.rx[i]
                           \/ i > Len(l.rx) /\ r[i] > l.received /\ r[i] <= l.received + n
  <2> SUFFICES ASSUME NEW i \in DOMAIN r
               PROVE  \/ i \in DOMAIN l.rx /\ r[i] = l.rx[i]
                      \/ i > Len(l.rx) /\ r[i] > l.received /\ r[i] <= l.received + n
    OBVIOUS
  <2>1. i \in 1 .. Len(r) /\ i \in Nat /\ i <= Len(l.rx) + put /\ i >= 1
    BY <1>4, <1>7
  <2>2. CASE i <= Len(l.rx)
    <3>1. i \in DOMAIN l.rx
      BY <1>2, <1>4, <2>1, <2>2
    <3>2. r[i] = l.rx[i]
      BY <1>8, <2>1, <2>2
    <3> QED
      BY <3>1, <3>2
  <2>3. CASE i > Len(l.rx)
    <3>1. r[i] = l.received + (i - Len(l.rx))
      BY <1>4, <1>8, <2>1, <2>3
    <3> QED
      BY <1>2, <1>4, <2>1, <2>3, <3>1
  <2> QED
    BY <1>4, <2>1, <2>2, <2>3
<1>12. /\ \A i \in DOMAIN l.rx : l.rx[i] \in Nat /\ l.rx[i] <= l.received
       /\ \A i \in DOMAIN got : got[i] \in Nat /\ got[i] <= l.received
       /\ \A i \in DOMAIN l.copy : l.copy[i] \in Nat /\ l.copy[i] <= l.received
  <2>1. /\ UpTo(l.rx, l.received) /\ UpTo(got, l.received) /\ UpTo(l.copy, l.received)
        /\ got \in Seq(Nat) /\ l.rx \in Seq(Nat) /\ l.copy \in Seq(Nat)
    BY <1>2, <1>3 DEF OctetInv
  <2>2. ASSUME NEW s \in Seq(Nat), UpTo(s, l.received)
        PROVE  \A i \in DOMAIN s : s[i] \in Nat /\ s[i] <= l.received
    BY <2>2 DEF UpTo
  <2> QED
    BY <2>1, <2>2
<1>13. \A i \in DOMAIN r : r[i] \in Nat
  BY <1>7
<1>14. Rises(r)
  <2> SUFFICES ASSUME NEW i \in DOMAIN r, NEW j \in DOMAIN r, i < j PROVE r[i] < r[j]
    BY DEF Rises
  <2>0. i \in 1 .. Len(l.rx) + put /\ j \in 1 .. Len(l.rx) + put
    BY <1>7
  <2>1. CASE j <= Len(l.rx)
    <3>1. i \in DOMAIN l.rx /\ j \in DOMAIN l.rx
      BY <1>2, <1>4, <2>0, <2>1
    <3> QED
      <4>1. l.rx[i] < l.rx[j]
        BY <1>3, <3>1 DEF OctetInv, Rises
      <4>2. i \in 1 .. Len(r) /\ j \in 1 .. Len(r) /\ i <= Len(l.rx)
        BY <1>4, <1>7, <2>0, <2>1
      <4>3. r[i] = l.rx[i] /\ r[j] = l.rx[j]
        BY <1>8, <2>1, <4>2
      <4> QED
        BY <4>1, <4>3
  <2>2. CASE ~(j <= Len(l.rx)) /\ i <= Len(l.rx)
    <3>1. i \in DOMAIN l.rx
      BY <1>2, <1>4, <2>0, <2>2
    <3>2. r[i] = l.rx[i] /\ r[j] = l.received + (j - Len(l.rx))
      BY <1>7, <1>8, <2>0, <2>2
    <3> QED
      BY <1>2, <1>4, <1>12, <2>0, <2>2, <3>1, <3>2
  <2>3. CASE ~(j <= Len(l.rx)) /\ ~(i <= Len(l.rx))
    <3>1. r[i] = l.received + (i - Len(l.rx)) /\ r[j] = l.received + (j - Len(l.rx))
      BY <1>7, <1>8, <2>0, <2>3
    <3> QED
      BY <1>2, <1>4, <2>0, <3>1
  <2> QED
    BY <2>1, <2>2, <2>3
<1>15. /\ UpTo(r, m.received) /\ UpTo(got, m.received) /\ UpTo(m.copy, m.received)
  <2>1. UpTo(r, l.received + n)
    BY <1>2, <1>4, <1>11, <1>12 DEF UpTo
  <2>2. UpTo(got, l.received + n) /\ UpTo(l.copy, l.received + n)
    BY <1>2, <1>4, <1>12 DEF UpTo
  <2> QED
    BY <1>10, <2>1, <2>2
<1>16. ASSUME NEW s, \A i \in DOMAIN s : s[i] \in Nat /\ s[i] <= l.received, Under(s, l.rx) PROVE Under(s, r)
  <2> SUFFICES ASSUME NEW i \in DOMAIN s, NEW j \in DOMAIN r PROVE s[i] < r[j]
    BY DEF Under
  <2>1. CASE j \in DOMAIN l.rx /\ r[j] = l.rx[j]
    BY <1>16, <2>1 DEF Under
  <2>2. CASE r[j] > l.received
    <3>1. s[i] \in Nat /\ s[i] <= l.received /\ r[j] \in Nat
      BY <1>13, <1>16
    <3> QED
      BY <1>2, <2>2, <3>1
  <2> QED
    BY <1>11, <2>1, <2>2
<1>17. Under(got, r)
  BY <1>3, <1>12, <1>16 DEF OctetInv
<1>18. CopyInv(m)
  <2>1. CopyInv(l)
    BY <1>3 DEF OctetInv
  <2>2. CASE l.running # "claimed"
    BY <1>10, <2>1, <2>2 DEF CopyInv
  <2>3. CASE l.running = "claimed" /\ l.claimed = 0 /\ Under(l.copy, l.rx)
    <3>1. Under(l.copy, r)
      BY <1>12, <1>16, <2>3
    <3> QED
      BY <1>10, <2>3, <3>1 DEF CopyInv
  <2>4. CASE /\ l.running = "claimed" /\ l.claimed = Len(l.copy) /\ l.claimed <= Len(l.rx)
             /\ \A i \in 1 .. l.claimed : l.copy[i] = l.rx[i]
    <3>1. l.claimed \in Nat /\ l.claimed <= Len(r)
      BY <1>2, <1>4, <1>7, <2>4
    <3>2. ASSUME NEW i \in 1 .. l.claimed PROVE l.copy[i] = r[i]
      <4>1. i \in 1 .. Len(r) /\ i <= Len(l.rx)
        BY <1>4, <1>7, <2>4, <3>1
      <4>2. r[i] = l.rx[i]
        BY <1>8, <4>1
      <4> QED
        BY <2>4, <4>2
    <3> QED
      BY <1>10, <2>4, <3>1, <3>2 DEF CopyInv
  <2> QED
    BY <2>1, <2>2, <2>3, <2>4 DEF CopyInv
<1>19. OctetInv(m, got)
  <2>1. m.received = Len(got) + Len(m.rx) + m.rx_drop_count + m.lost
    <3>1. Len(got) \in Nat
      BY <1>3
    <3>2. l.received = Len(got) + Len(l.rx) + l.rx_drop_count + l.lost
      BY <1>3 DEF OctetInv
    <3>3. /\ m.received = l.received + n /\ m.rx_drop_count = l.rx_drop_count + (n - put) /\ m.lost = l.lost
          /\ Len(m.rx) = Len(l.rx) + put
      BY <1>7, <1>10
    <3> DEFINE g == Len(got)
               x == Len(l.rx)
    <3>4. /\ g \in Int /\ x \in Int /\ l.received \in Int /\ l.rx_drop_count \in Int /\ l.lost \in Int
          /\ n \in Int /\ put \in Int
      BY <1>2, <1>4, <3>1
    <3>5. l.received = g + x + l.rx_drop_count + l.lost
      BY <3>2
    <3> HIDE DEF g, x
    <3>6. l.received + n = g + (x + put) + (l.rx_drop_count + (n - put)) + l.lost
      BY <3>4, <3>5
    <3> USE DEF g, x
    <3> QED
      BY <3>3, <3>6
  <2>2. Len(m.rx) <= L2capRing
    BY <1>4, <1>7, <1>10
  <2>3. got \in Seq(Nat) /\ Rises(got) /\ Rises(m.copy) /\ Under(got, m.copy)
    BY <1>3, <1>10 DEF OctetInv
  <2> QED
    BY <1>10, <1>14, <1>15, <1>17, <1>18, <2>1, <2>2, <2>3 DEF OctetInv
<1>20. FetchInv(m)
  BY <1>6, <1>10 DEF FetchInv
<1>21. NewsInv(m, application.view)
  BY <1>2, <1>10, RecvNews DEF BleStreamInv
<1>22. l2cap' = m
  BY <1>1 DEF m
<1> QED
  BY <1>1, <1>10, <1>19, <1>20, <1>21, <1>22 DEF BleStreamInv

\* What a step has to keep when it leaves the channel alone, and what the application sees of it.
LEMMA ChannelAlone ==
  ASSUME BleStreamInv, BleShapes', l2cap' = l2cap, application'.got = application.got,
         application'.view = application.view
  PROVE  BleStreamInv'
BY DEF BleStreamInv

\* Nothing is ever sent: the transmit ring has no room.
LEMMA BleSendKept == ASSUME BleStreamInv, BleShapes', Send PROVE BleStreamInv'
<1>1. PICK size \in SendSizes :
        LET accepts == l2cap.connected /\ size <= L2capTxRing - Len(l2cap.tx)
            put == [l2cap EXCEPT !.tx = @ \o [i \in 1..size |-> 0]]
        IN /\ l2cap' = IF accepts THEN TxCheck(put) ELSE l2cap
           /\ application' = [application EXCEPT !.call = [op |-> "send", size |-> size, accepted |-> accepts]]
  BY DEF Send
<1>2. application'.got = application.got /\ application'.view = application.view
  <2>1. BleShapes
    BY DEF BleStreamInv
  <2>2. PICK accepts : application' = [application EXCEPT !.call = [op |-> "send", size |-> size, accepted |-> accepts]]
    BY <1>1
  <2> QED
    BY <2>1, <2>2 DEF BleShapes
<1>3. l2cap \in L2capRecord /\ l2cap.tx = <<>> /\ size \in Nat /\ L2capTxRing = 0
  BY BleAssumption DEF BleStreamInv, L2capRecord
<1>4. l2cap' = l2cap
  <2>1. CASE ~(l2cap.connected /\ size <= L2capTxRing - Len(l2cap.tx))
    BY <1>1, <2>1
  <2>2. CASE l2cap.connected /\ size <= L2capTxRing - Len(l2cap.tx)
    <3>1. size = 0 /\ [i \in 1 .. size |-> 0] = <<>>
      BY <1>3, <2>2
    <3>2. l2cap.tx \o [i \in 1 .. size |-> 0] = <<>>
      BY <1>3, <3>1
    <3>3. [l2cap EXCEPT !.tx = l2cap.tx \o [i \in 1 .. size |-> 0]] = l2cap
      BY <1>3, <3>2 DEF L2capRecord
    <3>4. TxCheck(l2cap) = l2cap
      BY <1>3 DEF TxCheck
    <3> QED
      BY <1>1, <2>2, <3>3, <3>4
  <2> QED
    BY <2>1, <2>2
<1> QED
  BY <1>2, <1>4, ChannelAlone

\* The application is told.
LEMMA RunNotificationKept == ASSUME BleStreamInv, BleShapes', RunNotification PROVE BleStreamInv'
<1> DEFINE l == l2cap
           m == [l EXCEPT !.queue = Tail(@)]
<1>1. /\ l.running = None /\ l.queue # <<>> /\ Head(l.queue) \in {"connected", "disconnected"}
      /\ l2cap' = m /\ application' = [application EXCEPT !.view = Head(l.queue)]
  BY DEF RunNotification
<1>2. l \in L2capRecord /\ l.queue \in Seq(BleWorks)
  BY DEF BleStreamInv, L2capRecord
<1>3. Tail(l.queue) \in Seq(BleWorks)
  BY <1>1, <1>2
<1>4. /\ m \in L2capRecord /\ m.rx = l.rx /\ m.received = l.received /\ m.rx_drop_count = l.rx_drop_count
      /\ m.lost = l.lost /\ m.claimed = l.claimed /\ m.copy = l.copy /\ m.running = l.running
      /\ m.connected = l.connected /\ m.queue = Tail(l.queue) /\ m.merged = l.merged
  <2>1. m \in L2capRecord
    BY <1>2, <1>3, L2capUpdate
  <2> QED
    BY <1>2, <2>1 DEF L2capRecord
<1>5. application'.got = application.got /\ application'.view = Head(l.queue)
  <2>1. BleShapes
    BY DEF BleStreamInv
  <2> QED
    BY <1>1, <2>1 DEF BleShapes
<1> HIDE DEF m
<1>6. OctetInv(m, application.got)
  BY <1>4, SameOctets DEF BleStreamInv
<1>7. FetchInv(m)
  <2>1. ASSUME Waits(l.queue, "recv") PROVE Waits(Tail(l.queue), "recv")
    <3>1. PICK i \in DOMAIN l.queue : l.queue[i] = "recv"
      BY <2>1 DEF Waits
    <3>2. /\ Len(Tail(l.queue)) = Len(l.queue) - 1 /\ Head(l.queue) = l.queue[1] /\ i \in 1 .. Len(l.queue)
          /\ \A j \in 1 .. Len(l.queue) - 1 : Tail(l.queue)[j] = l.queue[j + 1]
      BY <1>1, <1>2
    <3>3. i # 1
      BY <1>1, <3>1, <3>2
    <3>4. Len(l.queue) \in Nat /\ i \in Nat
      BY <1>2, <3>2
    <3>5. i - 1 \in 1 .. Len(l.queue) - 1 /\ (i - 1) + 1 = i
      BY <3>2, <3>3, <3>4
    <3>6. Tail(l.queue)[i - 1] = "recv" /\ i - 1 \in DOMAIN Tail(l.queue)
      <4>1. Tail(l.queue)[i - 1] = l.queue[(i - 1) + 1]
        BY <3>2, <3>5
      <4>2. DOMAIN Tail(l.queue) = 1 .. Len(Tail(l.queue))
        BY <1>3
      <4> QED
        BY <3>1, <3>2, <3>5, <4>1, <4>2
    <3> QED
      BY <3>6 DEF Waits
  <2> QED
    BY <1>4, <2>1 DEF BleStreamInv, FetchInv
<1>8. NewsInv(m, Head(l.queue))
  <2>1. NewsInv(m, IF Head(l.queue) = "recv" THEN application.view ELSE Head(l.queue))
    BY <1>1, <1>2, <1>4, TakeNews DEF BleStreamInv
  <2>2. Head(l.queue) # "recv"
    BY <1>1
  <2> QED
    BY <2>1, <2>2
<1> QED
  BY <1>1, <1>4, <1>5, <1>6, <1>7, <1>8 DEF BleStreamInv

\* The work begins to fetch.
LEMMA RunRecvKept == ASSUME BleStreamInv, BleShapes', RunRecv PROVE BleStreamInv'
<1> DEFINE l == l2cap
           m1 == [l EXCEPT !.queue = Tail(l.queue)]
           m == [m1 EXCEPT !.running = "recv"]
<1>1. l.running = None /\ l.queue # <<>> /\ Head(l.queue) = "recv" /\ l2cap' = m /\ UNCHANGED application
  BY DEF RunRecv
<1>2. l \in L2capRecord /\ l.queue \in Seq(BleWorks)
  BY DEF BleStreamInv, L2capRecord
<1>3. Tail(l.queue) \in Seq(BleWorks)
  BY <1>1, <1>2
<1>4. /\ m \in L2capRecord /\ m.rx = l.rx /\ m.received = l.received /\ m.rx_drop_count = l.rx_drop_count
      /\ m.lost = l.lost /\ m.claimed = l.claimed /\ m.copy = l.copy /\ m.running = "recv"
      /\ m.connected = l.connected /\ m.queue = Tail(l.queue) /\ m.merged = l.merged
  <2>1. m1 \in L2capRecord
    BY <1>2, <1>3, L2capUpdate
  <2>2. m \in L2capRecord
    <3> HIDE DEF m1
    <3> QED
      BY <2>1, L2capUpdate
  <2> QED
    BY <1>2, <2>2 DEF L2capRecord
<1> HIDE DEF m
<1>5. l.running # "claimed" /\ m.running # "claimed" /\ m.running # None
  BY <1>1, <1>4 DEF None
<1>6. OctetInv(m, application.got)
  BY <1>4, <1>5, SameOctets DEF BleStreamInv
<1>7. FetchInv(m)
  BY <1>5 DEF FetchInv
<1>8. NewsInv(m, application.view)
  <2>1. NewsInv(m, IF Head(l.queue) = "recv" THEN application.view ELSE Head(l.queue))
    BY <1>1, <1>2, <1>4, TakeNews DEF BleStreamInv
  <2> QED
    BY <1>1, <2>1
<1> QED
  BY <1>1, <1>4, <1>6, <1>7, <1>8 DEF BleStreamInv

\* The work takes a copy of the first octets of the ring, or finds it empty.
LEMMA RecvClaimKept == ASSUME BleStreamInv, BleShapes', RecvClaim PROVE BleStreamInv'
<1> DEFINE l == l2cap
           n == IF Len(l.rx) > RecvChunk THEN RecvChunk ELSE Len(l.rx)
           got == application.got
<1>1. /\ l.running = "recv" /\ UNCHANGED application
      /\ l2cap' = IF n = 0 THEN [l EXCEPT !.running = None]
                  ELSE [l EXCEPT !.running = "claimed", !.claimed = n, !.copy = SubSeq(l.rx, 1, n)]
  BY DEF RecvClaim
<1>2. l \in L2capRecord /\ l.rx \in Seq(Nat) /\ Len(l.rx) \in Nat
  BY DEF BleStreamInv, L2capRecord
<1>3. n \in Nat /\ n <= Len(l.rx) /\ (n = 0 => Len(l.rx) = 0)
  <2>1. RecvChunk \in Nat /\ RecvChunk # 0
    BY BleAssumption
  <2> QED
    BY <1>2, <2>1
<1>4. OctetInv(l, got) /\ FetchInv(l) /\ NewsInv(l, application.view)
  BY DEF BleStreamInv
<1>5. l.claimed = 0 /\ l.copy = <<>>
  BY <1>1, <1>4 DEF OctetInv, CopyInv
<1> HIDE DEF n
<1>6. CASE n = 0
  <2> DEFINE m == [l EXCEPT !.running = None]
  <2>1. /\ m \in L2capRecord /\ m.rx = l.rx /\ m.received = l.received /\ m.rx_drop_count = l.rx_drop_count
        /\ m.lost = l.lost /\ m.claimed = l.claimed /\ m.copy = l.copy /\ m.running = None
        /\ m.connected = l.connected /\ m.queue = l.queue /\ m.merged = l.merged
    <3>1. m \in L2capRecord
      BY <1>2, L2capUpdate
    <3> QED
      BY <1>2, <3>1 DEF L2capRecord
  <2>2. l2cap' = m
    BY <1>1, <1>6
  <2> HIDE DEF m
  <2>3. OctetInv(m, got)
    <3>1. m.running # "claimed" /\ l.running # "claimed"
      BY <1>1, <2>1 DEF None
    <3> QED
      BY <1>4, <2>1, <3>1, SameOctets
  <2>4. FetchInv(m)
    <3>1. l.rx = <<>>
      BY <1>2, <1>3, <1>6
    <3> QED
      BY <2>1, <3>1 DEF FetchInv
  <2>5. NewsInv(m, application.view)
    BY <1>4, <2>1 DEF NewsInv
  <2> QED
    BY <1>1, <2>1, <2>2, <2>3, <2>4, <2>5 DEF BleStreamInv
<1>7. CASE n # 0
  <2> DEFINE copy == SubSeq(l.rx, 1, n)
             m1 == [l EXCEPT !.running = "claimed"]
             m2 == [m1 EXCEPT !.claimed = n]
             m == [m2 EXCEPT !.copy = copy]
  <2>1. copy \in Seq(Nat) /\ Len(copy) = n /\ \A i \in 1 .. n : copy[i] = l.rx[i] /\ i \in DOMAIN l.rx
    BY <1>2, <1>3
  <2> HIDE DEF copy
  <2>2. l2cap' = m
    BY <1>1, <1>7 DEF copy
  <2>3. /\ m \in L2capRecord /\ m.rx = l.rx /\ m.received = l.received /\ m.rx_drop_count = l.rx_drop_count
        /\ m.lost = l.lost /\ m.claimed = n /\ m.copy = copy /\ m.running = "claimed"
        /\ m.connected = l.connected /\ m.queue = l.queue /\ m.merged = l.merged
    <3>1. m1 \in L2capRecord
      BY <1>2, L2capUpdate
    <3>2. m2 \in L2capRecord
      <4> HIDE DEF m1
      <4> QED
        BY <1>3, <3>1, L2capUpdate
    <3>3. m \in L2capRecord
      <4> HIDE DEF m2
      <4> QED
        BY <2>1, <3>2, L2capUpdate
    <3> QED
      BY <1>2, <3>3 DEF L2capRecord
  <2> HIDE DEF m
  <2>4. DOMAIN copy = 1 .. n
    BY <2>1
  <2>5. Rises(copy) /\ UpTo(copy, l.received) /\ Under(got, copy)
    <3>1. Rises(l.rx) /\ UpTo(l.rx, l.received) /\ Under(got, l.rx)
      BY <1>4 DEF OctetInv
    <3> QED
      BY <2>1, <2>4, <3>1 DEF Rises, UpTo, Under
  <2>6. CopyInv(m)
    BY <1>3, <2>1, <2>3 DEF CopyInv
  <2>7. OctetInv(m, got)
    BY <1>4, <2>3, <2>5, <2>6 DEF OctetInv
  <2>8. FetchInv(m)
    BY <2>3 DEF FetchInv, None
  <2>9. NewsInv(m, application.view)
    BY <1>4, <2>3 DEF NewsInv
  <2> QED
    BY <1>1, <2>2, <2>3, <2>7, <2>8, <2>9 DEF BleStreamInv
<1> QED
  BY <1>6, <1>7

\* The application gets the copy, and what is still in the ring of it is removed.
LEMMA RecvDeliverKept == ASSUME BleStreamInv, BleShapes', RecvDeliver PROVE BleStreamInv'
<1> DEFINE l == l2cap
           got == application.got
           rest == SubSeq(l.rx, l.claimed + 1, Len(l.rx))
           lost == l.lost - (Len(l.copy) - l.claimed)
           m1 == [l EXCEPT !.running = "recv"]
           m2 == [m1 EXCEPT !.rx = rest]
           m3 == [m2 EXCEPT !.lost = lost]
           m4 == [m3 EXCEPT !.claimed = 0]
           m == [m4 EXCEPT !.copy = <<>>]
           more == got \o l.copy
<1>1. l.running = "claimed" /\ l2cap' = m /\ application' = [application EXCEPT !.got = @ \o l.copy]
  BY DEF RecvDeliver
<1>2. /\ l \in L2capRecord /\ l.rx \in Seq(Nat) /\ l.copy \in Seq(Nat) /\ l.claimed \in Nat /\ l.lost \in Int
      /\ Len(l.rx) \in Nat /\ Len(l.copy) \in Nat /\ l.received \in Nat /\ l.rx_drop_count \in Nat
  BY DEF BleStreamInv, L2capRecord
<1>3. OctetInv(l, got) /\ FetchInv(l) /\ NewsInv(l, application.view) /\ got \in Seq(Nat) /\ Len(got) \in Nat
  BY DEF BleStreamInv, OctetInv
<1>4. application'.got = more /\ application'.view = application.view
  <2>1. BleShapes
    BY DEF BleStreamInv
  <2> QED
    BY <1>1, <2>1 DEF BleShapes
<1>5. CopyInv(l) /\ l.claimed <= Len(l.rx)
  <2>1. CopyInv(l)
    BY <1>3 DEF OctetInv
  <2> QED
    BY <1>1, <1>2, <2>1 DEF CopyInv
<1>6. /\ rest \in Seq(Nat) /\ Len(rest) = Len(l.rx) - l.claimed
      /\ \A i \in 1 .. Len(l.rx) - l.claimed : rest[i] = l.rx[l.claimed + i]
  <2> DEFINE c == l.claimed
             x == Len(l.rx)
  <2>1. c \in Nat /\ x \in Nat /\ c <= x
    BY <1>2, <1>5
  <2>2. rest = SubSeq(l.rx, c + 1, x)
    OBVIOUS
  <2>3. \A i \in 1 .. x - c : c + i \in 1 .. Len(l.rx)
    <3>1. x = Len(l.rx)
      OBVIOUS
    <3> HIDE DEF c, x
    <3> QED
      BY <2>1, <3>1
  <2>4. \A i \in 1 .. x - c : l.rx[c + i] \in Nat
    <3> HIDE DEF c, x
    <3> QED
      BY <1>2, <2>3
  <2> HIDE DEF rest, c, x
  <2>5. rest = [i \in 1 .. x - c |-> l.rx[c + i]]
    BY <2>1, <2>2
  <2>6. x - c \in Nat
    BY <2>1
  <2>7. rest \in Seq(Nat) /\ Len(rest) = x - c /\ \A i \in 1 .. x - c : rest[i] = l.rx[c + i]
    BY <2>4, <2>5, <2>6
  <2> QED
    BY <2>7 DEF c, x
<1>7. lost \in Int
  BY <1>2
<1> HIDE DEF rest, lost
<1>8. /\ m \in L2capRecord /\ m.rx = rest /\ m.received = l.received /\ m.rx_drop_count = l.rx_drop_count
      /\ m.lost = lost /\ m.claimed = 0 /\ m.copy = <<>> /\ m.running = "recv"
      /\ m.connected = l.connected /\ m.queue = l.queue /\ m.merged = l.merged
  <2>1. m1 \in L2capRecord
    BY <1>2, L2capUpdate
  <2>2. m2 \in L2capRecord
    <3> HIDE DEF m1
    <3> QED
      BY <1>6, <2>1, L2capUpdate
  <2>3. m3 \in L2capRecord
    <3> HIDE DEF m2
    <3> QED
      BY <1>7, <2>2, L2capUpdate
  <2>4. m4 \in L2capRecord
    <3> HIDE DEF m3
    <3> QED
      BY <2>3, L2capUpdate
  <2>5. m \in L2capRecord
    <3>1. <<>> \in Seq(Nat)
      OBVIOUS
    <3> HIDE DEF m4
    <3> QED
      BY <2>4, <3>1, L2capUpdate
  <2> QED
    BY <1>2, <2>5 DEF L2capRecord
<1> HIDE DEF m
<1>9. /\ more \in Seq(Nat) /\ Len(more) = Len(got) + Len(l.copy)
      /\ \A i \in 1 .. Len(got) + Len(l.copy) :
           more[i] = IF i <= Len(got) THEN got[i] ELSE l.copy[i - Len(got)]
  <2>1. more = got \o l.copy
    OBVIOUS
  <2> HIDE DEF more
  <2> QED
    BY <1>2, <1>3, <2>1, JoinFacts
<1> HIDE DEF more
<1>10. \A i \in DOMAIN more : \/ i \in DOMAIN got /\ more[i] = got[i] /\ i <= Len(got)
                              \/ /\ i > Len(got) /\ i - Len(got) \in DOMAIN l.copy
                                 /\ more[i] = l.copy[i - Len(got)]
  <2> SUFFICES ASSUME NEW i \in DOMAIN more
               PROVE  \/ i \in DOMAIN got /\ more[i] = got[i] /\ i <= Len(got)
                      \/ /\ i > Len(got) /\ i - Len(got) \in DOMAIN l.copy
                         /\ more[i] = l.copy[i - Len(got)]
    OBVIOUS
  <2>1. i \in 1 .. Len(got) + Len(l.copy) /\ i \in Nat
    <3>1. DOMAIN more = 1 .. Len(more)
      BY <1>9
    <3>2. i \in 1 .. Len(more)
      BY <3>1
    <3>3. Len(more) = Len(got) + Len(l.copy)
      BY <1>9
    <3>4. i \in 1 .. Len(got) + Len(l.copy)
      BY <3>2, <3>3
    <3>5. i \in Nat
      BY <3>2
    <3> QED
      BY <3>4, <3>5
  <2>2. DOMAIN got = 1 .. Len(got) /\ DOMAIN l.copy = 1 .. Len(l.copy)
    BY <1>2, <1>3
  <2>3. CASE i <= Len(got)
    <3>1. i \in DOMAIN got
      BY <1>3, <2>1, <2>2, <2>3
    <3> QED
      BY <1>9, <2>1, <2>3, <3>1
  <2>4. CASE ~(i <= Len(got))
    <3>1. i > Len(got) /\ i - Len(got) \in DOMAIN l.copy
      <4> DEFINE g == Len(got)
                 y == Len(l.copy)
      <4>1. g \in Nat /\ y \in Nat /\ i \in 1 .. g + y /\ ~(i <= g)
        BY <1>2, <1>3, <2>1, <2>4
      <4> HIDE DEF g, y
      <4>2. i > g /\ i - g \in 1 .. y
        BY <4>1
      <4> USE DEF g, y
      <4> QED
        BY <2>2, <4>2
    <3> QED
      BY <1>9, <2>1, <2>4, <3>1
  <2> QED
    BY <2>3, <2>4
<1>11. \A i \in DOMAIN rest : l.claimed + i \in DOMAIN l.rx /\ rest[i] = l.rx[l.claimed + i]
  <2> SUFFICES ASSUME NEW i \in DOMAIN rest
               PROVE  l.claimed + i \in DOMAIN l.rx /\ rest[i] = l.rx[l.claimed + i]
    OBVIOUS
  <2>1. DOMAIN rest = 1 .. Len(l.rx) - l.claimed /\ DOMAIN l.rx = 1 .. Len(l.rx)
    BY <1>2, <1>6
  <2>2. l.claimed + i \in 1 .. Len(l.rx)
    BY <1>2, <1>5, <2>1
  <2> QED
    BY <1>6, <2>1, <2>2
<1>12. /\ Rises(got) /\ Rises(l.rx) /\ Rises(l.copy) /\ UpTo(got, l.received) /\ UpTo(l.rx, l.received)
       /\ UpTo(l.copy, l.received) /\ Under(got, l.rx) /\ Under(got, l.copy) /\ Len(l.rx) <= L2capRing
  BY <1>3 DEF OctetInv
<1>13. Rises(more)
  <2> SUFFICES ASSUME NEW i \in DOMAIN more, NEW j \in DOMAIN more, i < j PROVE more[i] < more[j]
    BY DEF Rises
  <2>0. i \in Nat /\ j \in Nat
    BY <1>9
  <2>1. CASE i <= Len(got) /\ j <= Len(got)
    BY <1>3, <1>10, <1>12, <2>0, <2>1 DEF Rises
  <2>2. CASE i <= Len(got) /\ j > Len(got)
    BY <1>3, <1>10, <1>12, <2>0, <2>2 DEF Under
  <2>3. CASE i > Len(got) /\ j > Len(got)
    <3>1. /\ i - Len(got) \in DOMAIN l.copy /\ j - Len(got) \in DOMAIN l.copy /\ i - Len(got) < j - Len(got)
          /\ more[i] = l.copy[i - Len(got)] /\ more[j] = l.copy[j - Len(got)]
      BY <1>3, <1>10, <2>0, <2>3
    <3> QED
      BY <1>12, <3>1 DEF Rises
  <2> QED
    BY <1>3, <2>0, <2>1, <2>2, <2>3
<1>14. Rises(rest)
  <2> SUFFICES ASSUME NEW i \in DOMAIN rest, NEW j \in DOMAIN rest, i < j PROVE rest[i] < rest[j]
    BY DEF Rises
  <2>0. i \in Nat /\ j \in Nat
    BY <1>6
  <2>1. l.claimed + i < l.claimed + j
    BY <1>2, <2>0
  <2> QED
    BY <1>11, <1>12, <2>1 DEF Rises
<1>15. UpTo(more, l.received) /\ UpTo(rest, l.received)
  BY <1>10, <1>11, <1>12 DEF UpTo
<1>16. Under(l.copy, rest)
  <2>1. CASE l.claimed = 0 /\ Under(l.copy, l.rx)
    BY <1>11, <2>1 DEF Under
  <2>2. CASE /\ l.claimed = Len(l.copy) /\ l.claimed <= Len(l.rx)
             /\ \A i \in 1 .. l.claimed : l.copy[i] = l.rx[i]
    <3> SUFFICES ASSUME NEW i \in DOMAIN l.copy, NEW j \in DOMAIN rest PROVE l.copy[i] < rest[j]
      BY DEF Under
    <3>0. i \in Nat /\ i \in 1 .. Len(l.copy) /\ j \in 1 .. Len(rest) /\ j \in Nat /\ j >= 1
      <4>1. DOMAIN l.copy = 1 .. Len(l.copy)
        BY <1>2
      <4>2. DOMAIN rest = 1 .. Len(rest)
        BY <1>6
      <4> QED
        BY <4>1, <4>2
    <3>1. i \in 1 .. l.claimed /\ i \in DOMAIN l.rx /\ j \in Nat /\ j >= 1
      <4>1. DOMAIN l.rx = 1 .. Len(l.rx)
        BY <1>2
      <4> QED
        BY <1>2, <2>2, <3>0, <4>1
    <3>2. l.rx[i] < l.rx[l.claimed + j]
      <4>1. i < l.claimed + j
        BY <1>2, <3>1, <3>0
      <4> QED
        BY <1>11, <1>12, <3>1, <4>1 DEF Rises
    <3> QED
      BY <1>11, <2>2, <3>1, <3>2
  <2> QED
    BY <1>1, <1>5, <2>1, <2>2 DEF CopyInv
<1>17. Under(more, rest)
  <2> SUFFICES ASSUME NEW i \in DOMAIN more, NEW j \in DOMAIN rest PROVE more[i] < rest[j]
    BY DEF Under
  <2>1. CASE i \in DOMAIN got /\ more[i] = got[i]
    BY <1>11, <1>12, <2>1 DEF Under
  <2>2. CASE i - Len(got) \in DOMAIN l.copy /\ more[i] = l.copy[i - Len(got)]
    BY <1>16, <2>2 DEF Under
  <2> QED
    BY <1>10, <2>1, <2>2
<1>18. l.received = Len(more) + Len(rest) + l.rx_drop_count + lost
  <2> DEFINE g == Len(got)
             x == Len(l.rx)
             y == Len(l.copy)
             c == l.claimed
  <2>1. l.received = g + x + l.rx_drop_count + l.lost
    BY <1>3 DEF OctetInv
  <2>2. Len(more) = g + y /\ Len(rest) = x - c /\ lost = l.lost - (y - c)
    BY <1>6, <1>9 DEF lost
  <2>3. g \in Nat /\ x \in Nat /\ y \in Nat /\ c \in Nat
    BY <1>2, <1>3
  <2>4. l.received \in Nat /\ l.rx_drop_count \in Nat /\ l.lost \in Int
    BY <1>2
  <2> HIDE DEF g, x, y, c
  <2>5. l.received = (g + y) + (x - c) + l.rx_drop_count + (l.lost - (y - c))
    BY <2>1, <2>3, <2>4
  <2> QED
    BY <2>2, <2>5
<1>19. OctetInv(m, more)
  <2>1. /\ Rises(m.copy) /\ UpTo(m.copy, m.received) /\ Under(more, m.copy) /\ CopyInv(m)
    BY <1>8 DEF Rises, UpTo, Under, CopyInv
  <2>2. Len(m.rx) <= L2capRing
    <3>1. L2capRing \in Nat /\ Len(rest) = Len(l.rx) - l.claimed
      BY <1>6, BleAssumption
    <3>2. Len(rest) <= L2capRing
      BY <1>2, <1>12, <3>1
    <3> QED
      BY <1>8, <3>2
  <2> QED
    BY <1>8, <1>9, <1>13, <1>14, <1>15, <1>17, <1>18, <2>1, <2>2 DEF OctetInv
<1>20. FetchInv(m)
  BY <1>8 DEF FetchInv, None
<1>21. NewsInv(m, application.view)
  BY <1>3, <1>8 DEF NewsInv
<1> QED
  BY <1>1, <1>4, <1>8, <1>19, <1>20, <1>21 DEF BleStreamInv

\* A step of the connections or of a call to the host leaves the channel alone.
LEMMA HostAlone ==
  ASSUME BleShapes, BleShapes',
         HostNext \/ \E c \in Conns : Connect(c) \/ Disconnected(c)
  PROVE  l2cap' = l2cap /\ application'.got = application.got /\ application'.view = application.view
<1>1. CASE ConnectFailed \/ Disconnect \/ StopAdvertising \/ SetServiceUuid \/ SetManufacturerData \/ StartAdvertising
  BY <1>1 DEF ConnectFailed, Disconnect, StopAdvertising, SetServiceUuid, SetManufacturerData, StartAdvertising
<1>2. CASE \E c \in Conns : Connect(c) \/ Disconnected(c)
  <2>1. PICK s : application' = [application EXCEPT !.conns = s] /\ UNCHANGED l2cap
    BY <1>2 DEF Connect, Disconnected
  <2> QED
    BY <2>1 DEF BleShapes
<1>3. CASE SetAdvertisingTxPower \/ SetConnectionTxPower \/ GetVersion
  <2>1. PICK s : application' = [application EXCEPT !.call = s] /\ UNCHANGED l2cap
    BY <1>3 DEF SetAdvertisingTxPower, SetConnectionTxPower, SetPower, GetVersion
  <2> QED
    BY <2>1 DEF BleShapes
<1> QED
  BY <1>1, <1>2, <1>3 DEF HostNext

\* Every step keeps the account of the octets.
LEMMA BleStreamKept == ASSUME BleStreamInv, BleShapes', [BleNext]_bleVars PROVE BleStreamInv'
<1>1. CASE UNCHANGED bleVars
  BY <1>1, ChannelAlone DEF bleVars
<1>2. CASE HostNext \/ \E c \in Conns : Connect(c) \/ Disconnected(c)
  <2>1. BleShapes
    BY DEF BleStreamInv
  <2> QED
    BY <1>2, <2>1, HostAlone, ChannelAlone
<1>3. CASE StreamNext
  BY <1>3, BleSendKept, ChanConnectedKept, ChanDisconnectedKept, ChanRecvKept, RunNotificationKept, RunRecvKept,
     RecvClaimKept, RecvDeliverKept DEF StreamNext
<1> QED
  BY <1>1, <1>2, <1>3 DEF BleNext

\* When the queue has run dry nothing is left to fetch, and the last news was told.
LEMMA BleInvFaithful == ASSUME ConnInv, BleStreamInv PROVE BleFaithful
<1>1. ConnectionsKnown
  BY DEF ConnInv, CallTrue, ConnectionsKnown
<1>2. OctetInv(l2cap, application.got) /\ FetchInv(l2cap) /\ NewsInv(l2cap, application.view)
  BY DEF BleStreamInv
<1>3. /\ \A i, j \in DOMAIN application.got : i < j => application.got[i] < application.got[j]
      /\ l2cap.received = Len(application.got) + Len(l2cap.rx) + l2cap.rx_drop_count + l2cap.lost
  BY <1>2 DEF OctetInv, Rises
<1>4. ASSUME l2cap.queue = <<>>, l2cap.running = None
      PROVE  l2cap.rx = <<>> /\ (l2cap.merged \/ (application.view = "connected" <=> l2cap.connected))
  <2>1. l2cap.rx = <<>>
    BY <1>2, <1>4 DEF FetchInv, Waits
  <2>2. ASSUME ~l2cap.merged PROVE application.view = "connected" <=> l2cap.connected
    <3>1. PICK i \in 0 .. Len(l2cap.queue) :
            (IF i = 0 THEN application.view ELSE l2cap.queue[i]) = (IF l2cap.connected THEN "connected" ELSE "disconnected")
      BY <1>2, <2>2 DEF NewsInv
    <3>2. i = 0
      BY <1>4
    <3> QED
      BY <3>1, <3>2
  <2> QED
    BY <2>1, <2>2
<1> QED
  BY <1>1, <1>3, <1>4 DEF BleFaithful, StreamInOrder

\* What the channel hands to the application is what the peer sent, once and in
\* order, and every octet that it does not hand over is accounted for; no
\* connection is forgotten, and what a call answered is so (fd_ble.c, fd_ble_l2cap.c).
THEOREM BleSafe == BleSpec => []BleFaithful
<1>1. BleInit => ConnInv /\ BleStreamInv
  BY ConnStarts, BleStreamStarts
<1>2. ConnInv /\ BleStreamInv /\ [BleNext]_bleVars => (ConnInv /\ BleStreamInv)'
  <2> SUFFICES ASSUME ConnInv, BleStreamInv, [BleNext]_bleVars PROVE ConnInv' /\ BleStreamInv'
    OBVIOUS
  <2>1. ConnInv'
    BY ConnKept
  <2>2. BleShapes'
    BY <2>1 DEF ConnInv
  <2> QED
    BY <2>1, <2>2, BleStreamKept
<1>3. ConnInv /\ BleStreamInv => BleFaithful
  BY BleInvFaithful
<1> QED
  BY <1>1, <1>2, <1>3, PTL DEF BleSpec
=============================================================================
