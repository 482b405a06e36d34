--------------------------- MODULE RpcStreamProofs ---------------------------
(***************************************************************************)
(* RpcStream delivers every chunk once and in order, and the work queue    *)
(* sends only when the last data was acknowledged, until the host asks for *)
(* a second connection: for any number of writes, any size of the ring,    *)
(* whatever the network loses, delays and reorders, and whatever it        *)
(* duplicates but the connect request and its response.  Writes of a host  *)
(* that is not connected yet are allowed.                                  *)
(*                                                                         *)
(* The argument follows the datagrams.  Each side of a connection has sent *)
(* at most one chunk under each number, and under none above its own send  *)
(* number; every data datagram in flight is one of those and every         *)
(* acknowledgement in flight is of a number the other side was given.  So  *)
(* the receiver is at most one chunk ahead of the sender's count, and the  *)
(* semaphore (or the lock) is free only when it is not.                    *)
(***************************************************************************)
EXTENDS RpcStream, TLAPS

Chunk == Nat \cup {NULL}
Datagram == [to : {"device", "host"}, kind : Kinds, seq : Nat \cup {NULL}, chunk : Chunk]
Sent == SUBSET (Nat \X Chunk)
Last == {NoData} \cup [seq : Nat, chunk : Chunk]

\* Every field holds what it should, and every data and every ack has a number.
DeviceRecord ==
    [state : States, receive : Nat, send : Nat, sem : {0, 1}, last : Last,
     connection : Nat, sent : Sent, given : Seq(Chunk)]
HostRecord ==
    [state : States, receive : Nat, send : Nat, lock : BOOLEAN, last : Last,
     connection : Nat, sent : Sent, given : Seq(Chunk)]
Traffic == {m \in Datagram : m.kind \in {"data", "ack", "response"} => m.seq \in Nat}
DeviceTyped == device \in DeviceRecord
HostTyped == host \in HostRecord
NetTyped == net \subseteq Traffic
TxTyped ==
    /\ tx \in [pending : BOOLEAN, ring : Seq(Chunk), claimed : BOOLEAN, chunk : Chunk]
    /\ tx.claimed => tx.ring # << >>
RestTyped ==
    /\ queue \in Seq(Works) /\ outbox \in Seq(Chunk)
    /\ worker \in [work : Works \cup {NULL}, at : {"idle", "take", "send", "check"}]
    /\ written \in [device : Nat, host : Nat] /\ connects \in Nat

Typed == DeviceTyped /\ HostTyped /\ NetTyped /\ TxTyped /\ RestTyped

-----------------------------------------------------------------------------
\* The device before its first connection.
Fresh ==
    /\ \A m \in net : m.to = "device" /\ m.kind \in {"connect", "data"}
    /\ device.state = "disconnected" /\ device.receive = 0 /\ device.send = 0
    /\ device.sem = 1 /\ device.last = NoData /\ device.sent = {} /\ device.given = << >>
    /\ queue = << >> /\ worker = Idle /\ ~opened /\ ~acking /\ tx.ring = << >>

\* There is one request, then one response, then one connection.
Phase ==
    /\ device.connection \in {0, 1} /\ host.connection \in {0, 1}
    /\ \A m \in net : /\ m.kind = "connect" => connects = 1 /\ device.connection = 0
                      /\ m.kind = "connect" => m = Command("device", "connect")
                      /\ m.kind = "response" => m = Message("host", "response", 1, NULL)
                      /\ m.kind = "response" => device.connection = 1 /\ host.connection = 0
    /\ connects = 0 => device.connection = 0
    /\ device.connection = 0 => Fresh /\ host.connection = 0
    /\ host.connection = 0 => host.state = "disconnected"

\* A side has not left its connection.
DeviceUp == device.connection = 1 => device.state = "connected"
HostUp == host.connection = 1 => host.state = "connected"

\* A chunk was sent that is not acknowledged.
Outstanding(s) == \E p \in s.sent : p[1] = s.send

\* One chunk at most under each number, none above the number of now.
Numbered(s) ==
    /\ \A p \in s.sent : p[1] <= s.send
    /\ \A p, q \in s.sent : p[1] = q[1] => p = q

\* What is in flight between a sender and its peer is of what was sent.
Genuine(n, s, sender, peer) ==
    \A m \in n :
        /\ m.to = peer /\ m.kind = "data" => << m.seq, m.chunk >> \in s.sent
        /\ m.to = sender /\ m.kind = "ack" => \E p \in s.sent : p[1] = m.seq

\* What the retry sends.
LastSent(s) == s.last # NoData => << s.last.seq, s.last.chunk >> \in s.sent

Sending(n, s, sender, peer) == Numbered(s) /\ Genuine(n, s, sender, peer) /\ LastSent(s)

\* The semaphore is taken from wait_for_send_ack to receive_ack.
DeviceSends ==
    /\ Sending(net, device, "device", "host")
    /\ Outstanding(device) => device.sem = 0 /\ worker.at # "send"
    /\ worker.at = "send" => device.sem = 0
    /\ ~acking => (device.last # NoData => device.last.seq = device.send)

\* The lock is taken from write to receive_ack.
HostSends ==
    /\ Sending(net, host, "host", "device")
    /\ outbox = << >> \/ Len(outbox) = 1
    /\ writing \/ outbox # << >> \/ Outstanding(host) => host.lock
    /\ writing => outbox = << >>
    /\ writing \/ outbox # << >> => ~Outstanding(host)

\* The receiver was given one chunk for each number, the sender knows of all but
\* perhaps the last, and nothing is acknowledged that was not given.
Delivered(n, s, r, sender) ==
    /\ Len(r.given) = r.receive
    /\ r.receive \in {s.send, s.send + 1}
    /\ r.receive = s.send + 1 => Outstanding(s)
    /\ \A i \in 1 .. r.receive : << i - 1, r.given[i] >> \in s.sent
    /\ \A m \in n : m.to = sender /\ m.kind = "ack" => m.seq < r.receive

FirstConnection ==
    /\ Phase
    /\ DeviceUp => DeviceSends
    /\ HostUp => HostSends
    /\ DeviceUp /\ HostUp =>
          Delivered(net, device, host, "device") /\ Delivered(net, host, device, "host")

StreamInv == connects <= 1 => FirstConnection

-----------------------------------------------------------------------------
(* What a step of one side does to the sender's half of the argument.      *)

\* Nothing new is in flight between the sender and its peer.
NoNews(n, n1, sender, peer) ==
    \A m \in n1 : \/ m.to = peer /\ m.kind = "data"
                  \/ m.to = sender /\ m.kind = "ack"
                  => m \in n

\* The sender's numbers stay, whatever else happens to it.
LEMMA SendingStays ==
  ASSUME NEW n, NEW n1, NEW s, NEW s1, NEW sender, NEW peer,
         Sending(n, s, sender, peer), NoNews(n, n1, sender, peer),
         s1.send = s.send, s1.sent = s.sent, s1.last \in {s.last, NoData}
  PROVE  Sending(n1, s1, sender, peer)
  BY DEF Sending, NoNews, Numbered, Genuine, LastSent

\* send_data with nothing outstanding.
LEMMA SendingMore ==
  ASSUME NEW n, NEW n1, NEW s, NEW s1, NEW sender, NEW peer, NEW c \in Chunk,
         Sending(n, s, sender, peer), s.sent \in Sent, s.send \in Nat, ~Outstanding(s), sender # peer,
         s1.send = s.send, s1.sent = s.sent \cup {<< s.send, c >>},
         s1.last = [seq |-> s.send, chunk |-> c],
         n1 = n \cup {Message(peer, "data", s.send, c)}
  PROVE  Sending(n1, s1, sender, peer) /\ Outstanding(s1)
<1> DEFINE p0 == << s.send, c >>
<1>1. \A p \in s1.sent : p \in s.sent \/ p = p0
  OBVIOUS
<1>2. p0[1] = s.send /\ p0 \in s1.sent
  OBVIOUS
<1>3. \A p \in s.sent : p[1] <= s.send /\ p[1] # s.send
  BY DEF Sending, Numbered, Outstanding
<1>4. Numbered(s1)
  BY <1>1, <1>2, <1>3 DEF Sending, Numbered
<1>5. Genuine(n1, s1, sender, peer)
  <2> SUFFICES ASSUME NEW m \in n1
               PROVE  /\ m.to = peer /\ m.kind = "data" => << m.seq, m.chunk >> \in s1.sent
                      /\ m.to = sender /\ m.kind = "ack" => \E p \in s1.sent : p[1] = m.seq
    BY DEF Genuine
  <2>1. CASE m \in n
    BY <2>1 DEF Sending, Genuine
  <2>2. CASE m = Message(peer, "data", s.send, c)
    BY <1>2, <2>2 DEF Message
  <2> QED
    BY <2>1, <2>2
<1>6. LastSent(s1)
  BY <1>2 DEF LastSent
<1> QED
  BY <1>2, <1>4, <1>5, <1>6 DEF Sending, Outstanding

\* The ack of the outstanding chunk arrives.
LEMMA SendingAcked ==
  ASSUME NEW n, NEW n1, NEW s, NEW s1, NEW sender, NEW peer,
         Sending(n, s, sender, peer), NoNews(n, n1, sender, peer), s.sent \in Sent, s.send \in Nat,
         s1.send = s.send + 1, s1.sent = s.sent, s1.last \in {s.last, NoData}
  PROVE  Sending(n1, s1, sender, peer) /\ ~Outstanding(s1)
<1>1. \A p \in s.sent : p[1] \in Nat /\ p[1] <= s.send
  BY DEF Sending, Numbered, Sent
<1>2. Numbered(s1) /\ ~Outstanding(s1)
  BY <1>1 DEF Sending, Numbered, Outstanding
<1> QED
  BY <1>2 DEF Sending, NoNews, Genuine, LastSent

\* The retry sends the last data once more.
LEMMA SendingAgain ==
  ASSUME NEW n, NEW n1, NEW s, NEW s1, NEW sender, NEW peer,
         Sending(n, s, sender, peer), s.last # NoData, sender # peer,
         s1.send = s.send, s1.sent = s.sent, s1.last = s.last,
         n1 = n \cup {Resend(peer, s.last)}
  PROVE  Sending(n1, s1, sender, peer)
  BY DEF Sending, Numbered, Genuine, LastSent, Resend, Message

\* The peer acknowledges data that is in flight.
LEMMA SendingConfirmed ==
  ASSUME NEW n, NEW n1, NEW s, NEW s1, NEW sender, NEW peer, NEW m \in n,
         Sending(n, s, sender, peer), sender # peer, m.to = peer, m.kind = "data",
         s1.send = s.send, s1.sent = s.sent, s1.last = s.last,
         n1 \subseteq n \cup {Message(sender, "ack", m.seq, NULL)}
  PROVE  Sending(n1, s1, sender, peer)
<1>1. << m.seq, m.chunk >> \in s.sent /\ << m.seq, m.chunk >>[1] = m.seq
  BY DEF Sending, Genuine
<1>2. Genuine(n1, s1, sender, peer)
  <2> SUFFICES ASSUME NEW a \in n1
               PROVE  /\ a.to = peer /\ a.kind = "data" => << a.seq, a.chunk >> \in s1.sent
                      /\ a.to = sender /\ a.kind = "ack" => \E p \in s1.sent : p[1] = a.seq
    BY DEF Genuine
  <2>1. CASE a \in n
    BY <2>1 DEF Sending, Genuine
  <2>2. CASE a = Message(sender, "ack", m.seq, NULL)
    <3>1. a.to # peer /\ a.seq = m.seq
      BY <2>2 DEF Message
    <3> QED
      BY <1>1, <3>1
  <2> QED
    BY <2>1, <2>2
<1> QED
  BY <1>2 DEF Sending, Numbered, LastSent

-----------------------------------------------------------------------------
(* What it does to the receiver's half.                                    *)

NoAcks(n, n1, sender) == \A m \in n1 : m.to = sender /\ m.kind = "ack" => m \in n

\* The receiver is given nothing, the sender may have sent another chunk.
LEMMA DeliveredStays ==
  ASSUME NEW n, NEW n1, NEW s, NEW s1, NEW r, NEW r1, NEW sender,
         Delivered(n, s, r, sender), NoAcks(n, n1, sender),
         s1.send = s.send, s.sent \subseteq s1.sent, r1.receive = r.receive, r1.given = r.given
  PROVE  Delivered(n1, s1, r1, sender)
  BY DEF Delivered, NoAcks, Outstanding

\* The ack in flight is of the number of now: the receiver was given it.
LEMMA DeliveredAcked ==
  ASSUME NEW n, NEW n1, NEW s, NEW s1, NEW r, NEW r1, NEW sender, NEW m \in n,
         Delivered(n, s, r, sender), NoAcks(n, n1, sender),
         m.to = sender, m.kind = "ack", m.seq = s.send, s.send \in Nat, r.receive \in Nat,
         s1.send = s.send + 1, s1.sent = s.sent, r1.receive = r.receive, r1.given = r.given
  PROVE  Delivered(n1, s1, r1, sender)
<1>1. r.receive = s.send + 1
  BY DEF Delivered
<1> QED
  BY <1>1 DEF Delivered, NoAcks, Outstanding

\* The receiver is given the chunk it expects.
LEMMA DeliveredMore ==
  ASSUME NEW n, NEW n1, NEW s, NEW s1, NEW r, NEW r1, NEW sender, NEW peer, NEW m \in n,
         Delivered(n, s, r, sender), Sending(n, s, sender, peer), s.sent \in Sent,
         s.send \in Nat, r.receive \in Nat, r.given \in Seq(Chunk), m.chunk \in Chunk,
         \A a \in n : a.kind = "ack" => a.seq \in Nat,
         m.to = peer, m.kind = "data", m.seq = r.receive,
         n1 \subseteq n \cup {Message(sender, "ack", m.seq, NULL)},
         s1.send = s.send, s1.sent = s.sent,
         r1.receive = r.receive + 1, r1.given = Append(r.given, m.chunk)
  PROVE  Delivered(n1, s1, r1, sender)
<1> DEFINE p0 == << m.seq, m.chunk >>
<1>1. p0 \in s.sent /\ p0[1] = r.receive
  BY DEF Sending, Genuine
<1>2. r.receive <= s.send
  BY <1>1 DEF Sending, Numbered
<1>3. r.receive = s.send /\ Outstanding(s1)
  BY <1>1, <1>2 DEF Delivered, Outstanding
<1>4. Len(r1.given) = r1.receive
  BY DEF Delivered
<1>5. \A i \in 1 .. r1.receive : << i - 1, r1.given[i] >> \in s1.sent
  <2> TAKE i \in 1 .. r1.receive
  <2>1. CASE i \in 1 .. r.receive
    BY <2>1 DEF Delivered
  <2>2. CASE i = r.receive + 1
    <3>1. i - 1 = m.seq /\ r1.given[i] = m.chunk
      BY <2>2 DEF Delivered
    <3> QED
      BY <1>1, <3>1
  <2>3. i \in 1 .. r.receive \/ i = r.receive + 1
    <3> DEFINE now == r.receive
    <3>1. now \in Nat /\ i \in 1 .. now + 1
      OBVIOUS
    <3> HIDE DEF now
    <3>2. i \in 1 .. now \/ i = now + 1
      BY <3>1
    <3> QED
      BY <3>2 DEF now
  <2> QED
    BY <2>1, <2>2, <2>3
<1>6. \A a \in n1 : a.to = sender /\ a.kind = "ack" => a.seq < r1.receive
  <2> TAKE a \in n1
  <2>1. CASE a \in n
    BY <2>1 DEF Delivered
  <2>2. CASE a = Message(sender, "ack", m.seq, NULL)
    BY <2>2 DEF Message
  <2> QED
    BY <2>1, <2>2
<1> QED
  BY <1>3, <1>4, <1>5, <1>6 DEF Delivered

\* The receiver acknowledges once more what it was given before.
LEMMA DeliveredAgain ==
  ASSUME NEW n, NEW n1, NEW s, NEW s1, NEW r, NEW r1, NEW sender, NEW m \in n,
         Delivered(n, s, r, sender), m.seq < r.receive,
         n1 \subseteq n \cup {Message(sender, "ack", m.seq, NULL)},
         s1.send = s.send, s1.sent = s.sent, r1.receive = r.receive, r1.given = r.given
  PROVE  Delivered(n1, s1, r1, sender)
  BY DEF Delivered, Outstanding, Message

-----------------------------------------------------------------------------
(* The types.                                                              *)

\* NULL is no number, so NoData is told from the data a retry sends.
LEMMA NoDataIsNoData ==
  /\ NoData \in Last /\ NULL \notin Nat /\ NULL \in Chunk
  /\ \A last \in Last : last # NoData => last.seq \in Nat /\ last.chunk \in Chunk
  BY ConstantsAssumption DEF NoData, Last, Chunk

\* fd_rpc_stream_disconnect and Stream.disconnect clear everything of the connection
\* but its number.
LEMMA ResetTyped ==
  /\ \A s \in DeviceRecord :
        /\ StreamDisconnect(s) \in DeviceRecord
        /\ StreamDisconnect(s).state = "disconnected"
        /\ StreamDisconnect(s).connection = s.connection
  /\ \A h \in HostRecord :
        /\ HostDisconnect(h) \in HostRecord
        /\ HostDisconnect(h).state = "disconnected"
        /\ HostDisconnect(h).connection = h.connection
<1>1. {} \in Sent /\ << >> \in Seq(Chunk)
  BY DEF Sent
<1> QED
  BY <1>1, NoDataIsNoData DEF StreamDisconnect, HostDisconnect, DeviceRecord, HostRecord, States

\* k_work_submit_to_queue queues a work or leaves the queue.
LEMMA SubmitTyped ==
  \A q \in Seq(Works), work \in Works : Submit(q, work) \in Seq(Works)
  BY DEF Submit

\* A datagram that arrives leaves what was in flight and the replies.
LEMMA ArriveLeaves ==
  ASSUME NEW m, NEW replies, Arrive(m, replies)
  PROVE  m \in net /\ net' \subseteq net \cup replies
  BY DEF Arrive

\* What either side sends is a datagram with the number its kind needs.
LEMMA CommandTyped ==
  \A to \in {"device", "host"} :
     /\ \A kind \in {"connect", "disconnect", "nack"} : Command(to, kind) \in Traffic
     /\ \A seq \in Nat : Message(to, "ack", seq, NULL) \in Traffic /\ Message(to, "response", seq, NULL) \in Traffic
     /\ \A seq \in Nat, chunk \in Chunk : Message(to, "data", seq, chunk) \in Traffic
     /\ \A receive \in Nat, seq \in Nat : DataReply(to, receive, seq) \in Traffic
     /\ \A last \in Last : last # NoData => Resend(to, last) \in Traffic
<1>1. NULL \in Nat \cup {NULL} /\ Nat \subseteq Nat \cup {NULL}
  OBVIOUS
<1> QED
  BY <1>1, NoDataIsNoData DEF Command, Message, DataReply, Resend, Traffic, Datagram, Kinds

\* fd_rpc_channel_thread_reset_buffers leaves the channel with nothing to send.
LEMMA TxResetTyped == TxTyped /\ reset_buffers => TxTyped' /\ tx'.ring = << >>
<1>1. << >> \in Seq(Chunk)
  OBVIOUS
<1> QED
  BY <1>1 DEF TxTyped, reset_buffers

\* Every step keeps the types.
LEMMA TypedKept == Typed /\ [Next]_vars => Typed'
<1> SUFFICES ASSUME Typed, [Next]_vars PROVE Typed'
  OBVIOUS
<1> USE DEF Typed, DeviceTyped, HostTyped, NetTyped, RestTyped, deviceVars, hostVars
<1>1. CASE \E m \in net : receive_connect_request(m)
  <2>0. PICK m \in net : receive_connect_request(m)
    BY <1>1
  <2>1. UNCHANGED << host >>
    BY <2>0 DEF receive_connect_request
  <2>2. DeviceTyped'
    <3> DEFINE s == StreamDisconnect(device)
    <3>1. s \in DeviceRecord
      BY ResetTyped
    <3> DEFINE connection == s.connection + 1
    <3>2. device' = [s EXCEPT !.state = "connected", !.connection = connection]
      BY <2>0, Zenon DEF receive_connect_request
    <3> HIDE DEF s
    <3>3. connection \in Nat /\ "connected" \in States
      BY <3>1 DEF DeviceRecord, States
    <3> HIDE DEF connection
    <3> QED
      BY <3>1, <3>2, <3>3 DEF DeviceRecord
  <2>3. NetTyped'
    BY <2>0, ArriveLeaves, CommandTyped, SMTT(30) DEF receive_connect_request, DeviceRecord
  <2>4. TxTyped'
    BY <2>0, TxResetTyped DEF receive_connect_request
  <2>5. RestTyped'
    BY <2>0, SubmitTyped DEF receive_connect_request, Works
  <2> QED
    BY <2>1, <2>2, <2>3, <2>4, <2>5 DEF TxTyped
<1>2. CASE \E m \in net : receive_disconnect_request(m)
  <2>0. PICK m \in net : receive_disconnect_request(m)
    BY <1>2
  <2>1. UNCHANGED << host >>
    BY <2>0 DEF receive_disconnect_request
  <2>2. DeviceTyped'
    BY <2>0, ResetTyped DEF receive_disconnect_request
  <2>3. NetTyped'
    BY <2>0, ArriveLeaves DEF receive_disconnect_request
  <2>4. TxTyped'
    BY <2>0, TxResetTyped DEF receive_disconnect_request, ChannelDisconnected
  <2>5. RestTyped'
    BY <2>0, SubmitTyped DEF receive_disconnect_request, Works, ChannelDisconnected
  <2> QED
    BY <2>1, <2>2, <2>3, <2>4, <2>5 DEF TxTyped
<1>3. CASE \E m \in net : receive_data(m)
  <2>0. PICK m \in net : receive_data(m)
    BY <1>3
  <2>1. UNCHANGED << host, tx, queue, outbox, worker, written, connects >>
    BY <2>0 DEF receive_data
  <2>2. DeviceTyped'
    <3>1. m.chunk \in Chunk /\ device.receive \in Nat /\ device.given \in Seq(Chunk)
      BY DEF Traffic, Datagram, DeviceRecord
    <3>2. Append(device.given, m.chunk) \in Seq(Chunk) /\ device.receive + 1 \in Nat
      BY <3>1
    <3> QED
      BY <2>0, <3>2 DEF receive_data, DeviceRecord
  <2>3. NetTyped'
    BY <2>0, ArriveLeaves, CommandTyped DEF receive_data, DeviceHandles, DeviceRecord, Traffic
  <2> QED
    BY <2>1, <2>2, <2>3 DEF TxTyped
<1>4. CASE \E m \in net : receive_ack(m)
  <2>0. PICK m \in net : receive_ack(m)
    BY <1>4
  <2>1. UNCHANGED << host >>
    BY <2>0 DEF receive_ack
  <2>2. DeviceTyped'
    <3>1. CASE device' = [device EXCEPT !.send = device.send + 1, !.sem = 1]
      <4> DEFINE send == device.send + 1
      <4>1. send \in Nat /\ device' = [device EXCEPT !.send = send, !.sem = 1]
        BY <3>1 DEF DeviceRecord
      <4> HIDE DEF send
      <4> QED
        BY <4>1 DEF DeviceRecord
    <3>2. CASE device' = device \/ device' = StreamDisconnect(device)
      BY <3>2, ResetTyped
    <3> QED
      BY <2>0, <3>1, <3>2, Zenon DEF receive_ack
  <2>3. NetTyped'
    BY <2>0, ArriveLeaves, CommandTyped DEF receive_ack, SendDisconnect
  <2>4. TxTyped'
    BY <2>0, TxResetTyped DEF receive_ack, TxTyped, ChannelDisconnected
  <2>5. RestTyped'
    BY <2>0, SubmitTyped DEF receive_ack, Works, ChannelDisconnected
  <2> QED
    BY <2>1, <2>2, <2>3, <2>4, <2>5 DEF TxTyped
<1>5. CASE AckDone
  BY <1>5, NoDataIsNoData, SubmitTyped DEF AckDone, Acked, DeviceRecord, Works, TxTyped
<1>6. CASE \E m \in net : receive_nack(m)
  <2>0. PICK m \in net : receive_nack(m)
    BY <1>6
  <2>1. UNCHANGED << host >>
    BY <2>0 DEF receive_nack
  <2>2. DeviceTyped'
    BY <2>0, ResetTyped DEF receive_nack
  <2>3. NetTyped'
    BY <2>0, ArriveLeaves, CommandTyped DEF receive_nack, SendDisconnect
  <2>4. TxTyped'
    BY <2>0, TxResetTyped DEF receive_nack, ChannelDisconnected
  <2>5. RestTyped'
    BY <2>0, SubmitTyped DEF receive_nack, Works, ChannelDisconnected
  <2> QED
    BY <2>1, <2>2, <2>3, <2>4, <2>5 DEF TxTyped
<1>7. CASE packet_write
  <2>1. UNCHANGED << device, host, net >>
    BY <1>7 DEF packet_write
  <2>2. TxTyped'
    <3> DEFINE ring == tx.ring
    <3>0. ring \in Seq(Chunk) /\ written.device + 1 \in Chunk
      BY DEF TxTyped, Chunk
    <3> HIDE DEF ring
    <3>1. Append(ring, written.device + 1) \in Seq(Chunk) /\ Append(ring, written.device + 1) # << >>
      BY <3>0, SMTT(30)
    <3> USE DEF ring
    <3> QED
      BY <1>7, <3>1 DEF packet_write, TxTyped
  <2>3. RestTyped'
    BY <1>7, SubmitTyped DEF packet_write, Works
  <2> QED
    BY <2>1, <2>2, <2>3 DEF TxTyped
<1>8. CASE Timer
  BY <1>8, SubmitTyped DEF Timer, Works, TxTyped
<1>9. CASE connected_work
  <2>1. UNCHANGED << device, host, net, tx >>
    BY <1>9 DEF connected_work
  <2>2. RestTyped'
    BY <1>9 DEF connected_work, Dequeue
  <2> QED
    BY <2>1, <2>2 DEF TxTyped
<1>10. CASE disconnected_work
  <2>1. UNCHANGED << device, host, net, tx >>
    BY <1>10 DEF disconnected_work
  <2>2. RestTyped'
    BY <1>10 DEF disconnected_work, Dequeue
  <2> QED
    BY <2>1, <2>2 DEF TxTyped
<1>11. CASE TxNothing
  BY <1>11 DEF TxNothing, Dequeue, AfterTx, Idle, Works, TxTyped
<1>12. CASE TxClaim
  <2>1. UNCHANGED << device, host, net >>
    BY <1>12 DEF TxClaim
  <2>2. TxTyped'
    <3>1. Head(tx.ring) \in Chunk /\ tx.ring # << >>
      BY <1>12 DEF TxClaim, TxTyped
    <3> QED
      BY <1>12, <3>1 DEF TxClaim, TxTyped
  <2>3. RestTyped'
    BY <1>12 DEF TxClaim, Dequeue, Works
  <2> QED
    BY <2>1, <2>2, <2>3 DEF TxTyped
<1>13. CASE TxTake
  BY <1>13 DEF TxTake, DeviceRecord, TxTyped
<1>14. CASE TxTimeout
  BY <1>14, NoDataIsNoData DEF TxTimeout, AfterTx, Idle, Works, TxTyped
<1>15. CASE send_data
  <2>1. UNCHANGED << host >>
    BY <1>15 DEF send_data
  <2>2. DeviceTyped'
    <3> DEFINE last == [seq |-> device.send, chunk |-> tx.chunk]
               sent == device.sent \cup {<< device.send, tx.chunk >>}
    <3>1. last \in Last /\ sent \in Sent
      BY DEF DeviceRecord, TxTyped, Last, Sent
    <3> HIDE DEF last, sent
    <3>2. device' = [device EXCEPT !.last = last, !.sent = sent]
      BY <1>15 DEF send_data, last, sent
    <3> QED
      BY <3>1, <3>2 DEF DeviceRecord
  <2>3. NetTyped'
    BY <1>15, CommandTyped DEF send_data, TxTyped, DeviceRecord
  <2>4. TxTyped'
    <3> DEFINE ring == IF tx.claimed THEN Tail(tx.ring) ELSE tx.ring
    <3>1. ring \in Seq(Chunk) /\ NULL \in Chunk
      BY NoDataIsNoData DEF TxTyped
    <3> HIDE DEF ring
    <3>2. tx' = [tx EXCEPT !.ring = ring, !.claimed = FALSE, !.chunk = NULL]
      BY <1>15 DEF send_data, ring
    <3> QED
      BY <3>1, <3>2 DEF TxTyped
  <2>5. RestTyped'
    BY <1>15 DEF send_data, AfterTx, Idle, Works
  <2> QED
    BY <2>1, <2>2, <2>3, <2>4, <2>5 DEF TxTyped
<1>16. CASE CheckIdle
  BY <1>16 DEF CheckIdle, Checking, Idle, TxTyped
<1>17. CASE CheckRetry
  BY <1>17, CommandTyped DEF CheckRetry, Checking, Idle, DeviceRetry, DeviceRecord, TxTyped
<1>18. CASE CheckTimeout
  <2>1. UNCHANGED << host >>
    BY <1>18 DEF CheckTimeout
  <2>2. DeviceTyped'
    BY <1>18, ResetTyped DEF CheckTimeout
  <2>3. NetTyped'
    BY <1>18, CommandTyped DEF CheckTimeout, DeviceRetry, SendDisconnect, DeviceRecord
  <2>4. TxTyped'
    BY <1>18, TxResetTyped DEF CheckTimeout, ChannelDisconnected
  <2>5. RestTyped'
    BY <1>18, SubmitTyped DEF CheckTimeout, Checking, Idle, ChannelDisconnected, Works
  <2> QED
    BY <2>1, <2>2, <2>3, <2>4, <2>5 DEF TxTyped
<1>19. CASE \E m \in net : receive_connect_response(m)
  <2>0. PICK m \in net : receive_connect_response(m)
    BY <1>19
  <2>1. UNCHANGED << device, tx, queue, outbox, worker, written, connects >>
    BY <2>0 DEF receive_connect_response
  <2>2. HostTyped'
    BY <2>0, ResetTyped, NoDataIsNoData DEF receive_connect_response, HostHandles, HostRecord, States, Traffic
  <2>3. NetTyped'
    BY <2>0, ArriveLeaves DEF receive_connect_response
  <2> QED
    BY <2>1, <2>2, <2>3 DEF TxTyped
<1>20. CASE \E m \in net : HostReceiveDisconnect(m)
  BY <1>20, ArriveLeaves, ResetTyped DEF HostReceiveDisconnect, TxTyped
<1>21. CASE \E m \in net : HostReceiveData(m)
  <2>0. PICK m \in net : HostReceiveData(m)
    BY <1>21
  <2>1. UNCHANGED << device, tx, queue, outbox, worker, written, connects >>
    BY <2>0 DEF HostReceiveData
  <2>2. HostTyped'
    <3>1. m.chunk \in Chunk /\ host.receive \in Nat /\ host.given \in Seq(Chunk)
      BY DEF Traffic, Datagram, HostRecord
    <3>2. Append(host.given, m.chunk) \in Seq(Chunk) /\ host.receive + 1 \in Nat
      BY <3>1
    <3> QED
      BY <2>0, <3>2 DEF HostReceiveData, HostRecord
  <2>3. NetTyped'
    BY <2>0, ArriveLeaves, CommandTyped DEF HostReceiveData, HostHandles, HostRecord, Traffic
  <2> QED
    BY <2>1, <2>2, <2>3 DEF TxTyped
<1>22. CASE \E m \in net : HostReceiveAck(m)
  <2>0. PICK m \in net : HostReceiveAck(m)
    BY <1>22
  <2>1. UNCHANGED << device, tx, queue, outbox, worker, written, connects >>
    BY <2>0 DEF HostReceiveAck
  <2>2. HostTyped'
    <3>1. CASE host' = [host EXCEPT !.send = host.send + 1, !.last = NoData, !.lock = FALSE]
      <4> DEFINE send == host.send + 1
      <4>1. send \in Nat /\ host' = [host EXCEPT !.send = send, !.last = NoData, !.lock = FALSE]
        BY <3>1 DEF HostRecord
      <4> HIDE DEF send
      <4> QED
        BY <4>1, NoDataIsNoData DEF HostRecord
    <3>2. CASE host' = host \/ host' = HostDisconnect(host)
      BY <3>2, ResetTyped
    <3> QED
      BY <2>0, <3>1, <3>2, Zenon DEF HostReceiveAck
  <2>3. NetTyped'
    BY <2>0, ArriveLeaves, CommandTyped DEF HostReceiveAck, SendDisconnect
  <2> QED
    BY <2>1, <2>2, <2>3 DEF TxTyped
<1>23. CASE \E m \in net : HostReceiveNack(m)
  BY <1>23, ArriveLeaves, CommandTyped, ResetTyped DEF HostReceiveNack, SendDisconnect, TxTyped
<1>24. CASE \E m \in net : Lose(m)
  BY <1>24 DEF Lose, TxTyped
<1>25. CASE HostConnect
  BY <1>25, CommandTyped DEF HostConnect, TxTyped
<1>26. CASE HostWrite
  BY <1>26 DEF HostWrite, HostRecord, TxTyped
<1>27. CASE HostPut
  BY <1>27 DEF HostPut, Chunk, TxTyped
<1>28. CASE HostSend
  <2>1. UNCHANGED << device, tx >>
    BY <1>28 DEF HostSend
  <2>2. HostTyped'
    <3> DEFINE last == [seq |-> host.send, chunk |-> Head(outbox)]
               sent == host.sent \cup {<< host.send, Head(outbox) >>}
    <3>1. Head(outbox) \in Chunk /\ host.send \in Nat /\ host.sent \in Sent
      BY <1>28 DEF HostSend, HostRecord
    <3>2. last \in Last /\ sent \in Sent
      BY <3>1 DEF Last, Sent
    <3> HIDE DEF last, sent
    <3>3. host' = [host EXCEPT !.last = last, !.sent = sent]
      BY <1>28 DEF HostSend, last, sent
    <3> QED
      BY <3>2, <3>3 DEF HostRecord
  <2>3. NetTyped'
    BY <1>28, CommandTyped DEF HostSend, HostRecord
  <2>4. RestTyped'
    BY <1>28 DEF HostSend
  <2> QED
    BY <2>1, <2>2, <2>3, <2>4 DEF TxTyped
<1>29. CASE HostRetry
  BY <1>29, CommandTyped DEF HostRetry, HostRecord, TxTyped
<1>30. CASE HostTimeout
  BY <1>30, CommandTyped, ResetTyped DEF HostTimeout, SendDisconnect, TxTyped
<1>31. CASE UNCHANGED vars
  BY <1>31 DEF vars, TxTyped
<1> QED
  BY <1>1, <1>2, <1>3, <1>4, <1>5, <1>6, <1>7, <1>8, <1>9, <1>10, <1>11, <1>12, <1>13, <1>14, <1>15, <1>16, <1>17, <1>18, <1>19, <1>20, <1>21, <1>22, <1>23, <1>24, <1>25, <1>26, <1>27, <1>28, <1>29, <1>30, <1>31
     DEF Next, DeviceReceive, HostReceive, Worker

-----------------------------------------------------------------------------
(* The connection.                                                         *)

\* Only a connect request, its response and the host's first connect move it on.
LEMMA PhaseStays ==
  ASSUME Phase, connects' = connects, connects <= 1,
         device'.connection = device.connection, host'.connection = host.connection,
         host.connection = 0 => host'.state = "disconnected",
         \A m \in net' : m.kind \in {"connect", "response"} => m \in net,
         device.connection = 0 => Fresh'
  PROVE  Phase'
  BY DEF Phase

\* A step of the channel that moves no data and no ack.
LEMMA QuietStep ==
  ASSUME FirstConnection, Phase', UNCHANGED << device, host, outbox, writing, acking >>,
         worker'.at = "send" => worker.at = "send",
         \A m \in net' : m.kind \in {"data", "ack"} => m \in net
  PROVE  FirstConnection'
<1>1. /\ NoNews(net, net', "device", "host") /\ NoNews(net, net', "host", "device")
      /\ NoAcks(net, net', "device") /\ NoAcks(net, net', "host")
  BY DEF NoNews, NoAcks
<1>2. DeviceSends => DeviceSends'
  BY <1>1, SendingStays DEF DeviceSends
<1>3. HostSends => HostSends'
  BY <1>1, SendingStays DEF HostSends
<1>4. /\ Delivered(net, device, host, "device") => Delivered(net', device', host', "device")
      /\ Delivered(net, host, device, "host") => Delivered(net', host', device', "host")
  BY <1>1, DeliveredStays
<1> QED
  BY <1>2, <1>3, <1>4 DEF FirstConnection, DeviceUp, HostUp

\* The device leaves its connection: nothing is promised of what it sends.
LEMMA DeviceLeaves ==
  ASSUME FirstConnection, Phase', device.connection = 1, device'.connection = 1,
         device'.state = "disconnected", UNCHANGED << host, outbox, writing >>,
         NoNews(net, net', "host", "device")
  PROVE  FirstConnection'
<1>1. HostSends => HostSends'
  BY SendingStays DEF HostSends
<1>2. ~DeviceUp'
  BY DEF DeviceUp, States
<1> QED
  BY <1>1, <1>2 DEF FirstConnection, HostUp

\* The same for the host, which leaves only a connection that it is in.
LEMMA HostLeaves ==
  ASSUME Typed, FirstConnection, Phase', host' = HostDisconnect(host),
         UNCHANGED << device, outbox, writing, acking, worker >>,
         \A m \in net' : m.kind \in {"data", "ack"} => m \in net
  PROVE  FirstConnection'
<1>1. CASE host.state = "disconnected"
  BY <1>1, QuietStep DEF HostDisconnect
<1>2. CASE host.state # "disconnected"
  <2>1. host.connection = 1 /\ host'.connection = 1 /\ host'.state = "disconnected"
    BY <1>2, ResetTyped DEF FirstConnection, Phase, Typed, HostTyped
  <2>2. ~HostUp'
    BY <2>1 DEF HostUp
  <2>3. DeviceSends => DeviceSends'
    <3>1. NoNews(net, net', "device", "host")
      BY DEF NoNews
    <3> QED
      BY <3>1, SendingStays DEF DeviceSends
  <2> QED
    BY <2>2, <2>3 DEF FirstConnection, DeviceUp
<1> QED
  BY <1>1, <1>2

\* The fields of the device and of the host.
LEMMA Fields ==
  Typed => /\ device.send \in Nat /\ device.receive \in Nat /\ device.sent \in Sent
           /\ device.given \in Seq(Chunk) /\ device.last \in Last /\ tx.chunk \in Chunk
           /\ host.send \in Nat /\ host.receive \in Nat /\ host.sent \in Sent
           /\ host.given \in Seq(Chunk) /\ host.last \in Last
           /\ device.state \in States /\ host.state \in States
           /\ \A m \in net : /\ m.to \in {"device", "host"} /\ m.chunk \in Chunk
                             /\ m.kind \in {"data", "ack", "response"} => m.seq \in Nat
  BY DEF Typed, DeviceTyped, HostTyped, TxTyped, NetTyped, DeviceRecord, HostRecord, Traffic, Datagram

\* Neither the request nor the response arrives twice.
OneResponse == {"connect", "response"} \cap Duplicated = {}

-----------------------------------------------------------------------------
(* The steps of the device.                                                *)

\* The device takes the request: its numbers and the host's start from zero together,
\* and nothing of an earlier connection is in flight.
LEMMA ConnectRequestStep ==
  ASSUME OneResponse, Typed, FirstConnection, connects <= 1,
         NEW m \in net, receive_connect_request(m)
  PROVE  FirstConnection'
<1>1. /\ m = Command("device", "connect") /\ connects = 1 /\ device.connection = 0
      /\ Fresh /\ host.connection = 0 /\ host.state = "disconnected"
  BY DEF receive_connect_request, DeviceHandles, FirstConnection, Phase
<1>2. /\ device'.state = "connected" /\ device'.connection = 1 /\ device'.receive = 0
      /\ device'.send = 0 /\ device'.sem = 1 /\ device'.last = NoData /\ device'.sent = {}
      /\ device'.given = << >>
  <2> DEFINE r == StreamDisconnect(device)
  <2>1. /\ r \in DeviceRecord /\ r.connection = 0 /\ r.receive = 0 /\ r.send = 0 /\ r.sem = 1
        /\ r.last = NoData /\ r.sent = {} /\ r.given = << >>
    BY <1>1, ResetTyped DEF StreamDisconnect, DeviceRecord, Typed, DeviceTyped
  <2>2. device' = [r EXCEPT !.state = "connected", !.connection = r.connection + 1]
    BY DEF receive_connect_request
  <2> HIDE DEF r
  <2> QED
    BY <2>1, <2>2 DEF DeviceRecord
<1>3. UNCHANGED << worker, opened, acking, host, writing, outbox, connects >>
  BY DEF receive_connect_request, hostVars
<1>4. net' \subseteq (net \ {m}) \cup {Message("host", "response", 1, NULL)}
  BY <1>1 DEF receive_connect_request, DeviceHandles, Arrive, OneResponse
<1>5. \A a \in net' : (a \in net /\ a # m) \/ a = Message("host", "response", 1, NULL)
  BY <1>4
<1>6. \A a \in net' : a.kind \in {"connect", "data", "ack"} => a \in net /\ a # m
  BY <1>5 DEF Message
<1>7. Phase'
  <2>1. \A a \in net' : a.kind # "connect"
    BY <1>1, <1>6 DEF FirstConnection, Phase
  <2>2. \A a \in net' : a.kind = "response" => a = Message("host", "response", 1, NULL)
    BY <1>5 DEF FirstConnection, Phase
  <2> QED
    BY <1>1, <1>2, <1>3, <2>1, <2>2 DEF Phase
<1>8. device.send = 0 /\ device.sent = {} /\ device.last = NoData /\ device.receive = 0
      /\ device.given = << >> /\ worker = Idle /\ DeviceUp
  BY <1>1 DEF Fresh, DeviceUp
<1>9. /\ NoNews(net, net', "device", "host") /\ NoNews(net, net', "host", "device")
      /\ NoAcks(net, net', "device") /\ NoAcks(net, net', "host")
  BY <1>6 DEF NoNews, NoAcks
<1>10. DeviceSends'
  <2>1. Sending(net', device', "device", "host")
    BY <1>2, <1>8, <1>9, SendingStays DEF FirstConnection, DeviceSends
  <2> QED
    BY <1>2, <1>3, <1>8, <2>1 DEF DeviceSends, Outstanding, Idle
<1>11. HostSends => HostSends'
  BY <1>3, <1>9, SendingStays DEF HostSends
<1>12. /\ Delivered(net, device, host, "device") => Delivered(net', device', host', "device")
       /\ Delivered(net, host, device, "host") => Delivered(net', host', device', "host")
  BY <1>2, <1>3, <1>8, <1>9, DeliveredStays
<1> QED
  BY <1>3, <1>7, <1>8, <1>10, <1>11, <1>12 DEF FirstConnection, HostUp

\* The device is told to disconnect, or that data is missing.
LEMMA DisconnectRequestStep ==
  ASSUME Typed, FirstConnection, connects <= 1,
         NEW m \in net, receive_disconnect_request(m) \/ receive_nack(m)
  PROVE  FirstConnection'
<1>1. device.connection = 1
  BY DEF receive_disconnect_request, receive_nack, DeviceHandles, FirstConnection, Phase, Fresh
<1>2. device' = StreamDisconnect(device) /\ UNCHANGED << host, writing, outbox, connects >>
  BY DEF receive_disconnect_request, receive_nack, hostVars
<1>3. device'.state = "disconnected" /\ device'.connection = 1
  BY <1>1, <1>2, ResetTyped DEF Typed, DeviceTyped
<1>4. \A a \in net' : a \in net \/ a.kind = "disconnect"
  BY DEF receive_disconnect_request, receive_nack, Arrive, SendDisconnect, Command, Message
<1>5. Phase'
  BY <1>1, <1>2, <1>3, <1>4, PhaseStays DEF FirstConnection, Phase
<1> QED
  BY <1>1, <1>2, <1>3, <1>4, <1>5, DeviceLeaves DEF NoNews

\* Data that arrives is answered whoever receives it: with an ack of the same number or
\* a nack.
LEMMA ReplyIs ==
  ASSUME NEW to \in {"device", "host"}, NEW receive \in Nat, NEW seq \in Nat
  PROVE  \/ seq <= receive /\ DataReply(to, receive, seq) = Message(to, "ack", seq, NULL)
         \/ seq > receive /\ DataReply(to, receive, seq) = Command(to, "nack")
  BY DEF DataReply

\* receive_data of the device: expected data is given and acknowledged, old data is
\* acknowledged again, data from the future is answered with a nack.
LEMMA DeviceDataStep ==
  ASSUME Typed, FirstConnection, connects <= 1, NEW m \in net, receive_data(m)
  PROVE  FirstConnection'
<1>1. /\ UNCHANGED << tx, queue, worker, opened, acking, host, writing, outbox, connects >>
      /\ m.to = "device" /\ m.kind = "data"
  BY DEF receive_data, hostVars, DeviceHandles
<1>2. CASE device.state # "connected"
  <2>1. net' \subseteq net /\ device' = device
    BY <1>2 DEF receive_data, Arrive
  <2>2. Phase'
    BY <1>1, <2>1, PhaseStays DEF FirstConnection, Phase, Fresh
  <2> QED
    BY <1>1, <2>1, <2>2, QuietStep
<1>3. CASE device.state = "connected"
  <2>1. device.connection = 1 /\ DeviceUp
    BY <1>3 DEF FirstConnection, Phase, Fresh, DeviceUp
  <2>2. net' \subseteq net \cup {DataReply("host", device.receive, m.seq)}
    BY <1>3 DEF receive_data, Arrive
  <2>3. m.seq \in Nat /\ device.receive \in Nat /\ m.chunk \in Chunk
    BY <1>1, Fields
  <2>4. CASE m.seq > device.receive
    <3>1. device' = device
      BY <1>3, <2>3, <2>4 DEF receive_data, IsNextData
    <3>2. \A a \in net' : a \in net \/ a.kind = "nack"
      BY <2>2, <2>3, <2>4, ReplyIs DEF Command, Message
    <3>3. Phase'
      BY <1>1, <2>1, <3>1, <3>2, PhaseStays DEF FirstConnection, Phase
    <3> QED
      BY <1>1, <3>1, <3>2, <3>3, QuietStep
  <2>5. CASE m.seq <= device.receive
    <3>1. net' \subseteq net \cup {Message("host", "ack", m.seq, NULL)}
      BY <2>2, <2>3, <2>5, ReplyIs
    <3>2. \A a \in net' : a \in net \/ (a.to = "host" /\ a.kind = "ack")
      BY <3>1 DEF Message
    <3>3. /\ \/ m.seq < device.receive /\ device'.receive = device.receive /\ device'.given = device.given
             \/ /\ m.seq = device.receive /\ device'.receive = device.receive + 1
                /\ device'.given = Append(device.given, m.chunk)
          /\ device'.send = device.send /\ device'.sent = device.sent /\ device'.last = device.last
          /\ device'.sem = device.sem /\ device'.state = device.state
          /\ device'.connection = device.connection
      <4>1. CASE m.seq = device.receive
        <5>1. device' = [device EXCEPT !.receive = device.receive + 1,
                                       !.given = Append(device.given, m.chunk)]
          BY <1>3, <4>1 DEF receive_data, IsNextData
        <5> QED
          BY <4>1, <5>1 DEF Typed, DeviceTyped, DeviceRecord
      <4>2. CASE m.seq < device.receive
        <5>1. device' = device
          BY <1>3, <2>3, <4>2 DEF receive_data, IsNextData
        <5> QED
          BY <4>2, <5>1
      <4> QED
        BY <2>3, <2>5, <4>1, <4>2
    <3>4. Phase'
      BY <1>1, <2>1, <3>2, <3>3, PhaseStays DEF FirstConnection, Phase
    <3>5. NoNews(net, net', "device", "host") /\ NoAcks(net, net', "device")
      BY <3>2 DEF NoNews, NoAcks
    <3>6. DeviceSends => DeviceSends'
      BY <1>1, <3>3, <3>5, SendingStays DEF DeviceSends, Outstanding
    <3>7. HostSends => HostSends'
      BY <1>1, <3>1, SendingConfirmed DEF HostSends
    <3>8. Delivered(net, device, host, "device") => Delivered(net', device', host', "device")
      BY <1>1, <3>3, <3>5, DeliveredStays
    <3>9. HostSends /\ Delivered(net, host, device, "host") => Delivered(net', host', device', "host")
      <4>1. CASE m.seq < device.receive
        <5>1. device'.receive = device.receive /\ device'.given = device.given
          BY <2>3, <3>3, <4>1
        <5> QED
          BY <1>1, <3>1, <4>1, <5>1, DeliveredAgain
      <4>2. CASE m.seq = device.receive
        <5>1. device'.receive = device.receive + 1 /\ device'.given = Append(device.given, m.chunk)
          BY <2>3, <3>3, <4>2
        <5>2. /\ host.sent \in Sent /\ host.send \in Nat /\ device.given \in Seq(Chunk)
              /\ \A a \in net : a.kind = "ack" => a.seq \in Nat
          BY Fields
        <5> QED
          BY <1>1, <2>3, <3>1, <4>2, <5>1, <5>2, DeliveredMore DEF HostSends
      <4> QED
        BY <2>3, <2>5, <4>1, <4>2
    <3> QED
      BY <1>1, <3>3, <3>4, <3>6, <3>7, <3>8, <3>9 DEF FirstConnection, DeviceUp, HostUp
  <2> QED
    BY <2>3, <2>4, <2>5
<1> QED
  BY <1>2, <1>3

\* receive_ack of the device up to k_sem_give: only an ack of the outstanding chunk
\* frees the semaphore.
LEMMA DeviceAckStep ==
  ASSUME Typed, FirstConnection, connects <= 1, NEW m \in net, receive_ack(m)
  PROVE  FirstConnection'
<1>1. /\ UNCHANGED << worker, opened, host, writing, outbox, connects >>
      /\ m.to = "device" /\ m.kind = "ack" /\ ~acking
  BY DEF receive_ack, hostVars, DeviceHandles
<1>2. device.connection = 1
  BY <1>1 DEF FirstConnection, Phase, Fresh
<1>3. CASE m.seq < device.send /\ Arrive(m, {}) /\ UNCHANGED << device, tx, queue, acking >>
  <2>1. net' \subseteq net
    BY <1>3 DEF Arrive
  <2>2. Phase'
    BY <1>1, <1>2, <1>3, <2>1, PhaseStays DEF FirstConnection, Phase
  <2> QED
    BY <1>1, <1>3, <2>1, <2>2, QuietStep
<1>4. CASE /\ IsAck(m.seq, device.send) /\ Arrive(m, {})
           /\ device' = [device EXCEPT !.send = @ + 1, !.sem = 1] /\ acking' = TRUE
  <2>1. net' \subseteq net /\ m.seq = device.send
    BY <1>4 DEF Arrive, IsAck
  <2>2. /\ device'.send = device.send + 1 /\ device'.sem = 1 /\ device'.sent = device.sent
        /\ device'.last = device.last /\ device'.receive = device.receive
        /\ device'.given = device.given /\ device'.state = device.state
        /\ device'.connection = device.connection
    BY <1>4 DEF Typed, DeviceTyped, DeviceRecord
  <2>3. Phase'
    BY <1>1, <1>2, <2>1, <2>2, PhaseStays DEF FirstConnection, Phase
  <2>4. /\ NoNews(net, net', "device", "host") /\ NoNews(net, net', "host", "device")
        /\ NoAcks(net, net', "device") /\ NoAcks(net, net', "host")
    BY <2>1 DEF NoNews, NoAcks
  <2>5. DeviceSends => DeviceSends'
    <3> SUFFICES ASSUME DeviceSends PROVE DeviceSends'
      OBVIOUS
    <3>1. Outstanding(device)
      BY <1>1, <2>1 DEF DeviceSends, Sending, Genuine, Outstanding
    <3>2. worker.at # "send"
      BY <3>1 DEF DeviceSends
    <3>3. Sending(net', device', "device", "host") /\ ~Outstanding(device')
      BY <2>2, <2>4, Fields, SendingAcked DEF DeviceSends
    <3> QED
      BY <1>1, <1>4, <3>2, <3>3 DEF DeviceSends
  <2>6. HostSends => HostSends'
    BY <1>1, <2>4, SendingStays DEF HostSends
  <2>7. Delivered(net, device, host, "device") => Delivered(net', device', host', "device")
    BY <1>1, <2>1, <2>2, <2>4, Fields, DeliveredAcked
  <2>8. Delivered(net, host, device, "host") => Delivered(net', host', device', "host")
    BY <1>1, <2>2, <2>4, DeliveredStays
  <2> QED
    BY <1>1, <2>2, <2>3, <2>5, <2>6, <2>7, <2>8 DEF FirstConnection, DeviceUp, HostUp
<1>5. CASE /\ m.seq > device.send /\ Arrive(m, SendDisconnect("host"))
           /\ device' = StreamDisconnect(device)
  <2>1. \A a \in net' : a \in net \/ a.kind = "disconnect"
    BY <1>5 DEF Arrive, SendDisconnect, Command, Message
  <2>2. device'.connection = 1 /\ device'.state = "disconnected"
    BY <1>2, <1>5, ResetTyped DEF Typed, DeviceTyped
  <2>3. Phase'
    BY <1>1, <1>2, <2>1, <2>2, PhaseStays DEF FirstConnection, Phase
  <2> QED
    BY <1>1, <1>2, <2>1, <2>2, <2>3, DeviceLeaves DEF NoNews
<1> QED
  BY <1>3, <1>4, <1>5, Zenon DEF receive_ack

\* The rest of receive_ack: also data that was sent meanwhile is not sent again.
LEMMA AckDoneStep ==
  ASSUME Typed, FirstConnection, connects <= 1, AckDone
  PROVE  FirstConnection'
<1>1. UNCHANGED << worker, opened, host, writing, outbox, net, connects >> /\ acking /\ ~acking'
  BY DEF AckDone, hostVars
<1>2. device.connection = 1
  BY <1>1 DEF FirstConnection, Phase, Fresh
<1>3. /\ device'.send = device.send /\ device'.sem = device.sem /\ device'.sent = device.sent
      /\ device'.last = NoData /\ device'.receive = device.receive
      /\ device'.given = device.given /\ device'.state = device.state
      /\ device'.connection = device.connection
  BY DEF AckDone, Acked, Typed, DeviceTyped, DeviceRecord
<1>4. Phase'
  BY <1>1, <1>2, <1>3, PhaseStays DEF FirstConnection, Phase
<1>5. /\ NoNews(net, net', "device", "host") /\ NoNews(net, net', "host", "device")
      /\ NoAcks(net, net', "device") /\ NoAcks(net, net', "host")
  BY <1>1 DEF NoNews, NoAcks
<1>6. DeviceSends => DeviceSends'
  BY <1>1, <1>3, <1>5, SendingStays DEF DeviceSends, Outstanding
<1>7. HostSends => HostSends'
  BY <1>1, <1>5, SendingStays DEF HostSends
<1>8. /\ Delivered(net, device, host, "device") => Delivered(net', device', host', "device")
      /\ Delivered(net, host, device, "host") => Delivered(net', host', device', "host")
  BY <1>1, <1>3, <1>5, DeliveredStays
<1> QED
  BY <1>1, <1>3, <1>4, <1>6, <1>7, <1>8 DEF FirstConnection, DeviceUp, HostUp

\* The steps of the channel that send nothing and change nothing of the stream need a
\* device that was connected.
LEMMA ChannelStep ==
  ASSUME Typed, FirstConnection, connects <= 1,
         \/ packet_write \/ Timer \/ connected_work \/ disconnected_work
         \/ TxNothing \/ TxClaim \/ TxTimeout \/ CheckIdle
  PROVE  FirstConnection'
<1>1. /\ UNCHANGED << device, acking, host, writing, outbox, net, connects >>
      /\ worker'.at = "send" => worker.at = "send"
  BY DEF packet_write, Timer, connected_work, disconnected_work, TxNothing, TxClaim, TxTimeout,
         CheckIdle, Checking, AfterTx, Idle, hostVars
<1>2. device.connection = 1
  BY DEF packet_write, Timer, connected_work, disconnected_work, TxNothing, TxClaim, TxTimeout,
         CheckIdle, Checking, Dequeue, Idle, FirstConnection, Phase, Fresh
<1>3. Phase'
  BY <1>1, <1>2, PhaseStays DEF FirstConnection, Phase
<1> QED
  BY <1>1, <1>3, QuietStep

\* wait_for_send_ack takes the semaphore, so nothing is outstanding.
LEMMA TxTakeStep ==
  ASSUME Typed, FirstConnection, connects <= 1, TxTake
  PROVE  FirstConnection'
<1>1. UNCHANGED << acking, host, writing, outbox, net, connects >> /\ device.sem = 1
  BY DEF TxTake, hostVars, SemaphoreFree
<1>2. device.connection = 1
  BY DEF TxTake, Idle, FirstConnection, Phase, Fresh
<1>3. /\ device'.send = device.send /\ device'.sem = 0 /\ device'.sent = device.sent
      /\ device'.last = device.last /\ device'.receive = device.receive
      /\ device'.given = device.given /\ device'.state = device.state
      /\ device'.connection = device.connection
  BY DEF TxTake, Typed, DeviceTyped, DeviceRecord
<1>4. Phase'
  BY <1>1, <1>2, <1>3, PhaseStays DEF FirstConnection, Phase
<1>5. /\ NoNews(net, net', "device", "host") /\ NoNews(net, net', "host", "device")
      /\ NoAcks(net, net', "device") /\ NoAcks(net, net', "host")
  BY <1>1 DEF NoNews, NoAcks
<1>6. DeviceSends => DeviceSends'
  <2> SUFFICES ASSUME DeviceSends PROVE DeviceSends'
    OBVIOUS
  <2>1. ~Outstanding(device)
    BY <1>1 DEF DeviceSends
  <2>2. ~Outstanding(device')
    BY <1>3, <2>1 DEF Outstanding
  <2>3. Sending(net', device', "device", "host")
    BY <1>3, <1>5, SendingStays DEF DeviceSends
  <2> QED
    BY <1>1, <1>3, <2>2, <2>3 DEF DeviceSends
<1>7. HostSends => HostSends'
  BY <1>1, <1>5, SendingStays DEF HostSends
<1>8. /\ Delivered(net, device, host, "device") => Delivered(net', device', host', "device")
      /\ Delivered(net, host, device, "host") => Delivered(net', host', device', "host")
  BY <1>1, <1>3, <1>5, DeliveredStays
<1> QED
  BY <1>1, <1>3, <1>4, <1>6, <1>7, <1>8 DEF FirstConnection, DeviceUp, HostUp

\* send_data puts one more chunk under the number of now.
LEMMA DeviceSendStep ==
  ASSUME Typed, FirstConnection, connects <= 1, send_data
  PROVE  FirstConnection'
<1>1. /\ UNCHANGED << acking, host, writing, outbox, connects >> /\ worker.at = "send"
      /\ worker'.at # "send"
      /\ net' = net \cup {Message("host", "data", device.send, tx.chunk)}
  BY DEF send_data, hostVars, AfterTx, Idle
<1>2. device.connection = 1
  BY <1>1 DEF Idle, FirstConnection, Phase, Fresh
<1>3. /\ device'.send = device.send /\ device'.sem = device.sem
      /\ device'.sent = device.sent \cup {<< device.send, tx.chunk >>}
      /\ device'.last = [seq |-> device.send, chunk |-> tx.chunk]
      /\ device'.receive = device.receive
      /\ device'.given = device.given /\ device'.state = device.state
      /\ device'.connection = device.connection
  BY DEF send_data, Typed, DeviceTyped, DeviceRecord
<1>4. \A a \in net' : a \in net \/ (a.to = "host" /\ a.kind = "data")
  BY <1>1 DEF Message
<1>5. Phase'
  BY <1>1, <1>2, <1>3, <1>4, PhaseStays DEF FirstConnection, Phase
<1>6. /\ NoNews(net, net', "host", "device")
      /\ NoAcks(net, net', "device") /\ NoAcks(net, net', "host")
  BY <1>4 DEF NoNews, NoAcks
<1>7. DeviceSends => DeviceSends'
  <2> SUFFICES ASSUME DeviceSends PROVE DeviceSends'
    OBVIOUS
  <2>1. ~Outstanding(device) /\ device.sem = 0
    BY <1>1 DEF DeviceSends
  <2>2. Sending(net', device', "device", "host")
    BY <1>1, <1>3, <2>1, Fields, SendingMore DEF DeviceSends
  <2> QED
    BY <1>1, <1>3, <2>1, <2>2 DEF DeviceSends
<1>8. HostSends => HostSends'
  BY <1>1, <1>6, SendingStays DEF HostSends
<1>9. /\ Delivered(net, device, host, "device") => Delivered(net', device', host', "device")
      /\ Delivered(net, host, device, "host") => Delivered(net', host', device', "host")
  BY <1>1, <1>3, <1>6, DeliveredStays
<1> QED
  BY <1>1, <1>3, <1>5, <1>7, <1>8, <1>9 DEF FirstConnection, DeviceUp, HostUp

\* The retry of fd_rpc_stream_check repeats what was sent.
LEMMA DeviceRetryStep ==
  ASSUME Typed, FirstConnection, connects <= 1, CheckRetry
  PROVE  FirstConnection'
<1>1. /\ UNCHANGED << device, acking, host, writing, outbox, connects >>
      /\ worker' = Idle /\ device.last # NoData /\ device.state = "connected"
      /\ net' = net \cup {Resend("host", device.last)}
  BY DEF CheckRetry, Checking, DeviceRetry, hostVars
<1>2. device.connection = 1 /\ DeviceUp
  BY <1>1 DEF FirstConnection, Phase, Fresh, DeviceUp
<1>3. \A a \in net' : a \in net \/ (a.to = "host" /\ a.kind = "data")
  BY <1>1 DEF Resend, Message
<1>4. Phase'
  BY <1>1, <1>2, <1>3, PhaseStays DEF FirstConnection, Phase
<1>5. /\ NoNews(net, net', "host", "device")
      /\ NoAcks(net, net', "device") /\ NoAcks(net, net', "host")
  BY <1>3 DEF NoNews, NoAcks
<1>6. Sending(net', device', "device", "host")
  BY <1>1, <1>2, SendingAgain DEF FirstConnection, DeviceSends
<1>7. DeviceSends'
  BY <1>1, <1>2, <1>6 DEF FirstConnection, DeviceSends, Idle
<1>8. HostSends => HostSends'
  BY <1>1, <1>5, SendingStays DEF HostSends
<1>9. /\ Delivered(net, device, host, "device") => Delivered(net', device', host', "device")
      /\ Delivered(net, host, device, "host") => Delivered(net', host', device', "host")
  BY <1>1, <1>5, DeliveredStays
<1> QED
  BY <1>1, <1>2, <1>4, <1>7, <1>8, <1>9 DEF FirstConnection, DeviceUp, HostUp

\* The receive timeout of fd_rpc_stream_check closes the connection.
LEMMA DeviceTimeoutStep ==
  ASSUME Typed, FirstConnection, connects <= 1, CheckTimeout
  PROVE  FirstConnection'
<1>1. /\ UNCHANGED << acking, host, writing, outbox, connects >>
      /\ device.state = "connected" /\ device' = StreamDisconnect(device)
  BY DEF CheckTimeout, hostVars
<1>2. device.connection = 1 /\ device'.connection = 1 /\ device'.state = "disconnected"
  BY <1>1, ResetTyped DEF FirstConnection, Phase, Fresh, Typed, DeviceTyped
<1>3. \A a \in net' : a \in net \/ a.kind = "disconnect" \/ (a.to = "host" /\ a.kind = "data")
  BY DEF CheckTimeout, SendDisconnect, Command, DeviceRetry, Resend, Message
<1>4. Phase'
  BY <1>1, <1>2, <1>3, PhaseStays DEF FirstConnection, Phase
<1> QED
  BY <1>1, <1>2, <1>3, <1>4, DeviceLeaves DEF NoNews

-----------------------------------------------------------------------------
(* The steps of the host and of the network.                               *)

\* The host takes the response: it is connected, with its numbers as they were.
LEMMA ConnectResponseStep ==
  ASSUME OneResponse, Typed, FirstConnection, connects <= 1,
         NEW m \in net, receive_connect_response(m)
  PROVE  FirstConnection'
<1>1. /\ UNCHANGED << deviceVars, writing, outbox, connects >>
      /\ m = Message("host", "response", 1, NULL) /\ device.connection = 1
      /\ host.connection = 0 /\ host.state = "disconnected"
  BY DEF receive_connect_response, HostHandles, FirstConnection, Phase
<1>2. net' \subseteq net \ {m}
  BY <1>1 DEF receive_connect_response, HostHandles, Arrive, OneResponse
<1>3. host' = [host EXCEPT !.state = "connected", !.last = NoData, !.connection = 1]
  BY <1>1 DEF receive_connect_response, HostDisconnect, Message
<1>4. /\ host'.state = "connected" /\ host'.connection = 1 /\ host'.send = host.send
      /\ host'.sent = host.sent /\ host'.last = NoData /\ host'.receive = host.receive
      /\ host'.given = host.given /\ (host'.lock <=> host.lock)
  BY <1>3 DEF Typed, HostTyped, HostRecord
<1>5. Phase'
  BY <1>1, <1>2, <1>4 DEF FirstConnection, Phase, deviceVars
<1>6. /\ NoNews(net, net', "device", "host") /\ NoNews(net, net', "host", "device")
      /\ NoAcks(net, net', "device") /\ NoAcks(net, net', "host")
  BY <1>2 DEF NoNews, NoAcks
<1>7. DeviceSends => DeviceSends'
  BY <1>1, <1>6, SendingStays DEF DeviceSends, deviceVars
<1>8. HostSends => HostSends'
  <2> SUFFICES ASSUME HostSends PROVE HostSends'
    OBVIOUS
  <2>1. Sending(net', host', "host", "device")
    BY <1>4, <1>6, SendingStays DEF HostSends
  <2>2. Outstanding(host') <=> Outstanding(host)
    BY <1>4 DEF Outstanding
  <2> QED
    BY <1>1, <1>4, <2>1, <2>2 DEF HostSends
<1>9. /\ Delivered(net, device, host, "device") => Delivered(net', device', host', "device")
      /\ Delivered(net, host, device, "host") => Delivered(net', host', device', "host")
  BY <1>1, <1>4, <1>6, DeliveredStays DEF deviceVars
<1> QED
  BY <1>1, <1>4, <1>5, <1>7, <1>8, <1>9 DEF FirstConnection, DeviceUp, HostUp, deviceVars

\* A datagram that only closes the connection, and a timeout.
LEMMA HostDisconnectStep ==
  ASSUME Typed, FirstConnection, connects <= 1,
         \/ \E m \in net : HostReceiveDisconnect(m) \/ HostReceiveNack(m)
         \/ HostTimeout
  PROVE  FirstConnection'
<1>1. UNCHANGED << deviceVars, writing, outbox, connects >> /\ host' = HostDisconnect(host)
  BY DEF HostReceiveDisconnect, HostReceiveNack, HostTimeout
<1>2. \A a \in net' : a \in net \/ a.kind = "disconnect"
  BY DEF HostReceiveDisconnect, HostReceiveNack, HostTimeout, Arrive, SendDisconnect, Command, Message
<1>3. device.connection = 1
  BY DEF HostReceiveDisconnect, HostReceiveNack, HostTimeout, HostHandles, FirstConnection, Phase, Fresh
<1>4. host'.connection = host.connection /\ host'.state = "disconnected"
  BY <1>1, ResetTyped DEF Typed, HostTyped
<1>5. Phase'
  BY <1>1, <1>2, <1>3, <1>4, PhaseStays DEF FirstConnection, Phase, deviceVars
<1> QED
  BY <1>1, <1>2, <1>5, HostLeaves DEF deviceVars

\* receive_data of the host.
LEMMA HostDataStep ==
  ASSUME Typed, FirstConnection, connects <= 1, NEW m \in net, HostReceiveData(m)
  PROVE  FirstConnection'
<1>1. /\ UNCHANGED << device, worker, acking, writing, outbox, connects >>
      /\ m.to = "host" /\ m.kind = "data"
  BY DEF HostReceiveData, deviceVars, HostHandles
<1>2. device.connection = 1
  BY <1>1 DEF FirstConnection, Phase, Fresh
<1>3. CASE host.state # "connected"
  <2>1. net' \subseteq net /\ host' = host
    BY <1>3 DEF HostReceiveData, Arrive
  <2>2. Phase'
    BY <1>1, <1>2, <2>1, PhaseStays DEF FirstConnection, Phase
  <2> QED
    BY <1>1, <2>1, <2>2, QuietStep
<1>4. CASE host.state = "connected"
  <2>1. HostUp
    BY <1>4 DEF HostUp
  <2>2. net' \subseteq net \cup {DataReply("device", host.receive, m.seq)}
    BY <1>4 DEF HostReceiveData, Arrive
  <2>3. m.seq \in Nat /\ host.receive \in Nat /\ m.chunk \in Chunk
    BY <1>1, Fields
  <2>4. CASE m.seq > host.receive
    <3>1. host' = host
      BY <1>4, <2>3, <2>4 DEF HostReceiveData, IsNextData
    <3>2. \A a \in net' : a \in net \/ a.kind = "nack"
      BY <2>2, <2>3, <2>4, ReplyIs DEF Command, Message
    <3>3. Phase'
      BY <1>1, <1>2, <3>1, <3>2, PhaseStays DEF FirstConnection, Phase
    <3> QED
      BY <1>1, <3>1, <3>2, <3>3, QuietStep
  <2>5. CASE m.seq <= host.receive
    <3>1. net' \subseteq net \cup {Message("device", "ack", m.seq, NULL)}
      BY <2>2, <2>3, <2>5, ReplyIs
    <3>2. \A a \in net' : a \in net \/ (a.to = "device" /\ a.kind = "ack")
      BY <3>1 DEF Message
    <3>3. /\ \/ m.seq < host.receive /\ host'.receive = host.receive /\ host'.given = host.given
             \/ /\ m.seq = host.receive /\ host'.receive = host.receive + 1
                /\ host'.given = Append(host.given, m.chunk)
          /\ host'.send = host.send /\ host'.sent = host.sent /\ host'.last = host.last
          /\ host'.state = host.state /\ host'.connection = host.connection
      <4>1. CASE m.seq = host.receive
        <5>1. host' = [host EXCEPT !.receive = host.receive + 1,
                                   !.given = Append(host.given, m.chunk)]
          BY <1>4, <4>1 DEF HostReceiveData, IsNextData
        <5> QED
          BY <4>1, <5>1 DEF Typed, HostTyped, HostRecord
      <4>2. CASE m.seq < host.receive
        <5>1. host' = host
          BY <1>4, <2>3, <4>2 DEF HostReceiveData, IsNextData
        <5> QED
          BY <4>2, <5>1
      <4> QED
        BY <2>3, <2>5, <4>1, <4>2
    <3>4. host'.lock <=> host.lock
      <4>1. CASE host' = host
        BY <4>1
      <4>2. CASE host' = [host EXCEPT !.receive = @ + 1, !.given = Append(@, m.chunk)]
        BY <4>2 DEF Typed, HostTyped, HostRecord
      <4> QED
        BY <1>4, <4>1, <4>2 DEF HostReceiveData
    <3>5. Phase'
      BY <1>1, <1>2, <3>2, <3>3, PhaseStays DEF FirstConnection, Phase
    <3>6. NoNews(net, net', "host", "device") /\ NoAcks(net, net', "host")
      BY <3>2 DEF NoNews, NoAcks
    <3>7. HostSends => HostSends'
      <4> SUFFICES ASSUME HostSends PROVE HostSends'
        OBVIOUS
      <4>1. Sending(net', host', "host", "device")
        BY <3>3, <3>6, SendingStays DEF HostSends
      <4>2. Outstanding(host') <=> Outstanding(host)
        BY <3>3 DEF Outstanding
      <4> QED
        BY <1>1, <3>4, <4>1, <4>2 DEF HostSends
    <3>8. DeviceSends => DeviceSends'
      BY <1>1, <3>1, SendingConfirmed DEF DeviceSends
    <3>9. Delivered(net, host, device, "host") => Delivered(net', host', device', "host")
      BY <1>1, <3>3, <3>6, DeliveredStays
    <3>10. DeviceSends /\ Delivered(net, device, host, "device") => Delivered(net', device', host', "device")
      <4>1. CASE m.seq < host.receive
        <5>1. host'.receive = host.receive /\ host'.given = host.given
          BY <2>3, <3>3, <4>1
        <5> QED
          BY <1>1, <3>1, <4>1, <5>1, DeliveredAgain
      <4>2. CASE m.seq = host.receive
        <5>1. host'.receive = host.receive + 1 /\ host'.given = Append(host.given, m.chunk)
          BY <2>3, <3>3, <4>2
        <5>2. /\ device.sent \in Sent /\ device.send \in Nat /\ host.given \in Seq(Chunk)
              /\ \A a \in net : a.kind = "ack" => a.seq \in Nat
          BY Fields
        <5> QED
          BY <1>1, <2>3, <3>1, <4>2, <5>1, <5>2, DeliveredMore DEF DeviceSends
      <4> QED
        BY <2>3, <2>5, <4>1, <4>2
    <3> QED
      BY <1>1, <3>3, <3>5, <3>7, <3>8, <3>9, <3>10 DEF FirstConnection, DeviceUp, HostUp
  <2> QED
    BY <2>3, <2>4, <2>5
<1> QED
  BY <1>3, <1>4

\* receive_ack of the host: the lock it releases was taken for the chunk acknowledged.
LEMMA HostAckStep ==
  ASSUME Typed, FirstConnection, connects <= 1, NEW m \in net, HostReceiveAck(m)
  PROVE  FirstConnection'
<1>1. /\ UNCHANGED << device, worker, acking, writing, outbox, connects >>
      /\ m.to = "host" /\ m.kind = "ack"
  BY DEF HostReceiveAck, deviceVars, HostHandles
<1>2. device.connection = 1
  BY <1>1 DEF FirstConnection, Phase, Fresh
<1>3. CASE m.seq < host.send /\ Arrive(m, {}) /\ UNCHANGED host
  <2>1. net' \subseteq net
    BY <1>3 DEF Arrive
  <2>2. Phase'
    BY <1>1, <1>2, <1>3, <2>1, PhaseStays DEF FirstConnection, Phase
  <2> QED
    BY <1>1, <1>3, <2>1, <2>2, QuietStep
<1>4. CASE /\ IsAck(m.seq, host.send) /\ Arrive(m, {})
           /\ host' = [host EXCEPT !.send = @ + 1, !.last = NoData, !.lock = FALSE]
  <2>1. net' \subseteq net /\ m.seq = host.send
    BY <1>4 DEF Arrive, IsAck
  <2>2. /\ host'.send = host.send + 1 /\ host'.sent = host.sent /\ host'.last = NoData
        /\ host'.receive = host.receive /\ host'.given = host.given
        /\ host'.state = host.state /\ host'.connection = host.connection
    BY <1>4 DEF Typed, HostTyped, HostRecord
  <2>3. Phase'
    BY <1>1, <1>2, <2>1, <2>2, PhaseStays DEF FirstConnection, Phase
  <2>4. /\ NoNews(net, net', "device", "host") /\ NoNews(net, net', "host", "device")
        /\ NoAcks(net, net', "device") /\ NoAcks(net, net', "host")
    BY <2>1 DEF NoNews, NoAcks
  <2>5. HostSends => HostSends'
    <3> SUFFICES ASSUME HostSends PROVE HostSends'
      OBVIOUS
    <3>1. Outstanding(host)
      BY <1>1, <2>1 DEF HostSends, Sending, Genuine, Outstanding
    <3>2. ~writing /\ outbox = << >>
      BY <3>1 DEF HostSends
    <3>3. Sending(net', host', "host", "device") /\ ~Outstanding(host')
      BY <2>2, <2>4, Fields, SendingAcked DEF HostSends
    <3> QED
      BY <1>1, <3>2, <3>3 DEF HostSends
  <2>6. DeviceSends => DeviceSends'
    BY <1>1, <2>4, SendingStays DEF DeviceSends
  <2>7. Delivered(net, host, device, "host") => Delivered(net', host', device', "host")
    BY <1>1, <2>1, <2>2, <2>4, Fields, DeliveredAcked
  <2>8. Delivered(net, device, host, "device") => Delivered(net', device', host', "device")
    BY <1>1, <2>2, <2>4, DeliveredStays
  <2> QED
    BY <1>1, <2>2, <2>3, <2>5, <2>6, <2>7, <2>8 DEF FirstConnection, DeviceUp, HostUp
<1>5. CASE Arrive(m, SendDisconnect("device")) /\ host' = HostDisconnect(host)
  <2>1. \A a \in net' : a \in net \/ a.kind = "disconnect"
    BY <1>5 DEF Arrive, SendDisconnect, Command, Message
  <2>2. host'.connection = host.connection /\ host'.state = "disconnected"
    BY <1>5, ResetTyped DEF Typed, HostTyped
  <2>3. Phase'
    BY <1>1, <1>2, <2>1, <2>2, PhaseStays DEF FirstConnection, Phase
  <2> QED
    BY <1>1, <1>5, <2>1, <2>3, HostLeaves
<1> QED
  BY <1>3, <1>4, <1>5, Zenon DEF HostReceiveAck

\* write takes the lock, and then hands its packet to run_loop.
LEMMA HostWriteStep ==
  ASSUME Typed, FirstConnection, connects <= 1, HostWrite \/ HostPut
  PROVE  FirstConnection'
<1>1. UNCHANGED << deviceVars, net, connects >>
  BY DEF HostWrite, HostPut
<1>2. /\ host'.send = host.send /\ host'.sent = host.sent /\ host'.last = host.last
      /\ host'.receive = host.receive /\ host'.given = host.given
      /\ host'.state = host.state /\ host'.connection = host.connection
  BY DEF HostWrite, HostPut, Typed, HostTyped, HostRecord
<1>3. Phase'
  BY <1>1, <1>2, PhaseStays DEF FirstConnection, Phase, Fresh, deviceVars
<1>4. /\ NoNews(net, net', "device", "host") /\ NoNews(net, net', "host", "device")
      /\ NoAcks(net, net', "device") /\ NoAcks(net, net', "host")
  BY <1>1 DEF NoNews, NoAcks
<1>5. HostSends => HostSends'
  <2> SUFFICES ASSUME HostSends PROVE HostSends'
    OBVIOUS
  <2>1. Sending(net', host', "host", "device") /\ (Outstanding(host') <=> Outstanding(host))
    BY <1>2, <1>4, SendingStays DEF HostSends, Outstanding
  <2>2. CASE HostWrite
    <3>1. /\ ~writing /\ ~host.lock /\ writing' /\ UNCHANGED outbox
          /\ host' = [host EXCEPT !.lock = TRUE]
      BY <2>2 DEF HostWrite
    <3>2. host'.lock
      BY <3>1 DEF Typed, HostTyped, HostRecord
    <3>3. outbox = << >> /\ ~Outstanding(host)
      BY <3>1 DEF HostSends
    <3> QED
      BY <2>1, <3>1, <3>2, <3>3 DEF HostSends
  <2>3. CASE HostPut
    <3>1. /\ writing /\ ~writing' /\ UNCHANGED host /\ outbox' = Append(outbox, written.host + 1)
      BY <2>3 DEF HostPut
    <3>2. outbox = << >> /\ ~Outstanding(host) /\ host.lock
      BY <3>1 DEF HostSends
    <3>3. Len(outbox') = 1
      BY <3>1, <3>2
    <3> QED
      BY <2>1, <3>1, <3>2, <3>3 DEF HostSends
  <2> QED
    BY <2>2, <2>3
<1>6. DeviceSends => DeviceSends'
  BY <1>1, <1>4, SendingStays DEF DeviceSends, deviceVars
<1>7. /\ Delivered(net, device, host, "device") => Delivered(net', device', host', "device")
      /\ Delivered(net, host, device, "host") => Delivered(net', host', device', "host")
  BY <1>1, <1>2, <1>4, DeliveredStays DEF deviceVars
<1> QED
  BY <1>1, <1>2, <1>3, <1>5, <1>6, <1>7 DEF FirstConnection, DeviceUp, HostUp, deviceVars

\* run_loop sends the packet that write handed over, the only one.
LEMMA HostSendStep ==
  ASSUME Typed, FirstConnection, connects <= 1, HostSend
  PROVE  FirstConnection'
<1>1. /\ UNCHANGED << deviceVars, writing, connects >> /\ outbox # << >> /\ outbox' = Tail(outbox)
      /\ net' = net \cup {Message("device", "data", host.send, Head(outbox))}
  BY DEF HostSend
<1>2. /\ host'.send = host.send /\ host'.receive = host.receive /\ host'.given = host.given
      /\ host'.sent = host.sent \cup {<< host.send, Head(outbox) >>}
      /\ host'.last = [seq |-> host.send, chunk |-> Head(outbox)]
      /\ host'.state = host.state /\ host'.connection = host.connection
  BY DEF HostSend, Typed, HostTyped, HostRecord
<1>3. host'.lock <=> host.lock
  BY DEF HostSend, Typed, HostTyped, HostRecord
<1>4. \A a \in net' : a \in net \/ (a.to = "device" /\ a.kind = "data")
  BY <1>1 DEF Message
<1>5. Phase'
  BY <1>1, <1>2, <1>4, PhaseStays DEF FirstConnection, Phase, Fresh, deviceVars
<1>6. /\ NoNews(net, net', "device", "host")
      /\ NoAcks(net, net', "device") /\ NoAcks(net, net', "host")
  BY <1>4 DEF NoNews, NoAcks
<1>7. HostSends => HostSends'
  <2> SUFFICES ASSUME HostSends PROVE HostSends'
    OBVIOUS
  <2>1. Len(outbox) = 1 /\ ~Outstanding(host) /\ ~writing /\ host.lock
    BY <1>1 DEF HostSends
  <2>2. Head(outbox) \in Chunk /\ outbox' = << >>
    BY <1>1, <2>1 DEF Typed, RestTyped
  <2>3. Sending(net', host', "host", "device")
    BY <1>1, <1>2, <2>1, <2>2, Fields, SendingMore DEF HostSends
  <2> QED
    BY <1>1, <1>3, <2>1, <2>2, <2>3 DEF HostSends
<1>8. DeviceSends => DeviceSends'
  BY <1>1, <1>6, SendingStays DEF DeviceSends, deviceVars
<1>9. /\ Delivered(net, device, host, "device") => Delivered(net', device', host', "device")
      /\ Delivered(net, host, device, "host") => Delivered(net', host', device', "host")
  BY <1>1, <1>2, <1>6, DeliveredStays DEF deviceVars
<1> QED
  BY <1>1, <1>2, <1>5, <1>7, <1>8, <1>9 DEF FirstConnection, DeviceUp, HostUp, deviceVars

\* The retry of the host.
LEMMA HostRetryStep ==
  ASSUME Typed, FirstConnection, connects <= 1, HostRetry
  PROVE  FirstConnection'
<1>1. /\ UNCHANGED << deviceVars, host, writing, outbox, connects >>
      /\ host.last # NoData /\ host.state = "connected"
      /\ net' = net \cup {Resend("device", host.last)}
  BY DEF HostRetry, hostVars
<1>2. device.connection = 1 /\ HostUp
  BY <1>1 DEF FirstConnection, Phase, HostUp
<1>3. \A a \in net' : a \in net \/ (a.to = "device" /\ a.kind = "data")
  BY <1>1 DEF Resend, Message
<1>4. Phase'
  BY <1>1, <1>2, <1>3, PhaseStays DEF FirstConnection, Phase, deviceVars
<1>5. /\ NoNews(net, net', "device", "host")
      /\ NoAcks(net, net', "device") /\ NoAcks(net, net', "host")
  BY <1>3 DEF NoNews, NoAcks
<1>6. Sending(net', host', "host", "device")
  BY <1>1, <1>2, SendingAgain DEF FirstConnection, HostSends
<1>7. HostSends'
  BY <1>1, <1>2, <1>6 DEF FirstConnection, HostSends
<1>8. DeviceSends => DeviceSends'
  BY <1>1, <1>5, SendingStays DEF DeviceSends, deviceVars
<1>9. /\ Delivered(net, device, host, "device") => Delivered(net', device', host', "device")
      /\ Delivered(net, host, device, "host") => Delivered(net', host', device', "host")
  BY <1>1, <1>5, DeliveredStays DEF deviceVars
<1> QED
  BY <1>1, <1>2, <1>4, <1>7, <1>8, <1>9 DEF FirstConnection, DeviceUp, HostUp, deviceVars

\* A datagram is lost.
LEMMA NetworkStep ==
  ASSUME Typed, FirstConnection, connects <= 1, (\E m \in net : Lose(m)) \/ UNCHANGED vars
  PROVE  FirstConnection'
<1>1. net' \subseteq net /\ UNCHANGED << deviceVars, hostVars, connects >>
  BY DEF Lose, vars
<1>2. Phase'
  BY <1>1, PhaseStays DEF FirstConnection, Phase, Fresh, deviceVars, hostVars
<1> QED
  BY <1>1, <1>2, QuietStep DEF deviceVars, hostVars

\* The one connect request is the host's first.
LEMMA ConnectStep ==
  ASSUME Typed, FirstConnection, connects' <= 1, HostConnect
  PROVE  FirstConnection'
<1>1. /\ UNCHANGED << deviceVars, hostVars >> /\ connects' = connects + 1
      /\ net' = net \cup {Command("device", "connect")} /\ connects \in Nat
  BY DEF HostConnect, Typed, RestTyped
<1>2. connects = 0 /\ connects' = 1
  BY <1>1
<1>3. \A a \in net' : a \in net \/ (a = Command("device", "connect") /\ a.kind = "connect" /\ a.to = "device")
  BY <1>1 DEF Command, Message
<1>4. Phase'
  BY <1>1, <1>2, <1>3 DEF FirstConnection, Phase, Fresh, deviceVars, hostVars
<1> QED
  BY <1>1, <1>3, <1>4, QuietStep DEF deviceVars, hostVars

-----------------------------------------------------------------------------
(* The theorems.                                                           *)

\* Nothing was sent.
LEMMA StreamInvInit == Init => Typed /\ StreamInv
<1> SUFFICES ASSUME Init PROVE Typed /\ StreamInv
  OBVIOUS
<1>1. << >> \in Seq(Chunk) /\ << >> \in Seq(Works) /\ {} \in Sent
  BY DEF Sent
<1>2. Typed
  <2>1. DeviceTyped
    BY <1>1, NoDataIsNoData DEF Init, DeviceTyped, DeviceRecord, States
  <2>2. HostTyped
    BY <1>1, NoDataIsNoData DEF Init, HostTyped, HostRecord, States
  <2>3. NetTyped /\ RestTyped
    BY <1>1 DEF Init, NetTyped, RestTyped, Idle
  <2>4. TxTyped
    BY <1>1, NoDataIsNoData DEF Init, TxTyped
  <2> QED
    BY <2>1, <2>2, <2>3, <2>4 DEF Typed
<1>3. Phase
  BY DEF Init, Phase, Fresh, Idle
<1>4. DeviceSends /\ HostSends
  BY DEF Init, DeviceSends, HostSends, Sending, Numbered, Genuine, LastSent, Outstanding, Idle
<1>5. Delivered(net, device, host, "device") /\ Delivered(net, host, device, "host")
  BY DEF Init, Delivered
<1> QED
  BY <1>2, <1>3, <1>4, <1>5 DEF StreamInv, FirstConnection

\* Every step keeps the argument.
LEMMA StreamInvKept ==
  ASSUME OneResponse, Typed, StreamInv, [Next]_vars
  PROVE  StreamInv'
<1> SUFFICES ASSUME connects' <= 1 PROVE FirstConnection'
  BY DEF StreamInv
<1>1. CASE HostConnect
  <2>1. connects <= 1
    BY <1>1 DEF HostConnect, Typed, RestTyped
  <2> QED
    BY <1>1, <2>1, ConnectStep DEF StreamInv
<1>2. CASE \E m \in net : DeviceReceive(m)
  <2>1. PICK m \in net : DeviceReceive(m)
    BY <1>2
  <2>2. connects <= 1
    BY <2>1 DEF DeviceReceive, receive_connect_request, receive_disconnect_request, receive_data,
                receive_ack, receive_nack
  <2> QED
    BY <2>1, <2>2, ConnectRequestStep, DisconnectRequestStep, DeviceDataStep, DeviceAckStep
       DEF DeviceReceive, StreamInv
<1>3. CASE \E m \in net : HostReceive(m)
  <2>1. PICK m \in net : HostReceive(m)
    BY <1>3
  <2>2. connects <= 1
    BY <2>1 DEF HostReceive, receive_connect_response, HostReceiveDisconnect, HostReceiveData,
                HostReceiveAck, HostReceiveNack
  <2> QED
    BY <2>1, <2>2, ConnectResponseStep, HostDisconnectStep, HostDataStep, HostAckStep
       DEF HostReceive, StreamInv
<1>4. CASE AckDone \/ packet_write \/ Timer \/ Worker
  <2>1. connects <= 1
    BY <1>4 DEF AckDone, packet_write, Timer, Worker, connected_work, disconnected_work,
                TxNothing, TxClaim, TxTake, TxTimeout, send_data, CheckIdle, CheckRetry, CheckTimeout
  <2> QED
    BY <1>4, <2>1, AckDoneStep, ChannelStep, TxTakeStep, DeviceSendStep, DeviceRetryStep,
       DeviceTimeoutStep DEF Worker, StreamInv
<1>5. CASE HostWrite \/ HostPut \/ HostSend \/ HostRetry \/ HostTimeout
           \/ (\E m \in net : Lose(m)) \/ UNCHANGED vars
  <2>1. connects <= 1
    BY <1>5 DEF HostWrite, HostPut, HostSend, HostRetry, HostTimeout, Lose, vars
  <2> QED
    BY <1>5, <2>1, HostWriteStep, HostSendStep, HostRetryStep, HostDisconnectStep, NetworkStep
       DEF StreamInv
<1> QED
  BY <1>1, <1>2, <1>3, <1>4, <1>5 DEF Next

\* What one side was given is all that the other sent under each number.
LEMMA DeliveredInOrder ==
  ASSUME NEW n, NEW s, NEW r, NEW sender, NEW peer, s.send \in Nat, s.sent \in Sent,
         Sending(n, s, sender, peer), Delivered(n, s, r, sender)
  PROVE  InOrder(s.sent, r.given, s.send)
<1>1. Len(r.given) = r.receive /\ r.receive \in {s.send, s.send + 1} /\ r.receive \in Nat
  BY DEF Delivered
<1>2. ASSUME NEW i \in 1 .. Len(r.given)
      PROVE  {p \in s.sent : p[1] = i - 1} = {<< i - 1, r.given[i] >>}
  <2> DEFINE p0 == << i - 1, r.given[i] >>
  <2>1. p0 \in s.sent /\ p0[1] = i - 1
    BY <1>1 DEF Delivered
  <2>2. \A p \in s.sent : p[1] = p0[1] => p = p0
    BY <2>1 DEF Sending, Numbered
  <2> HIDE DEF p0
  <2> QED
    BY <2>1, <2>2 DEF p0
<1> QED
  BY <1>1, <1>2 DEF InOrder

\* What the two theorems promise follows.
LEMMA StreamInvImplies ==
  ASSUME Typed, StreamInv
  PROVE  DeliversInOrder /\ SendsWhenAcked
<1>1. SameConnection /\ connects = 1 => DeviceUp /\ HostUp /\ FirstConnection
  BY DEF SameConnection, DeviceUp, HostUp, StreamInv
<1>2. DeviceToHost
  BY <1>1, Fields, DeliveredInOrder DEF DeviceToHost, FirstConnection, DeviceSends
<1>3. HostToDevice
  BY <1>1, Fields, DeliveredInOrder DEF HostToDevice, FirstConnection, HostSends
<1>4. SendsWhenAcked
  <2> SUFFICES ASSUME connects = 1, device.state = "connected", worker.at = "send", ~acking,
                      device.last # NoData
               PROVE  FALSE
    BY DEF SendsWhenAcked
  <2>1. DeviceSends
    BY DEF StreamInv, FirstConnection, DeviceUp
  <2>2. << device.last.seq, device.last.chunk >> \in device.sent /\ device.last.seq = device.send
    BY <2>1 DEF DeviceSends, Sending, LastSent
  <2>3. Outstanding(device)
    BY <2>2 DEF Outstanding
  <2> QED
    BY <2>1, <2>3 DEF DeviceSends
<1> QED
  BY <1>2, <1>3, <1>4 DEF DeliversInOrder

\* The types and the argument hold throughout.
LEMMA StreamAlways == ASSUME OneResponse PROVE Spec => [](Typed /\ StreamInv)
<1>1. Init => Typed /\ StreamInv
  BY StreamInvInit
<1>2. Typed /\ StreamInv /\ [Next]_vars => (Typed /\ StreamInv)'
  BY TypedKept, StreamInvKept
<1> QED
  BY <1>1, <1>2, PTL DEF Spec

\* Both directions of the host's first connection deliver every chunk exactly once and
\* in order, and the semaphore of the device and the lock of the host are given back
\* only for chunks that the other side was given (receive_data and receive_ack of
\* fd_rpc_stream.c and rpc.py), if the network repeats neither the request nor its
\* response.
THEOREM StreamDelivers == ASSUME OneResponse PROVE Spec => []DeliversInOrder
  BY StreamAlways, StreamInvImplies, PTL

\* The work queue comes to fd_rpc_stream_send_data only when last_send_data is clear, as
\* the assertion there says, until the host asks for a second connection and outside
\* the rest of receive_ack.
THEOREM StreamSendsWhenAcked == ASSUME OneResponse PROVE Spec => []SendsWhenAcked
  BY StreamAlways, StreamInvImplies, PTL
=============================================================================
