-------------------------------- MODULE Ble ---------------------------------
(***************************************************************************)
(* Bluetooth: connections, advertising and transmit power (fd_ble.c), and  *)
(* the byte stream over an L2CAP channel (fd_ble_l2cap.c).                 *)
(*                                                                         *)
(* Three actors share fd_ble_l2cap: the thread of the Bluetooth stack,     *)
(* which calls the chan_ops, the work queue, which tells the application,  *)
(* and the application.  The stack and the controller are external: a step *)
(* of theirs is a callback into this code, or the answer to a call.        *)
(***************************************************************************)
EXTENDS Integers, Sequences, SequencesExt, FiniteSets

CONSTANTS
    Conns,          \* the connections of the stack
    L2capRing,      \* capacity of rx_ring_buf (1024 in the code)
    L2capTxRing,    \* capacity of tx_ring_buf: 0, it is never given its buffer
    RecvChunk,      \* octets of one call of recv (64 in the code)
    SduSizes, SendSizes,
    Levels,         \* transmit power levels that the controller can have
    SoftDevices,    \* a function from the hashes in the table to revisions
    Hashes,         \* the hashes a controller may have
    MaxOctets, MaxChannels, MaxHostCalls

\* A hash has seven octets.
ASSUME BleAssumption ==
    /\ IsFiniteSet(Conns) /\ "none" \notin Conns
    /\ L2capRing \in Nat /\ L2capTxRing = 0 /\ RecvChunk \in Nat \ {0}
    /\ SduSizes \subseteq Nat /\ SendSizes \subseteq Nat
    /\ Hashes \subseteq [1..7 -> 0..255]

VARIABLES ble, stack, l2cap, application,
          part      \* what a behaviour is about: the calls of fd_ble.c, or the channel

bleVars == <<ble, stack, l2cap, application, part>>
None == "none"

-----------------------------------------------------------------------------
(* Connections (fd_ble.c). *)

Connect(c) ==
    /\ c \notin stack.live
    /\ stack' = [stack EXCEPT !.live = @ \cup {c}, !.refs[c] = @ + 1, !.adv = FALSE, !.calls = @ + 1]
    /\ ble' = [ble EXCEPT !.conn = c]
    /\ application' = [application EXCEPT !.conns = @ \cup {c}]
    /\ UNCHANGED l2cap

\* fd_ble_connected is also called for a connection that failed.
ConnectFailed == stack' = [stack EXCEPT !.adv = FALSE, !.calls = @ + 1] /\ UNCHANGED <<ble, l2cap, application>>

\* fd_ble_disconnected clears conn whichever connection it is about.  The stack
\* has closed the channel before.
Disconnected(c) ==
    /\ c \in stack.live /\ stack.chan # c
    /\ stack' = [stack EXCEPT !.live = @ \ {c}, !.refs[c] = @ - 1, !.closing = @ \ {c}]
    /\ ble' = [ble EXCEPT !.conn = None, !.disconnect_reason = IF c \in stack.closing THEN "local" ELSE "remote"]
    /\ application' = [application EXCEPT !.conns = @ \ {c}]
    /\ UNCHANGED l2cap

\* fd_ble_disconnect
Disconnect ==
    /\ ble.conn # None
    /\ stack' = [stack EXCEPT !.closing = @ \cup {ble.conn}, !.calls = @ + 1]
    /\ UNCHANGED <<ble, l2cap, application>>

\* The payload of advertisements: fd_ble_set_service_uuid, fd_ble_set_manufacturer_data.
SetServiceUuid == ble' = [ble EXCEPT !.uuid = "set"] /\ UNCHANGED <<stack, l2cap, application>>
SetManufacturerData == ble' = [ble EXCEPT !.data = "set"] /\ UNCHANGED <<stack, l2cap, application>>

\* fd_ble_start_advertising: advertising is stopped first; the controller may
\* refuse to start (-EIO), which is passed over in silence.
StartAdvertising ==
    \E result \in {"ok", "eio"} :
        /\ stack' = [stack EXCEPT !.adv = result = "ok", !.calls = @ + 1,
                                  !.payload = IF result = "ok" THEN <<ble.uuid, ble.data>> ELSE @]
        /\ UNCHANGED <<ble, l2cap, application>>
StopAdvertising == stack' = [stack EXCEPT !.adv = FALSE, !.calls = @ + 1] /\ UNCHANGED <<ble, l2cap, application>>

(* Commands to the controller: a buffer, a response.  Answered is ok, err or nobuf. *)

\* fd_ble_set_tx_power: the controller chooses the closest level it has.
Closest(level) ==
    CHOOSE l \in Levels : \A k \in Levels : (l - level) * (l - level) <= (k - level) * (k - level)
SetTxPower(h, handle, level, answered) ==
    IF answered # "ok" THEN [h EXCEPT !.asserts = @ + 1] ELSE [h EXCEPT !.power[handle] = Closest(level)]
GetTxPower(h, handle, answered) ==
    IF answered # "ok" THEN [h EXCEPT !.asserts = @ + 1, !.got = -1] ELSE [h EXCEPT !.got = h.power[handle]]

\* fd_ble_set_advertising_tx_power, fd_ble_set_connection_tx_power: set, read
\* back and compare.
SetPower(handle, level, set, get) ==
    LET h == GetTxPower(SetTxPower([power |-> stack.power, got |-> 0, asserts |-> 0], handle, level, set),
                        handle, get)
    IN /\ stack' = [stack EXCEPT !.power = h.power, !.calls = @ + 1]
       /\ application' = [application EXCEPT !.call = [op |-> "power", handle |-> handle, level |-> level,
                                       fine |-> h.asserts = 0 /\ h.got = level]]
       /\ UNCHANGED <<ble, l2cap>>
SetAdvertisingTxPower ==
    \E level \in Levels \cup {5}, set, get \in {"ok", "err", "nobuf"} : SetPower("adv", level, set, get)
SetConnectionTxPower ==
    \E level \in Levels, set, get \in {"ok", "err"} : ble.conn # None /\ SetPower("conn", level, set, get)

\* fd_ble_get_version: the octets of the hash come in three fields, the second
\* and the third of them little endian.
Fields(hash) == [fw_version |-> hash[1], fw_revision |-> hash[2] + 256 * hash[3],
                 fw_build |-> <<hash[4] + 256 * hash[5], hash[6] + 256 * hash[7]>>]
GitHash(rp) == <<rp.fw_version, rp.fw_revision % 256, rp.fw_revision \div 256,
                 rp.fw_build[1] % 256, rp.fw_build[1] \div 256,
                 rp.fw_build[2] % 256, rp.fw_build[2] \div 256>>
LookupSoftDeviceRevision(hash) == IF hash \in DOMAIN SoftDevices THEN SoftDevices[hash] ELSE None
GetVersion ==
    \E hash \in Hashes, answered \in {"ok", "err", "nobuf"} :
        LET found == GitHash(Fields(hash))
            revision == LookupSoftDeviceRevision(found)
        IN /\ stack' = [stack EXCEPT !.calls = @ + 1]
           /\ application' = [application EXCEPT !.call = [op |-> "version", hash |-> hash, fine |-> answered = "ok",
                                           revision |-> revision, digits |-> found]]
           /\ UNCHANGED <<ble, l2cap>>

-----------------------------------------------------------------------------
(* The channel (fd_ble_l2cap.c). *)

\* k_work_submit_to_queue: an item that is already waiting stays where it is.
Submit(queue, work) == IF \E i \in DOMAIN queue : queue[i] = work THEN queue ELSE Append(queue, work)
Waits(queue, work) == \E i \in DOMAIN queue : queue[i] = work

\* l2cap_accept: one channel at a time.
ChanConnected ==
    /\ l2cap.channels < MaxChannels
    /\ stack.chan = None
    /\ \E c \in stack.live : stack' = [stack EXCEPT !.chan = c]
    /\ l2cap' = [l2cap EXCEPT !.connected = TRUE, !.queue = Submit(@, "connected"), !.channels = @ + 1,
                              !.merged = @ \/ Waits(l2cap.queue, "connected")]
    /\ UNCHANGED <<ble, application>>

\* fd_ble_l2cap_chan_ops_disconnected: the rings are emptied in the stack's
\* thread, perhaps while the work queue is between reading and removing octets.
ChanDisconnected ==
    /\ stack.chan # None
    /\ stack' = [stack EXCEPT !.chan = None]
    /\ l2cap' = [l2cap EXCEPT !.connected = FALSE, !.rx = <<>>, !.tx = <<>>, !.lost = @ + Len(l2cap.rx),
                              !.claimed = 0, !.queue = Submit(@, "disconnected"),
                              !.merged = @ \/ Waits(l2cap.queue, "disconnected")]
    /\ UNCHANGED <<ble, application>>

\* A mutant of ChanRecv: what does not fit is dropped and not counted.
ChanRecvUncounted ==
    \E n \in SduSizes :
        /\ stack.chan # None /\ l2cap.received + n <= MaxOctets
        /\ LET room == L2capRing - Len(l2cap.rx)
               put == IF n > room THEN room ELSE n
           IN l2cap' = [l2cap EXCEPT !.rx = @ \o [i \in 1..put |-> l2cap.received + i],
                                     !.received = @ + n, !.queue = Submit(@, "recv")]
        /\ UNCHANGED <<ble, stack, application>>

\* fd_ble_l2cap_chan_ops_recv: what does not fit is dropped and counted.
ChanRecv ==
    \E n \in SduSizes :
        /\ stack.chan # None /\ l2cap.received + n <= MaxOctets
        /\ LET room == L2capRing - Len(l2cap.rx)
               put == IF n > room THEN room ELSE n
           IN l2cap' = [l2cap EXCEPT !.rx = @ \o [i \in 1..put |-> l2cap.received + i],
                                     !.received = @ + n, !.rx_drop_count = @ + (n - put),
                                     !.queue = Submit(@, "recv")]
        /\ UNCHANGED <<ble, stack, application>>

\* fd_ble_l2cap_tx_check and fd_ble_l2cap_tx: octets of the ring in pieces,
\* until there are none or the stack takes no more.
TxCheck(l) ==
    IF stack.chan = None \/ l.tx = <<>> THEN l
    ELSE [l EXCEPT !.tx = <<>>, !.tx_count = @ + Len(l.tx), !.queue = Submit(@, "send")]

\* fd_ble_l2cap_send
Send ==
    \E size \in SendSizes :
        LET accepts == l2cap.connected /\ size <= L2capTxRing - Len(l2cap.tx)
            put == [l2cap EXCEPT !.tx = @ \o [i \in 1..size |-> 0]]
        IN /\ l2cap' = IF accepts THEN TxCheck(put) ELSE l2cap
           /\ application' = [application EXCEPT !.call = [op |-> "send", size |-> size, accepted |-> accepts]]
           /\ stack' = [stack EXCEPT !.calls = @ + 1]
           /\ UNCHANGED ble

(* The work queue. *)

\* The queue's thread takes the next item.  fd_ble_l2cap_connected_work and
\* fd_ble_l2cap_disconnected_work tell the application.
RunNotification ==
    /\ l2cap.running = None /\ l2cap.queue # <<>> /\ Head(l2cap.queue) \in {"connected", "disconnected"}
    /\ l2cap' = [l2cap EXCEPT !.queue = Tail(@)]
    /\ application' = [application EXCEPT !.view = Head(l2cap.queue)]
    /\ UNCHANGED <<ble, stack>>

\* fd_ble_l2cap_recv_work: ring_buf_get looks at octets, copies them and then
\* removes them; then the application gets the copy.  It goes on until the ring
\* is empty.
RunRecv ==
    /\ l2cap.running = None /\ l2cap.queue # <<>> /\ Head(l2cap.queue) = "recv"
    /\ l2cap' = [l2cap EXCEPT !.queue = Tail(@), !.running = "recv"]
    /\ UNCHANGED <<ble, stack, application>>
RecvClaim ==
    /\ l2cap.running = "recv"
    /\ LET n == IF Len(l2cap.rx) > RecvChunk THEN RecvChunk ELSE Len(l2cap.rx)
       IN l2cap' = IF n = 0 THEN [l2cap EXCEPT !.running = None]
                   ELSE [l2cap EXCEPT !.running = "claimed", !.claimed = n, !.copy = SubSeq(l2cap.rx, 1, n)]
    /\ UNCHANGED <<ble, stack, application>>
\* The removal does nothing when the ring was emptied since.
RecvDeliver ==
    /\ l2cap.running = "claimed"
    /\ l2cap' = [l2cap EXCEPT !.running = "recv", !.rx = SubSeq(@, l2cap.claimed + 1, Len(@)),
                              !.lost = @ - (Len(l2cap.copy) - l2cap.claimed),
                              !.claimed = 0, !.copy = <<>>]
    /\ application' = [application EXCEPT !.got = @ \o l2cap.copy]
    /\ UNCHANGED <<ble, stack>>

\* fd_ble_initialize
BleInitialized == [conn |-> None, disconnect_reason |-> None, uuid |-> "configured", data |-> "configured"]

\* fd_ble_l2cap_initialize: there is no ring_buf_init of the transmit ring.
ChannelInitialized ==
    [connected |-> FALSE, rx |-> <<>>, tx |-> <<>>, tx_count |-> 0, received |-> 0,
     rx_drop_count |-> 0, lost |-> 0, queue |-> <<>>, running |-> None, claimed |-> 0,
     copy |-> <<>>, channels |-> 0, merged |-> FALSE]

BleInit ==
    /\ ble = BleInitialized
    /\ stack = [live |-> {}, refs |-> [c \in Conns |-> 0], closing |-> {}, chan |-> None, adv |-> FALSE,
                payload |-> <<>>, power |-> [h \in {"adv", "conn"} |-> 0], calls |-> 0]
    /\ l2cap = ChannelInitialized
    /\ application = [conns |-> {}, view |-> "disconnected", got |-> <<>>, call |-> [op |-> None]]
    /\ part \in {"host", "stream"}

HostCall == stack.calls < MaxHostCalls
HostNext ==
    \/ (HostCall /\ (\/ ConnectFailed \/ Disconnect \/ StartAdvertising \/ StopAdvertising
                     \/ SetAdvertisingTxPower \/ SetConnectionTxPower \/ GetVersion))
    \/ SetServiceUuid \/ SetManufacturerData
StreamNext ==
    \/ (HostCall /\ Send)
    \/ ChanConnected \/ ChanDisconnected \/ ChanRecv
    \/ RunNotification \/ RunRecv \/ RecvClaim \/ RecvDeliver
BleNext ==
    /\ \/ \E c \in Conns : (HostCall /\ Connect(c)) \/ Disconnected(c)
       \/ (part = "host" /\ HostNext)
       \/ (part = "stream" /\ StreamNext)
    /\ UNCHANGED part

BleSpec == BleInit /\ [][BleNext]_bleVars

-----------------------------------------------------------------------------
(* Properties. *)

\* Octets reach the application at most once and in the order they were
\* received, also when the channel goes down while they are being delivered;
\* every octet that does not is counted as dropped, still in the ring or was
\* thrown away with its channel (fd_ble_l2cap_chan_ops_recv,
\* fd_ble_l2cap_recv_work, fd_ble_l2cap_chan_ops_disconnected).  When the queue
\* has run dry the ring is empty, and the application knows whether the channel
\* is up, unless a change was merged with an older one it had not been told of.
StreamInOrder ==
    /\ \A i, j \in DOMAIN application.got : i < j => application.got[i] < application.got[j]
    /\ l2cap.received = Len(application.got) + Len(l2cap.rx) + l2cap.rx_drop_count + l2cap.lost
    /\ l2cap.queue = <<>> /\ l2cap.running = None =>
            /\ l2cap.rx = <<>>
            /\ l2cap.merged \/ (application.view = "connected" <=> l2cap.connected)

\* The application is told of each connection; a connection that fd_ble.conn
\* names is live, and references are neither lost nor kept; with one connection
\* at a time fd_ble_is_connected is exact.  A power that was set without a
\* failed assertion is the controller's; a version is the one of the hash.
ConnectionsKnown ==
    /\ application.conns = stack.live
    /\ ble.conn # None => ble.conn \in stack.live
    /\ application.call.op = "power" /\ application.call.fine =>
            stack.power[application.call.handle] = application.call.level
    /\ \A c \in Conns : stack.refs[c] = (IF c \in stack.live THEN 1 ELSE 0)
    /\ Cardinality(Conns) = 1 => (ble.conn # None <=> stack.live # {})
    /\ application.call.op = "version" /\ application.call.fine =>
            /\ application.call.digits = application.call.hash
            /\ application.call.hash \in DOMAIN SoftDevices => application.call.revision = SoftDevices[application.call.hash]

\* What the channel hands to the application is what the peer sent, and no
\* connection is forgotten (fd_ble.c, fd_ble_l2cap.c).
BleFaithful == StreamInOrder /\ ConnectionsKnown
=============================================================================
