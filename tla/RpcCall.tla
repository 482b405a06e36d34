------------------------------ MODULE RpcCall ------------------------------
(***************************************************************************)
(* Remote procedure calls from a host program (rpc.py) to the device over  *)
(* USB: the call layer of the device (fd_rpc.c), its serial channel        *)
(* (fd_rpc_channel_usb.c), the server that streams the frame buffer        *)
(* (fd_rpc_server_ux.c) and, on the host, the transport, the serial        *)
(* channel and the calls.                                                  *)
(*                                                                         *)
(* A packet travels as two units, its head and its tail with the           *)
(* delimiter; the checksum accepts a head with its own tail and nothing    *)
(* else.  On the device interrupts fill and drain two ring buffers, and    *)
(* one work queue runs everything else, the server's send work included.   *)
(* A program of the host is killed and started again at any time: the      *)
(* bytes that it had not sent or not read are lost, and its invocation     *)
(* numbers start over.                                                     *)
(***************************************************************************)
EXTENDS Integers, Sequences, FiniteSets, SequencesExt

CONSTANTS
  Slots,       \* CONFIG_FIREFLY_SUBSYS_RPC_SERVER_CONTEXT_LIMIT, 1 .. n
  Buffers,     \* CONFIG_FIREFLY_SUBSYS_RPC_BUFFER_COUNT
  TxSize,      \* CONFIG_FIREFLY_SUBSYS_RPC_USB_TX_BUFFER_SIZE, in units
  RxSize,      \* CONFIG_FIREFLY_SUBSYS_RPC_USB_RX_BUFFER_SIZE, in units
  Chunks,      \* the responses with data that a frame buffer takes
  Methods,     \* the methods that the host calls
  MaxCalls,    \* the calls of one program of the host
  MaxPackets,  \* the packets that all programs of the host send
  MaxSessions, \* the programs of the host, one after the other
  MaxShortages \* how often work for another channel may hold buffers

ASSUME ConstantsAssumption ==
  /\ IsFiniteSet(Slots) /\ Slots = 1 .. Cardinality(Slots) /\ Buffers \in Nat \ {0}
  /\ TxSize \in Nat /\ TxSize >= 2 /\ RxSize \in Nat \ {0}
  /\ Chunks \in Nat \ {0}
  /\ Methods \subseteq {"set_screen", "large", "unknown", "frame_buffer_read"}
  /\ MaxCalls \in Nat /\ MaxPackets \in Nat /\ MaxSessions \in Nat /\ MaxShortages \in Nat

VARIABLES
  session,         \* the number of the host program, 0 before the first
  next_invocation, client_contexts, waiting, host_buffer, \* of the host program
  to_device, to_host,   \* the units on the bus and in the host's driver
  dtr,                  \* the host holds the port open
  rx_ring, rx_packet, tx_ring, tx_enabled, tx_claimed, \* of the USB channel
  connected, works,
  server_contexts, free_space_callback, frame_buffer_read, screen, \* of the device
  packets, leaks, dropped, cuts, bad, answers, shortages \* what happened so far

host_vars == << session, next_invocation, client_contexts, waiting, host_buffer, dtr, packets, answers >>
channel_vars == << rx_ring, rx_packet, tx_ring, tx_enabled, tx_claimed, connected, works >>
server_vars == << server_contexts, free_space_callback, frame_buffer_read, screen, leaks, dropped >>
fault_vars == << shortages, cuts, bad >>
vars == << host_vars, channel_vars, server_vars, to_device, to_host, fault_vars >>

None == [none |-> TRUE]

Streaming(method) == method = "frame_buffer_read"
Registered == {"set_screen", "large", "frame_buffer_read"}

Calls == [session : 1 .. MaxSessions, invocation : 1 .. MaxCalls, method : Methods]
Completed == Chunks + 1
Packets == [type : {"server_initialize", "server_request", "server_finalize", "client_response"},
            call : Calls, body : 0 .. Completed]

\* fd_rpc_channel_send_packet and Transport.write: a packet in its frame.
Frame(packet) == << [at |-> "head", packet |-> packet], [at |-> "tail", packet |-> packet] >>
FrameSize == 2
Frames(sent) ==
  [i \in 1 .. FrameSize * Len(sent) |->
     [at |-> IF i % 2 = 1 THEN "head" ELSE "tail", packet |-> sent[(i + 1) \div 2]]]

\* fd_rpc_channel_received_packet and Transport.receive: the length and the
\* checksum are those of one packet.
IsIntact(units) == units = Frame(Last(units).packet)

Lowest(slots) == CHOOSE s \in slots : \A t \in slots : s <= t

\* The units up to the next delimiter, and those after it.
Least(a, b) == IF a <= b THEN a ELSE b
NextPart(units) ==
  LET tails == {i \in DOMAIN units : units[i].at = "tail"}
  IN IF tails = {} THEN units ELSE SubSeq(units, 1, Lowest(tails))
AfterPart(units) == SubSeq(units, Len(NextPart(units)) + 1, Len(units))

-----------------------------------------------------------------------------
(* The call layer of the device: server contexts. *)

IsCall(context, call) ==
  context # None /\ context.method = call.method /\ context.invocation = call.invocation
IsCallOfMethod(context, call) == context # None /\ context.method = call.method

\* The session of a call is not in its packets: it is part of what is sent
\* only so that the properties can tell the programs of the host apart.
FreeSlots == {s \in Slots : server_contexts[s] = None}
fd_rpc_server_context_get(call) ==
  LET found == {s \in Slots : IsCall(server_contexts[s], call)}
  IN IF found = {} THEN 0 ELSE Lowest(found)

\* What a handler leaves behind, besides the ring buffer of the channel.
State(contexts, frame) == [contexts |-> contexts, frame |-> frame, sent |-> << >>, drops |-> FALSE]

FreeSpace == TxSize - Len(tx_ring)
\* net_buf_alloc, when work for another channel holds some of the buffers.
HasBuffer(taken, held) == taken + held < Buffers
Taken(taken) == /\ taken > 0 => shortages < MaxShortages
                /\ shortages' = IF taken > 0 THEN shortages + 1 ELSE shortages

-----------------------------------------------------------------------------
(* The server that streams the frame buffer: one reader for all streams. *)

NoReader == [slot |-> 0, offset |-> 0]

\* fd_rpc_server_ux_frame_buffer_close frees the context of the reader.
Freed(contexts, slot) == [s \in Slots |-> IF s = slot THEN None ELSE contexts[s]]

fd_rpc_server_ux_frame_buffer_close(state) ==
  [state EXCEPT !.contexts = Freed(@, state.frame.slot), !.frame = NoReader]

Response(context, body) ==
  [type |-> "client_response", call |-> context, body |-> body]

\* As many responses as there is space for.  Without a buffer the first one is
\* lost: the offset is past it before it is sent.  The last response closes the
\* stream whether it was sent or not.
IgnoresSpace(offset) ==
  Least(IF FreeSpace < FrameSize THEN 1 ELSE FreeSpace \div FrameSize, Completed - offset)
ResponsesThatFit(offset) ==
  Least(FreeSpace \div FrameSize, Completed - offset)

fd_rpc_server_ux_frame_buffer_read_send(state, taken, held) ==
  LET reader == state.frame
      count == ResponsesThatFit(reader.offset)
      tried == IF HasBuffer(taken, held) THEN count ELSE 1
      context == state.contexts[reader.slot]
      moved == [state EXCEPT
        !.frame.offset = @ + tried,
        !.sent = IF HasBuffer(taken, held)
                 THEN [i \in 1 .. count |-> Response(context, reader.offset + i)] ELSE << >>,
        !.drops = ~HasBuffer(taken, held)]
  IN IF reader.slot = 0 \/ count = 0 THEN state
     ELSE IF reader.offset + tried = Completed THEN fd_rpc_server_ux_frame_buffer_close(moved)
     ELSE moved

\* fd_rpc_channel_usb_packet_write refuses a packet that does not fit.
Fitting(sent) == SubSeq(sent, 1, Least(Len(sent), FreeSpace \div FrameSize))
Write(sent) ==
  /\ tx_ring' = tx_ring \o Frames(Fitting(sent))
  /\ tx_enabled' = (tx_enabled \/ sent # << >>)

Apply(state) ==
  /\ server_contexts' = state.contexts
  /\ frame_buffer_read' = state.frame
  /\ dropped' = (dropped \/ state.drops)
  /\ Write(state.sent)

-----------------------------------------------------------------------------
(* The packets that the device handles. *)

Current == State(server_contexts, frame_buffer_read)
Allocated(slot, call) == [server_contexts EXCEPT ![slot] = call]

Ignore == UNCHANGED << server_vars, tx_ring, tx_enabled >>

fd_rpc_channel_server_initialize(call) ==
  \/ /\ call.method \notin Registered \/ FreeSlots = {}
     /\ Ignore
  \/ /\ call.method \in Registered /\ FreeSlots # {}
     /\ Apply(State(Allocated(Lowest(FreeSlots), call), frame_buffer_read))
     /\ free_space_callback' = TRUE
     /\ UNCHANGED << screen, leaks >>

\* A unary handler holds the request's buffer and needs another one for the
\* response.  The context is freed whether the response was sent or not.
LeavesContextOnError(slot, call, taken) ==
  /\ screen' = << call.session, call.invocation >>
  /\ Write(IF HasBuffer(taken, 1) THEN << Response(call, 0) >> ELSE << >>)
  /\ server_contexts' = IF HasBuffer(taken, 1) THEN server_contexts ELSE Allocated(slot, call)
  /\ UNCHANGED << frame_buffer_read, leaks, dropped >>
fd_rpc_server_ux_set_screen_request(slot, call, taken) ==
  /\ screen' = << call.session, call.invocation >>
  /\ Write(IF HasBuffer(taken, 1) THEN << Response(call, 0) >> ELSE << >>)
  /\ UNCHANGED << server_contexts, frame_buffer_read, leaks, dropped >>

\* The request is larger than a buffer, or there is none: the handler returns
\* and the context that it allocated stays.
UnaryRequest(slot, call, taken) ==
  \/ /\ call.method # "large" /\ HasBuffer(taken, 0)
     /\ fd_rpc_server_ux_set_screen_request(slot, call, taken)
  \/ /\ call.method = "large" \/ ~HasBuffer(taken, 0)
     /\ server_contexts' = Allocated(slot, call)
     /\ leaks' = leaks + 1
     /\ UNCHANGED << frame_buffer_read, screen, dropped, tx_ring, tx_enabled >>

\* fd_rpc_server_ux_frame_buffer_read_request takes the reader over.
StreamRequest(slot, taken) ==
  /\ Apply(fd_rpc_server_ux_frame_buffer_read_send(
             State(server_contexts, [slot |-> slot, offset |-> 0]), taken, 1))
  /\ UNCHANGED << free_space_callback, screen, leaks >>

fd_rpc_channel_server_request(call, taken) ==
  \/ /\ call.method \notin Registered
     /\ Ignore
  \/ /\ call.method \in Registered /\ ~Streaming(call.method)
     /\ \/ FreeSlots = {} /\ Ignore
        \/ /\ FreeSlots # {}
           /\ UnaryRequest(Lowest(FreeSlots), call, taken)
           /\ free_space_callback' = TRUE
  \/ /\ Streaming(call.method)
     /\ LET slot == fd_rpc_server_context_get(call)
        IN \/ (slot = 0 \/ ~HasBuffer(taken, 0)) /\ Ignore
           \/ slot # 0 /\ HasBuffer(taken, 0) /\ StreamRequest(slot, taken)

\* The finalize of the frame buffer's server closes the reader, whichever
\* stream it reads for.
NoFinalize(state, context) == state
FinalizeServer(state, context) ==
  IF Streaming(context.method) THEN fd_rpc_server_ux_frame_buffer_close(state) ELSE state

fd_rpc_channel_server_finalize(call) ==
  LET slot == fd_rpc_server_context_get(call)
      closed == FinalizeServer(Current, server_contexts[slot])
  IN \/ slot = 0 /\ Ignore
     \/ /\ slot # 0
        /\ Apply([closed EXCEPT !.contexts = Freed(@, slot)])
        /\ UNCHANGED << free_space_callback, screen, leaks >>

\* Every context of the channel is finalized and freed.
fd_rpc_channel_closed ==
  /\ server_contexts' = [s \in Slots |-> None]
  /\ frame_buffer_read' =
       IF \E s \in Slots : server_contexts[s] # None /\ Streaming(server_contexts[s].method)
       THEN NoReader ELSE frame_buffer_read
  /\ leaks' = 0
  /\ UNCHANGED << free_space_callback, screen, dropped, tx_ring, tx_enabled >>

\* Packets of a type without a handler, and those for a client of the device,
\* which has no clients, are ignored.
Handle(packet, taken) ==
  \/ packet.type = "server_initialize" /\ fd_rpc_channel_server_initialize(packet.call)
  \/ packet.type = "server_request" /\ fd_rpc_channel_server_request(packet.call, taken)
  \/ packet.type = "server_finalize" /\ fd_rpc_channel_server_finalize(packet.call)

-----------------------------------------------------------------------------
(* The USB channel of the device. *)

\* k_work_submit_to_queue: a work that waits in the queue is not added again.
Submitted(queue, work) == IF Contains(queue, work) THEN queue ELSE Append(queue, work)

\* When the ring is full the interrupt runs again and again and reads nothing until
\* the work makes room; that is a wait here.
fd_rpc_channel_usb_rx_irq ==
  /\ to_device # << >> /\ Len(rx_ring) < RxSize
  /\ LET count == Least(RxSize - Len(rx_ring), Len(to_device))
     IN /\ rx_ring' = rx_ring \o SubSeq(to_device, 1, count)
        /\ to_device' = SubSeq(to_device, count + 1, Len(to_device))
  /\ works' = Submitted(works, "rx")
  /\ UNCHANGED << rx_packet, tx_ring, tx_enabled, tx_claimed, connected,
                  to_host, host_vars, server_vars, fault_vars >>

\* The interrupt claims what the ring holds.  When it holds nothing the
\* interrupt is turned off, in a second step: a packet may be written between.
fd_rpc_channel_usb_tx_irq ==
  \/ /\ tx_enabled /\ ~tx_claimed /\ tx_ring = << >>
     /\ tx_claimed' = TRUE
     /\ UNCHANGED << tx_ring, tx_enabled, to_host, works >>
  \/ /\ tx_claimed
     /\ tx_enabled' = FALSE /\ tx_claimed' = FALSE
     /\ works' = Submitted(works, "callback")
     /\ UNCHANGED << tx_ring, to_host >>
  \/ /\ tx_enabled /\ ~tx_claimed /\ tx_ring # << >>
     /\ to_host' = to_host \o tx_ring
     /\ tx_ring' = << >>
     /\ works' = Submitted(works, "callback")
     /\ UNCHANGED << tx_enabled, tx_claimed >>

TxInterrupt ==
  /\ fd_rpc_channel_usb_tx_irq
  /\ UNCHANGED << rx_ring, rx_packet, connected, to_device, host_vars, server_vars, fault_vars >>

\* The poll of DTR.  It also turns the transmit interrupt on again; with nothing
\* to send the interrupt only turns itself off, which is left out, as is the
\* work that reports a new connection and changes nothing here.
PollsOnly == UNCHANGED tx_enabled
PollsEnable == tx_enabled' = (tx_enabled \/ (connected' /\ tx_ring # << >>))

fd_rpc_channel_usb_cdc_timer ==
  /\ connected' = dtr
  /\ works' = IF ~dtr /\ connected THEN Submitted(works, "disconnected") ELSE works
  /\ PollsEnable
  /\ UNCHANGED << rx_ring, rx_packet, tx_ring, tx_claimed,
                  to_device, to_host, host_vars, server_vars, fault_vars >>

\* The work queue: rx_work runs until the ring is empty, the others at once.
\* A submit of rx_work while it runs adds a run that finds the ring empty, or
\* what arrived meanwhile; it is left out.
Starts(work) == works # << >> /\ Head(works) = work /\ works' = Tail(works)

KeptAfterError(units) == IF IsIntact(units) THEN << >> ELSE units
AfterPacket(units) == << >>

\* rx_work and fd_rpc_channel_received_data: bytes are added, a delimiter ends the packet.
fd_rpc_channel_received_data ==
  /\ works # << >> /\ Head(works) = "rx"
  /\ rx_ring' = AfterPart(rx_ring)
  /\ works' = IF rx_ring' = << >> THEN Tail(works) ELSE works
  /\ LET units == rx_packet \o NextPart(rx_ring)
     IN \/ /\ Last(units).at = "head"
           /\ rx_packet' = units
           /\ Ignore /\ UNCHANGED << bad, shortages >>
        \/ /\ Last(units).at = "tail"
           /\ rx_packet' = AfterPacket(units)
           /\ \/ /\ ~IsIntact(units)
                 /\ bad' = [bad EXCEPT !.device = @ + 1]
                 /\ Ignore /\ UNCHANGED shortages
              \/ /\ IsIntact(units)
                 /\ \E taken \in 0 .. Buffers : Taken(taken) /\ Handle(Last(units).packet, taken)
                 /\ UNCHANGED bad
  /\ UNCHANGED << tx_claimed, connected, to_device, to_host, host_vars, cuts >>

disconnected_work ==
  /\ Starts("disconnected")
  /\ fd_rpc_channel_closed
  /\ UNCHANGED << rx_ring, rx_packet, tx_claimed, connected,
                  to_device, to_host, host_vars, fault_vars >>

\* fd_rpc_server_free_space_increased asks the server of every context; that of
\* the frame buffer submits its send work.
callback_work ==
  /\ works # << >> /\ Head(works) = "callback"
  /\ works' = IF /\ free_space_callback
                 /\ \E s \in Slots : server_contexts[s] # None /\ Streaming(server_contexts[s].method)
              THEN Submitted(Tail(works), "send") ELSE Tail(works)
  /\ UNCHANGED << rx_ring, rx_packet, tx_ring, tx_enabled, tx_claimed, connected,
                  to_device, to_host, host_vars, server_vars, fault_vars >>

fd_rpc_server_ux_send_work ==
  /\ Starts("send")
  /\ \E taken \in 0 .. Buffers :
       Taken(taken) /\ Apply(fd_rpc_server_ux_frame_buffer_read_send(Current, taken, 0))
  /\ UNCHANGED << free_space_callback, screen, leaks, rx_ring, rx_packet, tx_claimed, connected,
                  to_device, to_host, host_vars, cuts, bad >>

-----------------------------------------------------------------------------
(* The host program: one thread that calls, one that receives. *)

NewCall(method) == [session |-> session, invocation |-> next_invocation + 1, method |-> method]
Request(type, call) == [type |-> type, call |-> call, body |-> 0]
Send(packet) ==
  /\ packets < MaxPackets /\ packets' = packets + 1
  /\ to_device' = to_device \o Frame(packet)
Context(call) == [call |-> call, got |-> << >>, requested |-> FALSE]
UnchangedInCall == UNCHANGED << session, host_buffer, dtr, answers, to_host, channel_vars,
                                server_vars, fault_vars >>
CanCall == dtr /\ waiting = None /\ next_invocation < MaxCalls

unary_call(method) ==
  /\ CanCall /\ ~Streaming(method)
  /\ next_invocation' = next_invocation + 1
  /\ client_contexts' = client_contexts \union {Context(NewCall(method))}
  /\ waiting' = NewCall(method)
  /\ Send(Request("server_request", NewCall(method)))
  /\ UnchangedInCall

WithoutCall(call) == {c \in client_contexts : c.call # call}

\* The queue of the client has a response, or the wait of two seconds is over.
unary_call_returns ==
  /\ waiting # None
  /\ \E context \in client_contexts :
       /\ context.call = waiting
       /\ \/ context.got = << >> /\ UNCHANGED answers
          \/ /\ context.got # << >>
             /\ answers' = answers \union {[call |-> waiting, by |-> Head(context.got).call]}
  /\ client_contexts' = WithoutCall(waiting)
  /\ waiting' = None
  /\ UNCHANGED << session, next_invocation, host_buffer, dtr, packets, to_device, to_host,
                  channel_vars, server_vars, fault_vars >>

server_streaming_initialize(method) ==
  /\ CanCall /\ Streaming(method)
  /\ next_invocation' = next_invocation + 1
  /\ client_contexts' = client_contexts \union {Context(NewCall(method))}
  /\ Send(Request("server_initialize", NewCall(method)))
  /\ UNCHANGED waiting /\ UnchangedInCall

\* The same without the initialize: the device has no context for the request.
server_streaming_call(method) ==
  /\ CanCall /\ Streaming(method)
  /\ next_invocation' = next_invocation + 1
  /\ client_contexts' = client_contexts \union {[Context(NewCall(method)) EXCEPT !.requested = TRUE]}
  /\ Send(Request("server_request", NewCall(method)))
  /\ UNCHANGED waiting /\ UnchangedInCall

server_streaming_request(context) ==
  /\ dtr /\ waiting = None /\ Streaming(context.call.method) /\ ~context.requested
  /\ client_contexts' = (client_contexts \ {context}) \union {[context EXCEPT !.requested = TRUE]}
  /\ Send(Request("server_request", context.call))
  /\ UNCHANGED << next_invocation, waiting >> /\ UnchangedInCall

server_streaming_finalize(context) ==
  /\ dtr /\ waiting = None /\ Streaming(context.call.method)
  /\ client_contexts' = client_contexts \ {context}
  /\ Send(Request("server_finalize", context.call))
  /\ UNCHANGED << next_invocation, waiting >> /\ UnchangedInCall

\* client_context_get: the method and the invocation, which a program uses once.
IsForMethod(context, call) == context.call.method = call.method
IsFor(context, call) ==
  context.call.method = call.method /\ context.call.invocation = call.invocation

transport_client_response(packet) ==
  client_contexts' = {IF IsFor(c, packet.call) THEN [c EXCEPT !.got = Append(@, packet)] ELSE c :
                      c \in client_contexts}

\* The receiving thread: StreamChannel.read, packet_read and Transport.receive.
\* An exception of a damaged packet is logged.
StreamChannel_read ==
  /\ dtr /\ to_host # << >>
  /\ to_host' = AfterPart(to_host)
  /\ LET units == host_buffer \o NextPart(to_host)
     IN \/ /\ Last(units).at = "head"
           /\ host_buffer' = units
           /\ UNCHANGED << client_contexts, bad >>
        \/ /\ Last(units).at = "tail"
           /\ host_buffer' = << >>
           /\ \/ ~IsIntact(units) /\ UNCHANGED client_contexts
                 /\ bad' = [bad EXCEPT !.host = @ + 1]
              \/ IsIntact(units) /\ transport_client_response(Last(units).packet) /\ UNCHANGED bad
  /\ UNCHANGED << session, next_invocation, waiting, dtr, packets, answers, to_device, channel_vars,
                  server_vars, shortages, cuts >>

\* SerialChannel.run_client of a new program.
run_client ==
  /\ ~dtr /\ session < MaxSessions
  /\ dtr' = TRUE /\ session' = session + 1
  /\ next_invocation' = 0
  /\ UNCHANGED << client_contexts, waiting, host_buffer, packets, answers, to_device, to_host,
                  channel_vars, server_vars, fault_vars >>

\* SerialChannel.close, or the end of the program.  What the driver had not
\* sent and what nobody had read is lost, wherever that falls.  The last
\* program stays.
Stops ==
  /\ dtr /\ session < MaxSessions
  /\ dtr' = FALSE
  /\ client_contexts' = {} /\ waiting' = None /\ host_buffer' = << >>
  /\ \E sent \in 0 .. Len(to_device) : to_device' = SubSeq(to_device, 1, sent)
  /\ \E read \in 0 .. Len(to_host) : to_host' = SubSeq(to_host, read + 1, Len(to_host))
  /\ cuts' = cuts + 1
  /\ UNCHANGED << session, next_invocation, packets, answers, channel_vars, server_vars, bad,
                  shortages >>

-----------------------------------------------------------------------------
Init ==
  /\ session = 0 /\ next_invocation = 0 /\ client_contexts = {} /\ waiting = None
  /\ host_buffer = << >> /\ to_device = << >> /\ to_host = << >> /\ dtr = FALSE
  /\ rx_ring = << >> /\ rx_packet = << >> /\ tx_ring = << >>
  /\ tx_enabled = FALSE /\ tx_claimed = FALSE /\ connected = FALSE /\ works = << >>
  /\ server_contexts = [s \in Slots |-> None] /\ free_space_callback = FALSE
  /\ frame_buffer_read = NoReader /\ screen = << >>
  /\ shortages = 0 /\ leaks = 0 /\ dropped = FALSE /\ cuts = 0 /\ packets = 0
  /\ bad = [device |-> 0, host |-> 0] /\ answers = {}

Device ==
  \/ fd_rpc_channel_usb_rx_irq
  \/ TxInterrupt
  \/ fd_rpc_channel_received_data
  \/ disconnected_work
  \/ callback_work
  \/ fd_rpc_server_ux_send_work

Next ==
  \/ Device
  \/ fd_rpc_channel_usb_cdc_timer
  \/ \E method \in Methods :
       unary_call(method) \/ server_streaming_initialize(method) \/ server_streaming_call(method)
  \/ unary_call_returns
  \/ \E context \in client_contexts :
       server_streaming_request(context) \/ server_streaming_finalize(context)
  \/ StreamChannel_read
  \/ run_client
  \/ Stops

Spec == Init /\ [][Next]_vars

\* Interrupts, the work queue, the timer and the receiving thread of the host
\* are not held up for ever.
FairSpec ==
  /\ Spec
  /\ WF_vars(Device) /\ WF_vars(fd_rpc_channel_usb_cdc_timer)
  /\ WF_vars(StreamChannel_read)

-----------------------------------------------------------------------------
\* A call that returned a response got the one to its own request, or one to a
\* request of an earlier program with the same number: a late response to a call
\* that timed out is never taken for the answer to a later call of the program.
AnswersOwnCall ==
  \A answer \in answers : answer.by = answer.call \/ answer.by.session < answer.call.session

\* Between two requests the contexts that unary calls hold are those of the
\* requests that found no buffer or were too large for one; a failed response
\* costs nothing.
LeaksOnlyOnRefusal ==
  Cardinality({s \in Slots : server_contexts[s] # None /\ ~Streaming(server_contexts[s].method)})
    <= leaks

\* The reader of the frame buffer never refers to a context that was freed or
\* given to another method, whatever order of streams, finalizes and reconnects.
ReaderHasContext ==
  frame_buffer_read.slot # 0 =>
    /\ server_contexts[frame_buffer_read.slot] # None
    /\ Streaming(server_contexts[frame_buffer_read.slot].method)

\* Framing: each time a program of the host stops costs at most one packet in
\* each direction; everything sent later is understood again.
Resynchronizes == bad.device <= cuts /\ bad.host <= cuts

\* A stream gets the frame buffer from its start, nothing left out and nothing
\* twice, unless a response found no buffer.
FramesInOrder ==
  dropped \/
    \A c \in client_contexts : Streaming(c.call.method) =>
      LET own == {i \in DOMAIN c.got : c.got[i].call.session = session}
      IN \A i \in own : c.got[i].body = Cardinality({j \in own : j <= i})

\* A stream that was asked for and is the only one gets all of the frame buffer
\* while the program stays: the transmit interrupt that is turned off just as a
\* packet is written is turned on again by the poll.
StreamCompletes ==
  (session = 1 /\ dtr /\ connected /\ frame_buffer_read.slot # 0)
    ~> \/ ~dtr \/ dropped \/ Cardinality(client_contexts) # 1
       \/ \E c \in client_contexts : \E i \in DOMAIN c.got : c.got[i].body = Completed
=============================================================================
