------------------------------ MODULE Gateway -------------------------------
(***************************************************************************)
(* The gateway: a host (gateway.py) calls the subsystems of a device       *)
(* (fd_gateway.c, fd_dispatch.c and the fd_*_dispatch.c handlers) over a   *)
(* serial line, or through the device those of a second one.               *)
(*                                                                         *)
(* A request is a record of what the host asks for; on the line it is the  *)
(* bytes the encoders of the host make of it.  A byte of the line may get  *)
(* lost or be altered.  The pins, the buses and the converter behind the   *)
(* handlers are external and answer with fixed data.                       *)
(***************************************************************************)
EXTENDS Framing
LOCAL INSTANCE SequencesExt
LOCAL INSTANCE FiniteSets

CONSTANTS Requests,         \* what the host may ask for
          DamagedRequests,  \* the requests whose frame may be damaged on the line
          MessageSize,      \* the receive buffer of the device
          ResponseSize,     \* response_buffer and buffer in the dispatchers: 64
          RxLimit,          \* rx in the bus dispatchers: 300 and 200
          MaxCalls          \* bound: calls of the host

Board == 0          \* targets, as tools/python/gpio.py numbers them
Remote == 2         \* a device behind the board
Usb == 4            \* the host
Nobody == 7         \* a target the board has no endpoint for

Firefly == 0        \* the system of an envelope
Subsystem == [system |-> 0, i2cm |-> 1, spim |-> 2, gpio |-> 3, adc |-> 4]
TypeRequest == 1
TypeResponse == 2

VARIABLES host,     \* [state, calls, answers, payload]: "idle" or "waiting", what became of the
                    \* calls, and the newest response
          line,     \* bytes on their way to the device
          back,     \* bytes on their way to the host
          damaged,  \* the calls whose frame was damaged
          device    \* the state of the device, see Init

vars == <<host, line, back, damaged, device>>

-----------------------------------------------------------------------------
(* External: the hardware. *)

Pins == {<<0, 1>>, <<1, 0>>}
I2cBytes(id, n) == [j \in 1..n |-> (id * 16 + j) % Base]
I2cAcks(id) == id = 1
SpiBytes(id, n) == [j \in 1..n |-> (id * 32 + 2 * (j - 1)) % Base]
Volts(channel, limit) == <<channel, 0, limit[3], 65>>
Identity == [version |-> <<1, 0, 258>>, identifier |-> <<98, 48>>]
Devices == {1, 2}

-----------------------------------------------------------------------------
(* gpio.py, i2cm.py, spim.py, system.py and adc.py: requests to bytes and  *)
(* responses to answers.                                                   *)

EncodeGpio(transactions) ==
    <<0>> \o FlattenSeq([i \in DOMAIN transactions |->
        LET t == transactions[i]
        IN  CASE t.op = "configure" -> <<0, t.pin[1], t.pin[2], t.value>>
              [] t.op = "set" -> <<1, t.pin[1], t.pin[2], t.value>>
              [] t.op = "get" -> <<2, t.pin[1], t.pin[2]>>])

EncodeI2cm(device_, transactions) ==
    <<0, device_, Len(transactions)>> \o FlattenSeq([i \in DOMAIN transactions |->
        LET t == transactions[i]
        IN  IF t.direction = "tx" THEN <<1, Len(t.data)>> \o t.data ELSE <<0, t.count>>])

EncodeSpim(device_, transactions) ==
    <<0, device_, Len(transactions)>> \o FlattenSeq([i \in DOMAIN transactions |->
        <<Len(transactions[i].data)>> \o transactions[i].data \o <<transactions[i].count>>])

EncodeAdc(channel, limit) == <<0>> \o Pack(4, channel) \o limit

Encode(request) ==
    CASE request.to = "gpio" -> EncodeGpio(request.transactions)
      [] request.to = "i2cm" -> EncodeI2cm(request.device, request.transactions)
      [] request.to = "spim" -> EncodeSpim(request.device, request.transactions)
      [] request.to = "adc" -> EncodeAdc(request.channel, request.limit)
      [] request.to = "system" -> IF request.op = "identity" THEN <<0>> ELSE <<1>>

\* What a call returns, or how it fails.
Refused == [ok |-> FALSE, why |-> "refused"]
TimedOut == [ok |-> FALSE, why |-> "timeout"]
Accepted(valid, value) == IF valid THEN [ok |-> TRUE, value |-> value] ELSE Refused

\* A slice, which ends early where the data does.
Part(data, at, n) == SubSeq(data, at + 1, IF at + n <= Len(data) THEN at + n ELSE Len(data))
StartsWith(data, at, bytes) == Part(data, at, Len(bytes)) = bytes

DecodeGpio(transactions, data) ==
    LET gets == SelectSeq(transactions, LAMBDA t : t.op = "get")
    IN  Accepted(/\ StartsWith(data, 0, <<0>>)
                 /\ Len(data) >= 1 + 4 * Len(gets)
                 /\ \A i \in DOMAIN gets : StartsWith(data, 4 * i - 3, <<2>> \o gets[i].pin),
                 [i \in DOMAIN gets |-> data[4 * i + 1] # 0])

RxCount(t) == IF t.direction = "rx" THEN t.count ELSE 0

\* Where transaction i of a bus response begins, after a head of n bytes.
BusOffset(count(_), transactions, n, i) ==
    FoldLeft(LAMBDA at, t : at + 2 + count(t), n, SubSeq(transactions, 1, i - 1))

DecodeI2cm(request, data) ==
    LET ts    == request.transactions
        at(i) == BusOffset(RxCount, ts, 4, i)
        reads == SelectSeq([i \in DOMAIN ts |-> i], LAMBDA i : ts[i].direction = "rx")
    IN  Accepted(/\ StartsWith(data, 0, <<0, 0, request.device, Len(ts)>>)
                 /\ \A i \in DOMAIN ts :
                        StartsWith(data, at(i), IF ts[i].direction = "rx" THEN <<0, ts[i].count>>
                                                ELSE <<1, Len(ts[i].data)>>),
                 [k \in DOMAIN reads |-> Part(data, at(reads[k]) + 2, ts[reads[k]].count)])

DecodeSpim(request, data) ==
    LET ts    == request.transactions
        at(i) == BusOffset(LAMBDA t : t.count, ts, 3, i)
    IN  Accepted(/\ StartsWith(data, 0, <<0, request.device, Len(ts)>>)
                 /\ \A i \in DOMAIN ts : StartsWith(data, at(i), <<Len(ts[i].data), ts[i].count>>),
                 [i \in DOMAIN ts |-> Part(data, at(i) + 2, ts[i].count)])

DecodeIdentity(data) ==
    Accepted(Len(data) >= 14 /\ StartsWith(data, 0, <<0>>),
             <<[i \in 1..3 |-> Unpack(Part(data, 4 * i - 3, 4))], Part(data, 14, data[14])>>)

RECURSIVE DecodeFailures(_)
DecodeFailures(data) ==
    IF data = <<>> THEN <<>>
    ELSE LET file == SubSeq(data, 2, 1 + data[1])
             at   == 1 + data[1]
             text == SubSeq(data, at + 6, at + 5 + data[at + 5])
         IN  <<[file |-> file, line |-> Unpack(SubSeq(data, at + 1, at + 4)), message |-> text]>>
                 \o DecodeFailures(SubSeq(data, at + 6 + data[at + 5], Len(data)))

DecodeAssert(data) ==
    Accepted(Len(data) >= 5 /\ StartsWith(data, 0, <<1>>),
             <<Unpack(Part(data, 1, 4)), DecodeFailures(SubSeq(data, 6, Len(data)))>>)

\* The channel in the response is not compared.
DecodeAdc(data) == Accepted(Len(data) = 9 /\ StartsWith(data, 0, <<0>>), Part(data, 5, 4))

Decode(request, data) ==
    CASE request.to = "gpio" -> DecodeGpio(request.transactions, data)
      [] request.to = "i2cm" -> DecodeI2cm(request, data)
      [] request.to = "spim" -> DecodeSpim(request, data)
      [] request.to = "adc" -> DecodeAdc(data)
      [] request.to = "system" -> IF request.op = "identity" THEN DecodeIdentity(data)
                                  ELSE DecodeAssert(data)

EnvelopeFor(request) ==
    [type |-> TypeRequest, subsystem |-> Subsystem[request.to], system |-> Firefly,
     source |-> Usb, target |-> request.target]

-----------------------------------------------------------------------------
(* The device.  A handler maps its state and the request to the state it   *)
(* leaves behind; result is what it returns.                               *)

\* fd_assert_failure and fd_assert_log_add_failure: the log holds one failure,
\* and the test for room comes before the search for the same failure.
FailureLimit == 1
AssertFailure(d, failure) ==
    LET log == d.failures
        same == {i \in DOMAIN log : log[i].failure = failure}
    IN  [d EXCEPT !.asserts = @ + 1,
                  !.failures = IF Len(log) >= FailureLimit THEN log
                               ELSE IF same # {}
                                    THEN [i \in DOMAIN log |-> IF i \in same
                                            THEN [log[i] EXCEPT !.count = @ + 1] ELSE log[i]]
                               ELSE Append(log, [failure |-> failure, count |-> 1])]

\* The assertions of fd_gateway.c; a file or a text is a byte here.
Failure(line_, text) == [file |-> <<103>>, line |-> line_, message |-> <<text>>]
EncodeError    == Failure(45, 69)
NotEnoughSpace == Failure(50, 78)
Overrun        == Failure(80, 79)
NotProcessed   == Failure(82, 80)

Returns(d, result) == [d EXCEPT !.result = result]

\* fd_gateway_transmit.  The board has endpoints for the host and for the
\* device behind it.
SendTo(d, frame, target) ==
    CASE frame.errors # {} -> Returns(AssertFailure(d, NotEnoughSpace), FALSE)
      [] frame.errors = {} /\ target = Usb -> Returns([d EXCEPT !.out = @ \o Contents(frame)], TRUE)
      [] frame.errors = {} /\ target = Remote ->
            Returns([d EXCEPT !.remote = Append(@, Contents(frame))], TRUE)
      [] OTHER -> Returns(d, FALSE)
SendFrame(d, encoded, target) ==
    IF encoded.errors # {} THEN Returns(AssertFailure(d, EncodeError), FALSE)
    ELSE SendTo(d, PutUint8(encoded, 0), target)
Transmit(d, message, envelope) == SendFrame(d, EnvelopeEncode(message, envelope), envelope.target)

Respond(d, response, envelope) ==
    Transmit(d, response, [envelope EXCEPT !.target = envelope.source, !.source = envelope.target,
                                           !.type = TypeResponse])

Take(m, n) == GetBytes(m, n)

\* The nine configurations the dispatcher knows; another one does nothing.
Configurations == {0, 98, 114, 34, 50, 42, 58, 1, 9}
ConfiguredLevel(configuration) == (configuration \div 16) % 2

RECURSIVE GpioLoop(_, _, _)
GpioLoop(d, m, response) ==
    IF m.get >= SizeOf(m) THEN [d |-> d, m |-> m, response |-> response]
    ELSE LET opcode == GetUint8(m)
             pin    == Take(opcode.b, 2)
             arg    == GetUint8(pin.b)
             known  == pin.value \in Pins
         IN  CASE opcode.value = 0 ->
                      GpioLoop(IF known /\ arg.value \in Configurations
                               THEN [d EXCEPT !.modes[pin.value] = arg.value,
                                              !.levels[pin.value] = IF (arg.value \div 2) % 2 = 1
                                                  THEN ConfiguredLevel(arg.value) = 1 ELSE @]
                               ELSE d, arg.b, response)
               [] opcode.value = 1 ->
                      GpioLoop(IF known THEN [d EXCEPT !.levels[pin.value] = arg.value # 0] ELSE d,
                               arg.b, response)
               [] opcode.value = 2 ->
                      GpioLoop(d, pin.b,
                          PutUint8(PutUint8(PutUint8(PutUint8(response, 2), pin.value[1]), pin.value[2]),
                                   IF known /\ d.levels[pin.value] THEN 1 ELSE 0))
               [] OTHER -> GpioLoop(d, opcode.b, response)

\* Pins changed before a request turned out to be cut short stay changed.
GpioEnd(loop, envelope) ==
    IF loop.m.errors # {} THEN Returns(loop.d, FALSE) ELSE Respond(loop.d, loop.response, envelope)
GpioIo(d, m, envelope) ==
    GpioEnd(GpioLoop(d, m, PutUint8(Initialize(Zeros(ResponseSize)), 0)), envelope)

TransferLimit == 8

\* rx is the response that grows; for a tx transfer fd_binary_get_check sets
\* the error and the bytes are skipped all the same.
RECURSIVE I2cmLoop(_, _, _, _)
I2cmLoop(id, m, count, rx) ==
    IF count = 0 THEN [ok |-> m.errors = {}, rx |-> rx, written |-> <<>>]
    ELSE LET direction == GetUint8(m)
             bytes     == GetUint8(direction.b)
             head      == rx \o <<direction.value, bytes.value>>
             taken     == Take(bytes.b, bytes.value)
             next      == I2cmLoop(id, taken.b, count - 1, head)
         IN  CASE direction.value = 1 -> [next EXCEPT !.written = <<taken.value>> \o @]
               [] direction.value = 0 ->
                      IF Len(head) + bytes.value > RxLimit
                      THEN [ok |-> FALSE, rx |-> rx, written |-> <<>>]
                      ELSE I2cmLoop(id, bytes.b, count - 1, head \o I2cBytes(id, bytes.value))
               [] OTHER -> [ok |-> FALSE, rx |-> rx, written |-> <<>>]

\* A response that was written into rx in place.
Filled(bytes) == [Initialize(bytes \o Zeros(RxLimit - Len(bytes))) EXCEPT !.put = Len(bytes)]

BusEnd(d, loop, envelope) ==
    IF ~loop.ok THEN Returns(d, FALSE)
    ELSE Respond([d EXCEPT !.written = @ \o loop.written], Filled(loop.rx), envelope)
I2cmIo(d, m, envelope) ==
    LET id    == GetUint8(m)
        count == GetUint8(id.b)
        ack   == IF I2cAcks(id.value) THEN 0 ELSE 1
    IN  IF id.value \notin Devices \/ count.value > TransferLimit THEN Returns(d, FALSE)
        ELSE BusEnd(d, I2cmLoop(id.value, count.b, count.value,
                                <<0, ack, id.value, count.value>>), envelope)

RECURSIVE SpimLoop(_, _, _, _)
SpimLoop(id, m, count, rx) ==
    IF count = 0 THEN [ok |-> m.errors = {}, rx |-> rx, written |-> <<>>]
    ELSE LET txCount == GetUint8(m)
             tx      == Take(txCount.b, txCount.value)
             rxCount == GetUint8(tx.b)
             next    == SpimLoop(id, rxCount.b, count - 1,
                            rx \o <<txCount.value, rxCount.value>> \o SpiBytes(id, rxCount.value))
         IN  IF tx.b.errors # {} \/ Len(rx) + 2 + rxCount.value >= RxLimit
             THEN [ok |-> FALSE, rx |-> rx, written |-> <<>>]
             ELSE [next EXCEPT !.written = <<tx.value>> \o @]

SpimIo(d, m, envelope) ==
    LET id    == GetUint8(m)
        count == GetUint8(id.b)
    IN  IF id.value \notin Devices \/ count.value > TransferLimit THEN Returns(d, FALSE)
        ELSE BusEnd(d, SpimLoop(id.value, count.b, count.value, <<0, id.value, count.value>>),
                    envelope)

GetIdentity(d, envelope) ==
    LET v == Identity.version
        response == PutUint8(Initialize(Zeros(ResponseSize)), 0)
    IN  Respond(d, PutString(PutUint32(PutUint32(PutUint32(response, v[1]), v[2]), v[3]),
                             Identity.identifier), envelope)

GetAssert(d, envelope) ==
    LET response == PutUint32(PutUint8(Initialize(Zeros(ResponseSize)), 1), d.asserts)
        put(b, entry) == PutString(PutUint32(PutString(b, entry.failure.file), entry.failure.line),
                                   entry.failure.message)
    IN  Respond(d, FoldLeft(put, response, d.failures), envelope)

AdcConvert(d, m, envelope) ==
    LET channel == GetUint32(m)
        limit   == Take(channel.b, 4)
        response == PutUint32(PutUint8(Initialize(Zeros(ResponseSize)), 0), channel.value)
    IN  Respond(d, PutBytes(response, Volts(channel.value, limit.value)), envelope)

\* fd_dispatch_process: the handler whose filter accepts the envelope, and in
\* it the operation.
Dispatch(d, payload, envelope) ==
    LET op == GetUint8(Initialize(payload))
        subsystem == envelope.subsystem
    IN  CASE envelope.system # Firefly -> Returns(d, FALSE)
          [] subsystem = Subsystem.gpio /\ op.value = 0 -> GpioIo(d, op.b, envelope)
          [] subsystem = Subsystem.i2cm /\ op.value = 0 -> I2cmIo(d, op.b, envelope)
          [] subsystem = Subsystem.spim /\ op.value = 0 -> SpimIo(d, op.b, envelope)
          [] subsystem = Subsystem.adc /\ op.value = 0 -> AdcConvert(d, op.b, envelope)
          [] subsystem = Subsystem.system /\ op.value = 0 -> GetIdentity(d, envelope)
          [] subsystem = Subsystem.system /\ op.value = 1 -> GetAssert(d, envelope)
          [] OTHER -> Returns(d, FALSE)

\* fd_gateway_process.  A message for another target is framed again in the
\* buffer it came in.
Route(d, got) ==
    IF ~got.ok THEN Returns(d, FALSE)
    ELSE IF got.envelope.target = Board
         THEN Dispatch([d EXCEPT !.executed = Append(@, got)], got.payload, got.envelope)
    ELSE Transmit(d, Replaced(d.message, got.payload), got.envelope)
Process(d) == Route(d, EnvelopeDecode(Contents(d.message)))

\* Mutant: a message that was not processed stays in the buffer.
DelimiterWithoutReset(d) ==
    IF d.message.put = 0 THEN d
    ELSE LET Close(done) == IF done.result THEN [done EXCEPT !.message = Reset(@)]
                            ELSE AssertFailure(done, NotProcessed)
         IN  Close(Process(d))

\* fd_gateway_message_rx at a delimiter.
Delimiter(d) ==
    IF d.message.put = 0 THEN d
    ELSE LET checked     == IF d.message.errors = {} THEN d ELSE AssertFailure(d, Overrun)
             Judge(done) == IF done.result THEN done ELSE AssertFailure(done, NotProcessed)
         IN  [Judge(Process(checked)) EXCEPT !.message = Reset(@)]

\* fd_gateway_message_rx for bytes with no delimiter among them: what does not
\* fit is dropped, and the message is marked.
Bytes(d, bytes) ==
    LET room == SizeOf(d.message) - d.message.put
        kept == PutBytes(d.message, SubSeq(bytes, 1, room))
    IN  [d EXCEPT !.message = IF Len(bytes) > room THEN Fail(kept, "overflow") ELSE
                              PutBytes(@, bytes)]

-----------------------------------------------------------------------------

Init ==
    /\ host = [state |-> "idle", calls |-> <<>>, answers |-> <<>>, payload |-> <<>>]
    /\ line = <<>>
    /\ back = <<>>
    /\ damaged = {}
    /\ device = [message |-> Initialize(Zeros(MessageSize)), result |-> TRUE,
                 levels |-> [p \in Pins |-> FALSE], modes |-> [p \in Pins |-> 0],
                 written |-> <<>>, asserts |-> 0, failures |-> <<>>,
                 out |-> <<>>, remote |-> <<>>, executed |-> <<>>]

\* Gateway.rpc up to the wait for the response.
Call(request) ==
    /\ host.state = "idle"
    /\ Len(host.calls) < MaxCalls
    /\ line' = line \o ToRaw(Encode(request), EnvelopeFor(request))
    /\ host' = [host EXCEPT !.state = "waiting", !.calls = Append(@, request)]
    /\ UNCHANGED <<back, damaged, device>>

\* The length of a request's frame without its delimiters.
FrameLength(r) == Len(ToRaw(Encode(r), EnvelopeFor(r))) - 2

\* The line damages a byte of a frame: it is lost, cleared or altered.
Damage(i, how) ==
    /\ damaged = {}
    /\ host.state = "waiting"
    /\ host.calls[Len(host.calls)] \in DamagedRequests
    /\ Len(line) = FrameLength(host.calls[Len(host.calls)]) + 2
    /\ line' = CASE how = "lost" -> [j \in 1..(Len(line) - 1) |-> line[IF j < i THEN j ELSE j + 1]]
                 [] how = "cleared" -> [line EXCEPT ![i] = 0]
                 [] how = "altered" -> [line EXCEPT ![i] = IF @ % 2 = 0 THEN @ + 1 ELSE @ - 1]
    /\ line' # line
    /\ damaged' = {Len(host.calls)}
    /\ UNCHANGED <<host, back, device>>

\* fd_gateway_message_rx gets the next bytes of the line: all of those before
\* the delimiter and the delimiter itself, or some of those before it.
UpToDelimiter ==
    IF \A i \in DOMAIN line : line[i] # 0 THEN Len(line)
    ELSE CHOOSE i \in DOMAIN line : line[i] = 0 /\ \A j \in 1..(i - 1) : line[j] # 0
Receive(n) ==
    /\ n \in 1..UpToDelimiter
    /\ \E d \in {IF line[n] = 0 THEN Delimiter(Bytes(device, SubSeq(line, 1, n - 1)))
                ELSE Bytes(device, SubSeq(line, 1, n))} :
           /\ device' = [d EXCEPT !.out = <<>>]
           /\ back' = back \o d.out
    /\ line' = SubSeq(line, n + 1, Len(line))
    /\ UNCHANGED <<host, damaged>>

Answered(answer, payload) ==
    host' = [host EXCEPT !.state = "idle", !.answers = Append(@, answer), !.payload = payload]

\* Gateway.rx and the decoder of the request.  The envelope of the response is
\* not looked at.
Response ==
    /\ host.state = "waiting"
    /\ \E i \in DOMAIN back : back[i] = 0
    /\ LET end == CHOOSE i \in DOMAIN back : back[i] = 0 /\ \A j \in 1..(i - 1) : back[j] # 0
           got == HostDecode(SubSeq(back, 1, end - 1))
       IN  /\ IF got.ok
              THEN Answered(Decode(host.calls[Len(host.calls)], got.payload), got.payload)
              ELSE Answered(Refused, <<>>)
           /\ back' = SubSeq(back, end + 1, Len(back))
    /\ UNCHANGED <<line, damaged, device>>

\* read returned nothing; the part of a response that was read is lost.
Timeout ==
    /\ host.state = "waiting"
    /\ \A i \in DOMAIN back : back[i] # 0
    /\ Answered(TimedOut, <<>>)
    /\ back' = <<>>
    /\ UNCHANGED <<line, damaged, device>>

Next ==
    \/ \E request \in Requests : Call(request)
    \/ \E i \in DOMAIN line, how \in {"lost", "cleared", "altered"} : Damage(i, how)
    \/ \E n \in {UpToDelimiter - 3, UpToDelimiter} : Receive(n)
    \/ Response
    \/ Timeout

Spec == Init /\ [][Next]_vars

-----------------------------------------------------------------------------
(* fd_system_remote.c: the same two calls made by another device, whose    *)
(* remote_call leaves the response in its buffer.                          *)

RemoteBuffer(size, payload) == [Initialize(payload \o Zeros(size - Len(payload))) EXCEPT !.put = Len(payload)]

RemoteVersion(payload) ==
    LET op    == GetUint8(RemoteBuffer(64, payload))
        major == GetUint32(op.b)
        minor == GetUint32(major.b)
        patch == GetUint32(minor.b)
    IN  Accepted(op.value = 0 /\ patch.b.errors = {}, <<major.value, minor.value, patch.value>>)

\* fd_remote_copy_string: a terminated string of at most size - 1 characters.
RemoteCopy(string, size) == SubSeq(string, 1, IF Len(string) >= size THEN size - 1 ELSE Len(string))

RECURSIVE RemoteFailures(_, _)
RemoteFailures(b, limit) ==
    IF b.get >= b.put \/ limit = 0 THEN Accepted(TRUE, <<>>)
    ELSE LET file == GetString(b)
             at   == GetUint32(file.b)
             text == GetString(at.b)
             more == RemoteFailures(text.b, limit - 1)
         IN  Accepted(text.b.errors = {} /\ more.ok,
                      <<[file |-> RemoteCopy(file.value, 32), line |-> at.value,
                         message |-> RemoteCopy(text.value, 32)]>> \o more.value)

RemoteAssert(payload, limit) ==
    LET op    == GetUint8(RemoteBuffer(128, payload))
        total == GetUint32(op.b)
        failures == RemoteFailures(total.b, limit)
    IN  Accepted(op.value = 1 /\ failures.ok, <<total.value, failures.value>>)

-----------------------------------------------------------------------------
(* What a request means, without bytes. *)

\* The levels a sequence of transactions leaves behind, and what it reads.
GpioEffect(levels, transactions) ==
    LET step(s, t) ==
            CASE t.op = "get" -> [s EXCEPT !.read = Append(@, s.levels[t.pin])]
              [] t.op = "set" -> [s EXCEPT !.levels[t.pin] = t.value # 0]
              [] t.op = "configure" -> [s EXCEPT !.levels[t.pin] =
                                            IF t.value \in {34, 42, 98} THEN FALSE
                                            ELSE IF t.value \in {50, 58, 114} THEN TRUE ELSE @]
    IN  FoldLeft(step, [levels |-> levels, read |-> <<>>], transactions)

LevelsAfter(calls) ==
    FoldLeft(LAMBDA levels, r : IF r.target = Board /\ r.to = "gpio"
                                THEN GpioEffect(levels, r.transactions).levels ELSE levels,
             [p \in Pins |-> FALSE], calls)

Fits(r) == FrameLength(r) <= MessageSize

\* The length of a response, and whether it fits with its envelope, the code
\* byte and the delimiter.
ResponseLength(r) ==
    CASE r.to = "gpio" -> 1 + 4 * Len(SelectSeq(r.transactions, LAMBDA t : t.op = "get"))
      [] r.to = "i2cm" -> BusOffset(RxCount, r.transactions, 4, Len(r.transactions) + 1)
      [] r.to = "spim" -> BusOffset(LAMBDA t : t.count, r.transactions, 3, Len(r.transactions) + 1)
      [] OTHER -> 0
HasAnswer(r) ==
    /\ r.target = Board
    /\ Fits(r)
    /\ ResponseLength(r) + EnvelopeSize + 2 <=
           IF r.to \in {"i2cm", "spim"} THEN RxLimit ELSE ResponseSize

Expected(calls) ==
    LET r  == calls[Len(calls)]
        ts == r.transactions
    IN  CASE r.to = "gpio" -> Accepted(TRUE, GpioEffect(LevelsAfter(calls), ts).read)
          [] r.to = "i2cm" ->
                 LET reads == SelectSeq(ts, LAMBDA t : t.direction = "rx")
                 IN  Accepted(I2cAcks(r.device),
                              [i \in DOMAIN reads |-> I2cBytes(r.device, reads[i].count)])
          [] r.to = "spim" -> Accepted(TRUE, [i \in DOMAIN ts |-> SpiBytes(r.device, ts[i].count)])
          [] r.to = "adc" -> Accepted(TRUE, Volts(r.channel, r.limit))
          [] r.to = "system" -> Accepted(TRUE, <<Identity.version, Identity.identifier>>)
IsAssert(r) == r.to = "system" /\ r.op = "assert"

\* Once all bytes arrived the device has executed every request that was for it
\* and fits its buffer, in order and once, but for a damaged one, and has passed
\* on what was for the device behind it.
ExecutesWhatWasSent ==
    line = <<>> /\ device.message.put = 0 =>
        LET calls(target, skipped) ==
                {k \in DOMAIN host.calls \ skipped :
                    /\ host.calls[k].target = target
                    /\ FrameLength(host.calls[k]) + (IF target = Board THEN 0 ELSE 1) <= MessageSize}
            sent(ks) == [i \in 1..Cardinality(ks) |->
                            LET k == CHOOSE k \in ks : Cardinality({j \in ks : j < k}) = i - 1
                            IN  [ok |-> TRUE, payload |-> Encode(host.calls[k]),
                                 envelope |-> EnvelopeFor(host.calls[k])]]
            remote == [i \in DOMAIN device.remote |->
                          EnvelopeDecode(SubSeq(device.remote[i], 1, Len(device.remote[i]) - 1))]
        IN  \E skipped \in {{}, damaged} :
                /\ device.executed = sent(calls(Board, skipped))
                /\ remote = sent(calls(Remote, skipped))

\* The answers of the calls before the first that timed out, and those the host
\* still waits for.
AnswersAreRight ==
    LET n    == Len(host.answers)
        call == host.calls[Len(host.calls)]
        last == host.answers[n]
    IN  /\ \A k \in 1..n :
               (\A j \in 1..k : host.answers[j] # TimedOut) =>
                   /\ HasAnswer(host.calls[k])
                   /\ \/ IsAssert(host.calls[k])
                      \/ host.answers[k] = Expected(SubSeq(host.calls, 1, k))
        /\ host.state = "waiting" /\ line = <<>> /\ back = <<>> =>
               ~HasAnswer(call) \/ Len(host.calls) \in damaged
        /\ (n > 0 /\ host.state = "idle" /\ call.to = "system") => (last.ok =>
               IF IsAssert(call)
               THEN /\ RemoteAssert(host.payload, 1) = last
                    /\ line = <<>> => last.value[1] = device.asserts
                    /\ last.value[2] = [i \in DOMAIN device.failures |-> device.failures[i].failure]
               ELSE RemoteVersion(host.payload).value = last.value[1])

(***************************************************************************)
(* The device executes what the host sent and nothing else; a damaged      *)
(* frame, or one that is too long, never takes the next one with it        *)
(* (fd_gateway.c 75, fd_envelope.c 8), and what was for another device     *)
(* was passed on as it came (fd_gateway.c 43).                             *)
(*                                                                         *)
(* As long as no call timed out, the answer of a call is what the request  *)
(* means in the state the calls before it left behind, and a request that  *)
(* has an answer gets one: a response that does not fit is never sent cut  *)
(* short.  After a timeout the response of the call that timed out may be  *)
(* taken for the answer of the next, since the envelope is not looked at.  *)
(* The client in fd_system_remote.c reads the same values as system.py.    *)
(***************************************************************************)
GatewayServes == ExecutesWhatWasSent /\ AnswersAreRight
=============================================================================
