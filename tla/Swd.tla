-------------------------------- MODULE Swd ---------------------------------
(***************************************************************************)
(* The serial wire debug host of subsys/swd, with a target.                *)
(*                                                                         *)
(* A call of the host is one step; inside it the packets are exchanged one *)
(* after the other.  s is the state of a call: the host's channel (c), the *)
(* target (t), the number of packets so far (n), the disturbance of this   *)
(* call (upset), the value that was read (v), what is reported (ok, error) *)
(* and whether an fd_assert failed (asserted).                             *)
(*                                                                         *)
(* The target is external.  What of it matters: it answers only while host *)
(* and target agree on where a packet starts (link), it expects a data     *)
(* phase after WAIT and FAULT only with overrun detection, its errors are  *)
(* sticky, reads of the access port are posted, and the transfer address   *)
(* wraps inside a window.                                                  *)
(***************************************************************************)
EXTENDS Integers, Sequences, SequencesExt
LOCAL INSTANCE Bitwise

CONSTANTS
    OctetBits,        \* the bits of an octet (8 in the code)
    TransferOctets,   \* tar_increment_bits + 1 (64 in the code)
    WindowOctets,     \* where the target's address wraps
    MemoryOctets,     \* the target has memory below this address
    AckRetries,       \* ack_wait_retry_count
    RegisterRetries,  \* register_retry_count
    Transfers,        \* the [address, data] that are written and read
    Delays,           \* the values that a client gives half_bit_delay_ns
    Upsets,           \* the [kind, at, count]: what happens to packets at..at + count - 1
    MaxUpsets,
    MaxCalls          \* how many calls a behaviour has

VARIABLES channel, target, upsets, calls, call

swdVars == <<channel, target, upsets, calls, call>>

OctetValues == 0..(2 ^ OctetBits - 1)
WordValues == 0..(2 ^ (4 * OctetBits) - 1)
Quiet == [kind |-> "none", at |-> 0, count |-> 0]

(* Registers.  Debug port registers have different meanings for read and write. *)

DPIDR == 0  ABORT == 0  CTRL == 4  STAT == 4  SELECT == 8  RDBUFF == 12  TARGETSEL == 12
CSW == 0    TAR == 4    DRW == 12

\* Addresses of the core's debug registers, behind the memory.
DHCSR == 2 ^ 10
DCRSR == DHCSR + 4
DCRDR == DHCSR + 8

STAT_HALT == 2 ^ 9
STAT_REGRDY == 2 ^ 8
CTRL_DEBUGEN == 1
CTRL_HALT == 2
CTRL_STEP == 4
REGWnR == 2 ^ 8   \* 0x00010000, the direction bit of DCRSR

-----------------------------------------------------------------------------
(* Parity and the request octet. *)

\* fd_swd_get_parity_uint8: the table of the parities of a nibble is 0x6996.
ParityUint8(v) == (27030 \div 2 ^ ((v ^^ (v \div 16)) % 16)) % 2

\* fd_swd_get_parity_uint32
ParityOfWord ==
    [v \in WordValues |->
        LET a == v ^^ (v \div 2 ^ (2 * OctetBits))
            b == a ^^ (a \div 2 ^ OctetBits)
        IN ParityUint8(b % 2 ^ OctetBits)]

\* fd_swd_encode_request: start and park bit, port, direction, bits 2 and 3 of
\* the address, and the parity (of the whole octet, start and park cancel out).
EncodeRequest ==
    [port \in {"debug", "access"}, dir \in {"read", "write"}, address \in {0, 4, 8, 12} |->
        LET bits == 129 + (IF port = "access" THEN 2 ELSE 0) + (IF dir = "read" THEN 4 ELSE 0)
                        + ((address * 2) % 32)
        IN bits + (IF ParityUint8(bits) = 1 THEN 32 ELSE 0)]

\* What the target takes a request octet for.
DecodeRequest ==
    [octet \in 0..255 |->
        LET bit(i) == (octet \div 2 ^ i) % 2
        IN IF bit(0) = 1 /\ bit(6) = 0 /\ bit(7) = 1
                /\ bit(5) = (bit(1) + bit(2) + bit(3) + bit(4)) % 2
           THEN [port |-> IF bit(1) = 1 THEN "access" ELSE "debug",
                 dir |-> IF bit(2) = 1 THEN "read" ELSE "write",
                 reg |-> 4 * bit(3) + 8 * bit(4)]
           ELSE [port |-> "none", dir |-> "none", reg |-> 0]]

\* unpack_little_endian_uint32, pack_little_endian_uint32
Unpack(octets) == octets[1] + octets[2] * 2 ^ OctetBits
                    + octets[3] * 2 ^ (2 * OctetBits) + octets[4] * 2 ^ (3 * OctetBits)
Pack(word) == [i \in 1..4 |-> (word \div 2 ^ ((i - 1) * OctetBits)) % 2 ^ OctetBits]

-----------------------------------------------------------------------------
(* The target. *)

NewCore == [halted |-> FALSE, pc |-> 0, register |-> 0, dcrdr |-> 0, ready |-> TRUE]
NewTarget == [link |-> "lost", sticky |-> {}, orundetect |-> FALSE, powered |-> FALSE,
              ap |-> 0, bank |-> 0, tar |-> 0, increments |-> FALSE, rdbuff |-> 0,
              memory |-> [a \in {4 * i : i \in 0..(MemoryOctets \div 4 - 1)} |-> 0],
              core |-> NewCore]

Increment(t) ==
    IF ~t.increments THEN t
    ELSE [t EXCEPT !.tar = (@ - (@ % WindowOctets)) + ((@ + 4) % WindowOctets)]

CoreRead(core, address) ==
    CASE address = DHCSR -> (IF core.halted THEN STAT_HALT ELSE 0)
                                + (IF core.ready THEN STAT_REGRDY ELSE 0)
      [] address = DCRDR -> core.dcrdr
      [] OTHER -> 0

\* Registers are transferred while the core is halted.
CoreWrite(core, address, value) ==
    CASE address = DHCSR -> IF (value & CTRL_STEP) # 0
                            THEN [core EXCEPT !.pc = (@ + 1) % 2]
                            ELSE [core EXCEPT !.halted = (value & CTRL_HALT) # 0]
      [] address = DCRDR -> [core EXCEPT !.dcrdr = value]
      [] address = DCRSR /\ ~core.halted -> [core EXCEPT !.ready = FALSE]
      [] address = DCRSR /\ value >= REGWnR -> [core EXCEPT !.register = core.dcrdr, !.ready = TRUE]
      [] address = DCRSR /\ value < REGWnR -> [core EXCEPT !.dcrdr = core.register, !.ready = TRUE]

\* A read of the access port returns the result of the previous one.
AccessRead(t, reg) ==
    CASE t.ap # 0 \/ t.bank # 0 -> [t EXCEPT !.rdbuff = 0]
      [] reg = TAR -> [t EXCEPT !.rdbuff = t.tar]
      [] reg = DRW /\ t.tar \in DOMAIN t.memory -> Increment([t EXCEPT !.rdbuff = t.memory[t.tar]])
      [] reg = DRW /\ t.tar >= DHCSR -> [t EXCEPT !.rdbuff = CoreRead(t.core, t.tar)]
      [] OTHER -> [t EXCEPT !.sticky = @ \cup {"error"}]

AccessWrite(t, reg, value) ==
    CASE t.ap # 0 \/ t.bank # 0 -> t
      [] reg = CSW -> [t EXCEPT !.increments = (value = "increment")]
      [] reg = TAR -> [t EXCEPT !.tar = value]
      [] reg = DRW /\ t.tar \in DOMAIN t.memory -> Increment([t EXCEPT !.memory[t.tar] = value])
      [] reg = DRW /\ t.tar >= DHCSR -> [t EXCEPT !.core = CoreWrite(@, t.tar, value)]
      [] OTHER -> [t EXCEPT !.sticky = @ \cup {"error"}]

DebugWrite(t, reg, value) ==
    CASE reg = ABORT -> [t EXCEPT !.sticky = {}]
      [] reg = CTRL -> [t EXCEPT !.powered = TRUE, !.orundetect = value]
      [] reg = SELECT -> [t EXCEPT !.ap = value.ap, !.bank = value.bank]

Status(t) == t.sticky \cup (IF t.powered THEN {"powered"} ELSE {})
ReadValue(t, r) ==
    CASE r.port = "access" -> t.rdbuff
      [] r.port = "debug" /\ r.reg = DPIDR -> 1
      [] r.port = "debug" /\ r.reg = STAT -> Status(t)
      [] r.port = "debug" /\ r.reg = RDBUFF -> t.rdbuff

\* The registers that can be reached while an error is pending.
Exempt(r) == r.port = "debug" /\ (r.reg = 0 \/ (r.reg = STAT /\ r.dir = "read"))

-----------------------------------------------------------------------------
(* One packet. *)

Upset(s) == IF s.n \in s.upset.at..(s.upset.at + s.upset.count - 1) THEN s.upset.kind ELSE "none"

\* After a line reset a write of TARGETSEL is not acknowledged; its data is expected.
Selects(r) == r.port = "debug" /\ r.dir = "write" /\ r.reg = TARGETSEL

\* fd_swd_request: the octet is shifted out, the acknowledge shifted in.  The
\* octet reaches the target only if the host drives the line, and the shifting
\* of whole octets does nothing when half_bit_delay_ns is 0.  A line that
\* nobody drives reads as ones.
Acknowledge(s, r, heard) ==
    LET in_reset == s.t.link = "reset" /\ ~(r.port = "debug" /\ r.dir = "read" /\ r.reg = DPIDR)
    IN IF ~heard \/ s.t.link = "lost" \/ in_reset \/ r.port = "none" THEN "none"
       ELSE IF Upset(s) = "wait" THEN "wait"
       ELSE IF s.t.sticky # {} /\ ~Exempt(r) THEN "fault"
       ELSE "ok"
Acknowledged(s, r, heard, ack) ==
    [s EXCEPT !.ack = ack,
              !.c.out = FALSE,
              !.t.link = IF ack # "none" THEN "idle"
                         ELSE IF heard /\ @ = "reset" /\ Selects(r) THEN "select" ELSE "lost",
              !.t.sticky = IF ack = "wait" /\ s.t.orundetect THEN @ \cup {"overrun"} ELSE @]
Request(s, r) ==
    LET heard == s.c.out /\ s.c.half_bit_delay_ns > 0 /\ Upset(s) # "noise"
    IN Acknowledged(s, r, heard, Acknowledge(s, r, heard))

\* fd_swd_turn_to_write_and_skip
TurnToWrite(s) == [s EXCEPT !.c.out = TRUE]

\* The target has a data phase after this acknowledge; the host loses track of
\* the target when it has none itself, and the other way around.
TargetHasData(s) == s.ack = "ok" \/ (s.ack \in {"wait", "fault"} /\ s.t.orundetect)
DataPhase(s, host) ==
    CASE s.t.link = "select" -> [s EXCEPT !.t.link = IF host THEN "reset" ELSE "lost"]
      [] s.t.link # "select" /\ host = TargetHasData(s) -> s
      [] OTHER -> [s EXCEPT !.t.link = "lost"]

\* The host's parity of a word of memory, and the target's.
Ones(v) == Cardinality({i \in 0..(4 * OctetBits - 1) : (v \div 2 ^ i) % 2 = 1})
ParityAgrees(r, v) ==
    r.port = "access" /\ r.reg = DRW /\ v < 2 ^ (4 * OctetBits) => ParityOfWord[v] = Ones(v) % 2

\* fd_swd_read_uint32: good tells whether the parity matches.  A disturbance
\* flips the parity bit; without a target all bits are ones.
Latched(s, r, value) ==
    [s EXCEPT !.v = value,
              !.good = TargetHasData(s) /\ Upset(s) # "parity" /\ ParityAgrees(r, value),
              !.t = IF s.ack = "ok" /\ r.port = "access" THEN AccessRead(@, r.reg) ELSE @]
ReadUint32(s, r) ==
    DataPhase(Latched(s, r, IF s.ack = "ok" THEN ReadValue(s.t, r) ELSE 0), TRUE)

\* fd_swd_write_uint32: the target discards a value with the wrong parity.
Stored(s, r, value) ==
    CASE s.ack # "ok" -> s.t
      [] s.ack = "ok" /\ (Upset(s) = "parity" \/ ~ParityAgrees(r, value)) ->
            [s.t EXCEPT !.sticky = @ \cup {"data"}]
      [] OTHER -> IF r.port = "access" THEN AccessWrite(s.t, r.reg, value)
                  ELSE DebugWrite(s.t, r.reg, value)
WriteUint32(s, r, value) == DataPhase([s EXCEPT !.t = Stored(s, r, value)], TRUE)

Packet(port, dir, reg) == DecodeRequest[EncodeRequest[port, dir, reg]]
Next1(s) == [s EXCEPT !.n = @ + 1]

\* fd_swd_error_return
Fail(s, error) == [s EXCEPT !.ok = FALSE, !.error = error]

RECURSIVE ReadTry(_, _, _), WriteTry(_, _, _, _)

HostHasData(s) == s.c.overrun_detection_enabled \/ s.ack = "ok"
OutOfRetries(s) == [Fail(s, "too_many_wait_retries") EXCEPT !.asserted = @ \/ s.ack # "wait"]

\* The loop of fd_swd_read_port.  After a parity error the loop continues while
\* the line still points to the host, so that the next request is not heard.
ReadPhase(s, r) ==
    IF HostHasData(s) THEN ReadUint32(s, r) ELSE DataPhase([s EXCEPT !.good = TRUE], FALSE)
AfterRead(s, r, retry) ==
    CASE ~s.good -> ReadTry(Next1(s), r, retry + 1)
      [] s.good /\ s.ack = "ok" -> Next1(TurnToWrite(s))
      [] s.good /\ s.ack = "wait" -> ReadTry(Next1(TurnToWrite(s)), r, retry + 1)
      [] OTHER -> Fail(Next1(TurnToWrite(s)), "unexpected_ack")
ReadTry(s, r, retry) ==
    IF retry = s.c.ack_wait_retry_count THEN OutOfRetries(s)
    ELSE AfterRead(ReadPhase(Request(s, r), r), r, retry)

\* The loop of fd_swd_write_port.
WritePhase(s, r, value) ==
    IF HostHasData(s) THEN WriteUint32(TurnToWrite(s), r, value) ELSE TurnToWrite(DataPhase(s, FALSE))
AfterWrite(s, r, value, retry) ==
    CASE s.ack = "ok" -> Next1(s)
      [] s.ack = "wait" -> WriteTry(Next1(s), r, value, retry + 1)
      [] OTHER -> Fail(Next1(s), "unexpected_ack")
WriteTry(s, r, value, retry) ==
    IF retry = s.c.ack_wait_retry_count THEN OutOfRetries(s)
    ELSE AfterWrite(WritePhase(Request(s, r), r, value), r, value, retry)

\* fd_swd_read_port, fd_swd_write_port and their four variants: nothing is done
\* after a failure, every caller returns.
ReadPort(s, port, reg) ==
    IF s.ok THEN ReadTry([s EXCEPT !.ack = "ok"], Packet(port, "read", reg), 0) ELSE s
WritePort(s, port, reg, value) ==
    IF s.ok THEN WriteTry([s EXCEPT !.ack = "ok"], Packet(port, "write", reg), value, 0) ELSE s
ReadDebugPort(s, reg) == ReadPort(s, "debug", reg)
WriteDebugPort(s, reg, value) == WritePort(s, "debug", reg, value)
ReadAccessPort(s, reg) == ReadPort(s, "access", reg)
WriteAccessPort(s, reg, value) == WritePort(s, "access", reg, value)

-----------------------------------------------------------------------------
(* Selecting registers. *)

\* fd_swd_reset_debug_port: nothing is shifted when half_bit_delay_ns is 0.
ResetDebugPort(s) ==
    [s EXCEPT !.c.out = TRUE, !.t.link = IF s.c.half_bit_delay_ns > 0 THEN "reset" ELSE @]

SelectRegister(s, reg) == IF s.ok THEN [s EXCEPT !.c.bank = reg \div 16] ELSE s
PortSelect(s) == WritePort(s, "debug", SELECT, [ap |-> s.c.ap, bank |-> s.c.bank])
SelectAndReadAccessPort(s, reg) ==
    ReadPort(ReadPort(PortSelect(SelectRegister(s, reg)), "access", reg), "debug", RDBUFF)

\* The flush that follows shifts out zeros, which the target takes for idle.
SelectAndWriteAccessPort(s, reg, value) ==
    WritePort(PortSelect(SelectRegister(s, reg)), "access", reg, value)

RecordOverrunDetection(s, enabled) ==
    IF s.ok THEN [s EXCEPT !.c.overrun_detection_enabled = enabled] ELSE s
SetOverrunDetection(s, enabled) ==
    RecordOverrunDetection(WriteDebugPort(WriteDebugPort(s, ABORT, 0), CTRL, enabled), enabled)

-----------------------------------------------------------------------------
(* Memory transfers. *)

BeforeMemoryTransfer(s, address, length) ==
    IF \/ address % 4 # 0
       \/ length = 0 \/ length % 4 # 0
       \/ address \div TransferOctets # (address + length - 1) \div TransferOctets
    THEN Fail(s, "invalid")
    ELSE SetOverrunDetection(
             PortSelect(SelectRegister(SelectAndWriteAccessPort(s, TAR, address), DRW)), TRUE)

\* Called whether the words were transferred or not.
CheckStatus(s, ok) ==
    CASE ~s.ok -> s
      [] s.ok /\ s.v \cap {"data", "error", "overrun"} # {} -> Fail(s, "sticky")
      [] OTHER -> [s EXCEPT !.ok = ok]
AfterMemoryTransfer(s) ==
    CheckStatus(SetOverrunDetection(ReadDebugPort([s EXCEPT !.ok = TRUE], STAT), FALSE), s.ok)

\* fd_swd_request_write and fd_swd_request_read return early on an unexpected
\* acknowledge: no data phase, and the line is not turned.
Unexpected(s) == Fail(Next1(DataPhase(s, FALSE)), "unexpected_ack")
WriteWord(s, r, value) ==
    IF s.ack = "ok" THEN Next1(WriteUint32(TurnToWrite(s), r, value)) ELSE Unexpected(s)
RequestWrite(s, value) ==
    LET r == Packet("access", "write", DRW) IN IF s.ok THEN WriteWord(Request(s, r), r, value) ELSE s

TurnIfGood(s) == IF s.good THEN Next1(TurnToWrite(s)) ELSE Fail(Next1(s), "parity")
ReadWord(s, r) == IF s.ack = "ok" THEN TurnIfGood(ReadUint32(s, r)) ELSE Unexpected(s)
RequestRead(s) ==
    LET r == Packet("access", "read", DRW) IN IF s.ok THEN ReadWord(Request(s, r), r) ELSE s

PackWord(s) == IF s.ok THEN [s EXCEPT !.data = @ \o Pack(s.v)] ELSE s
RequestReadAndPack(s, i) == PackWord(RequestRead(s))

Words(data) == [i \in 1..(Len(data) \div 4) |-> Unpack(SubSeq(data, 4 * i - 3, 4 * i))]
WriteWords(s, words) == IF s.ok THEN AfterMemoryTransfer(FoldLeft(RequestWrite, s, words)) ELSE s
WriteMemoryTransfer(s, address, data) ==
    WriteWords(BeforeMemoryTransfer(s, address, Len(data)), Words(data))

\* The first word that is read is the result of an earlier read.
ReadWords(s, n) ==
    IF s.ok
    THEN AfterMemoryTransfer(FoldLeft(RequestReadAndPack, RequestRead(s), [i \in 1..n |-> i]))
    ELSE s
ReadMemoryTransfer(s, address, length) ==
    ReadWords(BeforeMemoryTransfer(s, address, length), length \div 4)

\* A mutant of Sublength: the address does not count.
SublengthFromZero(address, length) == IF length < TransferOctets THEN length ELSE TransferOctets

\* The octets up to the next multiple of TransferOctets, at most length.
Sublength(address, length) ==
    LET sublength == TransferOctets - (address % TransferOctets)
    IN IF length < sublength THEN length ELSE sublength

RECURSIVE WriteData(_, _, _), ReadData(_, _, _)
WriteData(s, address, data) ==
    LET n == Sublength(address, Len(data))
    IN IF ~s.ok \/ data = <<>> THEN s
       ELSE WriteData(WriteMemoryTransfer(s, address, SubSeq(data, 1, n)), address + n,
                      SubSeq(data, n + 1, Len(data)))
ReadData(s, address, length) ==
    LET n == Sublength(address, length)
    IN IF ~s.ok \/ length = 0 THEN s
       ELSE ReadData(ReadMemoryTransfer(s, address, n), address + n, length - n)

-----------------------------------------------------------------------------
(* Connecting, words of memory and the core. *)

RECURSIVE WaitForStatus(_, _), WaitForRegister(_, _)
IfPowered(s, retry) == IF ~s.ok \/ "powered" \in s.v THEN s ELSE WaitForStatus(s, retry + 1)
WaitForStatus(s, retry) ==
    IF retry = 3 THEN Fail(s, "too_many_wait_retries")
    ELSE IfPowered(ReadDebugPort(s, STAT), retry)
WaitForDebugPortStatus(s) == IF s.ok THEN WaitForStatus(s, 0) ELSE s

InitializeDebugPort(s) ==
    LET aborted == WriteDebugPort(ReadDebugPort(s, STAT), ABORT, 0)
        powering == WriteDebugPort(ReadDebugPort(aborted, STAT), CTRL, FALSE)
        powered == WaitForDebugPortStatus(WaitForDebugPortStatus(powering))
        selected == WriteDebugPort(powered, SELECT, [ap |-> 0, bank |-> 0])
    IN ReadDebugPort(ReadDebugPort(selected, STAT), DPIDR)

InitializeAccessPort(s) == SelectAndWriteAccessPort(s, CSW, "increment")

\* fd_swd_connect: the selection of a target is tried once and its result is ignored.
Connect(s) ==
    LET reset == ResetDebugPort(s)
        once == WriteDebugPort([reset EXCEPT !.c.ack_wait_retry_count = 1], TARGETSEL, s.c.target_id)
        selected == IF s.c.target_id = 0 THEN reset
                    ELSE [once EXCEPT !.c.ack_wait_retry_count = s.c.ack_wait_retry_count,
                                      !.ok = TRUE, !.error = "none"]
    IN InitializeDebugPort(ReadDebugPort(selected, DPIDR))

ReadMemoryUint32(s, address) ==
    SelectAndReadAccessPort(
        SelectAndReadAccessPort(SelectAndWriteAccessPort(s, TAR, address), TAR), DRW)
WriteMemoryUint32(s, address, value) ==
    SelectAndWriteAccessPort(SelectAndWriteAccessPort(s, TAR, address), DRW, value)

IfReady(s, retry) ==
    IF ~s.ok \/ (s.v & STAT_REGRDY) # 0 THEN s ELSE WaitForRegister(s, retry + 1)
WaitForRegister(s, retry) ==
    IF retry = s.c.register_retry_count THEN Fail(s, "not_ready")
    ELSE IfReady(ReadMemoryUint32(s, DHCSR), retry)
WaitForRegisterReady(s) == IF s.ok THEN WaitForRegister(s, 0) ELSE s

ReadRegister(s, id) ==
    ReadMemoryUint32(WaitForRegisterReady(WriteMemoryUint32(s, DCRSR, id)), DCRDR)
WriteRegister(s, id, value) ==
    WaitForRegisterReady(
        WriteMemoryUint32(WriteMemoryUint32(s, DCRDR, value), DCRSR, REGWnR + id))

HaltBit(s) == IF s.ok THEN [s EXCEPT !.v = (@ & STAT_HALT) # 0] ELSE s
IsHalted(s) == HaltBit(ReadMemoryUint32(s, DHCSR))

WriteDHCSR(s, value) == WriteMemoryUint32(s, DHCSR, value + CTRL_DEBUGEN)
Halt(s) == WriteDHCSR(s, CTRL_HALT)
Step(s) == WriteDHCSR(s, CTRL_STEP)
Run(s) == WriteDHCSR(s, 0)

-----------------------------------------------------------------------------
(* The calls of a client. *)

NoCall == [op |-> "none", address |-> 0, data |-> <<>>, ok |-> TRUE, got |-> 0, clean |-> TRUE]

\* fd_swd_channel_initialize, fd_swd_channel_reinitialize
NewChannel == [out |-> FALSE, overrun_detection_enabled |-> FALSE,
               ack_wait_retry_count |-> AckRetries, register_retry_count |-> RegisterRetries,
               half_bit_delay_ns |-> 0, target_id |-> 0, ap |-> 0, bank |-> 0]

Init ==
    /\ \E d \in Delays : channel = [NewChannel EXCEPT !.half_bit_delay_ns = d]
    /\ target = NewTarget
    /\ upsets = 0 /\ calls = 0
    /\ call = NoCall

MayCall == calls < MaxCalls
Counts == MayCall /\ calls' = calls + 1

\* One call, op(s): it may be disturbed.
Begin(upset) == [c |-> channel, t |-> target, n |-> 0, upset |-> upset, v |-> 0, data |-> <<>>,
                 ok |-> TRUE, error |-> "none", ack |-> "ok", good |-> TRUE, asserted |-> FALSE]
End(op, address, data, s, got) ==
    /\ calls' = calls + 1
    /\ channel' = s.c
    /\ target' = s.t
    /\ upsets' = IF s.upset = Quiet THEN upsets ELSE upsets + 1
    /\ call' = [op |-> op, address |-> address, data |-> data, ok |-> s.ok,
                got |-> IF s.ok THEN got ELSE 0, clean |-> s.upset = Quiet]

Disturbances == {Quiet} \cup (IF upsets < MaxUpsets THEN Upsets ELSE {})
Calling(op, data, Call(_)) ==
    /\ MayCall
    /\ \E u \in Disturbances : \E s \in {Call(Begin(u))} : End(op, 0, data, s, s.v)

Quietly == call' = NoCall /\ UNCHANGED upsets

SwdConnect == Calling("connect", <<>>, Connect)
SwdInitializeAccessPort == Calling("initialize", <<>>, InitializeAccessPort)
SwdHalt == Calling("halt", <<>>, Halt)
SwdStep == Calling("step", <<>>, Step)
SwdRun == Calling("run", <<>>, Run)
SwdIsHalted == Calling("is_halted", <<>>, IsHalted)
SwdReadRegister == LET read(s) == ReadRegister(s, 0) IN Calling("read_register", <<>>, read)
SwdWriteRegister ==
    \E value \in {0, 1} :
        LET write(s) == WriteRegister(s, 0, value)
        IN Calling("write_register", <<value>>, write)
SwdWriteData ==
    /\ MayCall
    /\ \E x \in Transfers, u \in Disturbances :
       \E s \in {WriteData(Begin(u), x.address, x.data)} : End("write", x.address, x.data, s, 0)
SwdReadData ==
    /\ MayCall
    /\ \E x \in Transfers, u \in Disturbances :
       \E s \in {ReadData(Begin(u), x.address, Len(x.data))} : End("read", x.address, x.data, s, s.data)
SwdWriteMemory ==
    \E x \in Transfers, u \in Disturbances :
        /\ MayCall /\ Len(x.data) = 4
        /\ \E s \in {WriteMemoryUint32(Begin(u), x.address, Unpack(x.data))} :
              End("write_word", x.address, x.data, s, 0)
SwdReadMemory ==
    \E x \in Transfers, u \in Disturbances :
        /\ MayCall /\ Len(x.data) = 4
        /\ \E s \in {ReadMemoryUint32(Begin(u), x.address)} :
              End("read_word", x.address, x.data, s, Pack(s.v))

(* The client sets fields of the channel and its pins. *)

SetTargetId == Counts /\ channel' = [channel EXCEPT !.target_id = 1] /\ Quietly /\ UNCHANGED target
SelectAccessPortId ==
    \E id \in {0, 1} : Counts /\ channel' = [channel EXCEPT !.ap = id] /\ Quietly /\ UNCHANGED target

\* fd_swd_channel_reinitialize takes power and reset low, and the client sets
\* half_bit_delay_ns again or forgets to.
Reinitialize ==
    \E d \in Delays :
        /\ Counts
        /\ channel' = [NewChannel EXCEPT !.half_bit_delay_ns = d]
        /\ target' = NewTarget
        /\ Quietly

\* fd_swd_channel_set_power, off and on again; fd_swd_channel_set_reset, on and off again.
SetPower == Counts /\ target' = NewTarget /\ Quietly /\ UNCHANGED channel
SetReset == Counts /\ target' = [target EXCEPT !.core = NewCore] /\ Quietly /\ UNCHANGED channel

Next ==
    \/ SwdConnect \/ SwdInitializeAccessPort
    \/ SwdWriteData \/ SwdReadData \/ SwdWriteMemory \/ SwdReadMemory
    \/ SwdReadRegister \/ SwdWriteRegister \/ SwdIsHalted \/ SwdHalt \/ SwdStep \/ SwdRun
    \/ SetTargetId \/ SelectAccessPortId \/ Reinitialize
    \/ SetPower \/ SetReset

-----------------------------------------------------------------------------
(* Properties. *)

\* The memory m after data was written at address.
Overwritten(m, address, data) ==
    [a \in DOMAIN m |-> IF address % 4 = 0 /\ a \in address..(address + Len(data) - 1)
                        THEN Unpack(SubSeq(data, (a - address) + 1, (a - address) + 4)) ELSE m[a]]
OctetsAt(m, address, n) ==
    FlattenSeq([i \in 1..(n \div 4) |-> Pack(m[address + 4 * (i - 1)])])

\* The target can be used: it is connected and the access port was initialized.
Ready ==
    /\ channel.half_bit_delay_ns > 0 /\ channel.out /\ channel.ap = 0
    /\ target.link = "idle" /\ target.sticky = {} /\ target.powered /\ target.increments
\* ... and so is the word behind it, which a read touches too.
InMemory(x) == x.address % 4 = 0 /\ x.address + Len(x.data) < MemoryOctets

\* What a call reports is true of the target, whatever happened on the wire.
\* fd_swd_write_data that reports success changed the memory exactly there,
\* one that fails left no third value and nothing elsewhere, and a read that
\* reports success returns what the memory holds; without a disturbance, on a
\* connected target, calls do not fail, and fd_swd_connect recovers from every
\* state that disturbances left behind.  (Of fd_swd_write_memory_uint32, which
\* does not look at the status, only: a write that was lost left a sticky error.)
FaithfulCall ==
    LET op == call'.op
        written == Overwritten(target.memory, call'.address, call'.data)
    IN /\ op = "write" /\ call'.ok /\ channel.ap = 0 => target'.memory = written
       /\ op \in {"write", "write_word"} =>
            \A a \in DOMAIN target.memory : target'.memory[a] \in {target.memory[a], written[a]}
       /\ op = "write_word" /\ call'.ok /\ channel.ap = 0 =>
            target'.memory = written \/ target'.sticky # {}
       /\ op = "read" /\ call'.ok /\ channel.ap = 0 =>
            call'.got = OctetsAt(target.memory, call'.address, Len(call'.data))
       /\ op = "read_word" /\ call'.ok /\ channel.ap = 0 =>
            call'.got = OctetsAt(target.memory, call'.address, 4)
       /\ op \notin {"write", "write_word", "none"} => target'.memory = target.memory
       /\ op = "is_halted" /\ call'.ok /\ channel.ap = 0 => call'.got = target.core.halted
       /\ op = "read_register" /\ call'.ok /\ channel.ap = 0 /\ target.core.halted =>
            call'.got = target.core.register
       /\ op = "write_register" /\ call'.ok /\ channel.ap = 0 /\ target.core.halted =>
            target'.core.register = call'.data[1]
       /\ op \in {"write", "read"} /\ call'.clean /\ Ready /\ InMemory(call') => call'.ok
       /\ op = "connect" /\ call'.clean /\ channel.target_id = 0 /\ channel.half_bit_delay_ns > 0 =>
            call'.ok /\ target'.link = "idle" /\ target'.sticky = {}
=============================================================================
