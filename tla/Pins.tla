-------------------------------- MODULE Pins --------------------------------
(***************************************************************************)
(* The pins of a port (fd_gpio_zephyr.c), the pulse width modulation that  *)
(* drives pins (fd_pwm_nrf5.c), and the requests of a host on pins and     *)
(* buses (fd_rpc_server_hardware.c).                                       *)
(*                                                                         *)
(* Zephyr's drivers and the peripheral are external.  Floats are exact     *)
(* fractions [n, d]; the samples are chosen such that the code's single    *)
(* precision gives the same integers.                                      *)
(***************************************************************************)
EXTENDS Integers, Sequences, FiniteSets

CONSTANTS PinCount,      \* the port has the pins 0 .. PinCount - 1
          Frequencies, Duties,
          MaskBits,      \* bound: a mask of a host has as many bits, 32 in the code
          Masks,         \* the sets of pins in a host's requests
          I2cOperations, \* the sequences of operations in a host's requests
          MaxPinCalls    \* bound: calls in a behaviour

VARIABLES pins,      \* per pin: [input, output, drain, pull, latch, edge, callback, listener]
          outside,   \* what is connected to each pin: "low", "high" or "open"
          pwm,       \* [running, divider, top, countertop, sequence, loaded, out]
          i2cDevice, \* the memory of the device on the bus: [pointer, cells]
          asked,     \* what the callers asked for; sets of at most one, or edges
          result     \* [call, value, count] of the last call

pinVars == <<pins, outside, pwm, i2cDevice, asked, result>>

Pin == 0 .. PinCount - 1
Channel == {0, 1}
IsFalling(c) == c = 1                 \* channel->polarity
None == "none"
Edges == {"rising", "falling", "both"}

Flags(input, output, drain, pull) == [input |-> input, output |-> output, drain |-> drain, pull |-> pull]
Default == Flags(FALSE, FALSE, FALSE, None)
Inputs == {Flags(TRUE, FALSE, FALSE, p) : p \in {None, "up", "down"}}
Outputs == {Flags(FALSE, TRUE, FALSE, None)} \cup {Flags(TRUE, TRUE, TRUE, p) : p \in {None, "up"}}

NewPin(f) == [flags |-> f, latch |-> FALSE, edge |-> None, callback |-> FALSE, listener |-> FALSE]

\* Bound: at first, one pin is configured and all that is connected is alike.
Init ==
    /\ \E f \in {Default} \cup Inputs \cup Outputs :
           pins = [p \in Pin |-> NewPin(IF p = 0 THEN f ELSE Default)]
    /\ \E level \in {"low", "open"} : outside = [p \in Pin |-> level]
    /\ pwm = [running |-> FALSE, divider |-> 1, top |-> 0, countertop |-> 0,
              sequence |-> [c \in Channel |-> 0], loaded |-> [c \in Channel |-> 0],
              out |-> [c \in Channel |-> FALSE]]
    /\ i2cDevice = [pointer |-> 0, cells |-> <<4, 5, 6>>]
    /\ asked = [frequency |-> {}, duty |-> [c \in Channel |-> {}],
                edges |-> [p \in Pin |-> [callback |-> None, listener |-> None]]]
    /\ result = [call |-> "none", value |-> 0, count |-> 0]

Returns(call, value) ==
    /\ result.count < MaxPinCalls
    /\ result' = [call |-> call, value |-> value, count |-> result.count + 1]

-----------------------------------------------------------------------------
(* The pins.  A pin without a pull that nothing drives has any level. *)

LevelsOf(p, at) ==
    LET pin == pins[p]
        drives == pin.flags.output /\ (~pin.flags.drain \/ ~pin.latch)
    IN  CASE drives -> {pin.latch}
          [] ~drives /\ at # "open" -> {at = "high"}
          [] OTHER -> IF pin.flags.pull = None THEN BOOLEAN ELSE {pin.flags.pull = "up"}

\* fd_gpio_configure_default, fd_gpio_configure_input and their companions.
fd_gpio_configure_input(p, f) ==
    /\ Returns("configure", 0)
    /\ pins' = [pins EXCEPT ![p].flags = f]
    /\ UNCHANGED <<outside, pwm, i2cDevice, asked>>

fd_gpio_configure_output(p, f, value) ==
    /\ Returns("configure", 0)
    /\ pins' = [pins EXCEPT ![p].flags = f, ![p].latch = value]
    /\ UNCHANGED <<outside, pwm, i2cDevice, asked>>

fd_gpio_set(p, value) ==
    /\ Returns("set", 0)
    /\ pins' = [pins EXCEPT ![p].latch = value]
    /\ UNCHANGED <<outside, pwm, i2cDevice, asked>>

\* The buffer of a pin that is no input is not connected and reads low.
Reads(p) == IF pins[p].flags.input THEN LevelsOf(p, outside[p]) ELSE {FALSE}

fd_gpio_get(p) ==
    /\ \E v \in Reads(p) : Returns("get", [pin |-> p, level |-> v])
    /\ UNCHANGED <<pins, outside, pwm, i2cDevice, asked>>

\* Both kinds share the interrupt of the pin, which takes the edge set last.
fd_gpio_set_callback_common(p, edge, kind) ==
    /\ asked' = [asked EXCEPT !.edges[p][kind] = edge]
    /\ UNCHANGED <<outside, pwm, i2cDevice>>

fd_gpio_set_callback(p, edge) ==
    /\ pins[p].flags \in Inputs
    /\ Returns("set_callback", 0)
    /\ pins' = [pins EXCEPT ![p].callback = TRUE, ![p].edge = edge]
    /\ fd_gpio_set_callback_common(p, edge, "callback")

fd_gpio_set_listener(p, edge) ==
    /\ pins[p].flags \in Inputs
    /\ Returns("set_listener", 0)
    /\ pins' = [pins EXCEPT ![p].listener = TRUE, ![p].edge = edge]
    /\ fd_gpio_set_callback_common(p, edge, "listener")

Matches(edge, before, after) ==
    /\ before # after
    /\ edge = "both" \/ edge = (IF after THEN "rising" ELSE "falling")

\* The level changes, and the interrupt calls back whoever is registered.
fd_gpio_callback_handler(p, level) ==
    /\ outside[p] # level
    /\ outside' = [outside EXCEPT ![p] = level]
    /\ \E before \in LevelsOf(p, outside[p]), after \in LevelsOf(p, level) :
           Returns("change", [before |-> before, after |-> after,
                              called |-> {k \in {"callback", "listener"} :
                                             Matches(pins[p].edge, before, after) /\ pins[p][k]}])
    /\ UNCHANGED <<pins, pwm, i2cDevice, asked>>

-----------------------------------------------------------------------------
(* Pulse width modulation.  The peripheral counts to top, 15 bits, and takes *)
(* the values of the sequence when one is started.                           *)

Counter == 2 ^ 15
Powers == {2 ^ k : k \in 0..7}

\* 16 MHz / 32768 / f, rounded up.
PrescalerDivider(f) == (15625 * f.d + 32 * f.n - 1) \div (32 * f.n)
Divider(f) == IF PrescalerDivider(f) > 64 THEN 128
              ELSE CHOOSE w \in Powers : w >= PrescalerDivider(f)
                                         /\ \A v \in Powers : v >= PrescalerDivider(f) => w <= v
CountTop(f) == (16000000 * f.d) \div (Divider(f) * f.n)

Stopped(m) == [m EXCEPT !.running = FALSE, !.top = 0]
fd_pwm_module_start(f) ==
    /\ Returns("module_start", 0)
    /\ pwm' = [pwm EXCEPT !.running = TRUE, !.divider = Divider(f), !.countertop = CountTop(f),
                          !.top = CountTop(f) % Counter, !.loaded = pwm.sequence]
    /\ asked' = [asked EXCEPT !.frequency = {f}]
    /\ UNCHANGED <<pins, outside, i2cDevice>>

fd_pwm_module_stop ==
    /\ Returns("module_stop", 0)
    /\ pwm' = IF pwm.running THEN Stopped(pwm) ELSE pwm
    /\ UNCHANGED <<pins, outside, i2cDevice, asked>>

\* The highest bit is the polarity.
SequenceValue(c, duty) ==
    LET v == ((duty.n * pwm.countertop) \div duty.d) % (2 * Counter)
    IN  IF IsFalling(c) /\ v < Counter THEN v + Counter ELSE v

fd_pwm_channel_start(c, duty) ==
    /\ Returns("channel_start", 0)
    /\ LET s == [pwm.sequence EXCEPT ![c] = SequenceValue(c, duty)]
       IN  pwm' = [pwm EXCEPT !.sequence = s, !.out[c] = TRUE,
                              !.loaded = IF pwm.running THEN s ELSE @]
    /\ asked' = [asked EXCEPT !.duty[c] = IF pwm.running THEN {[duty |-> duty, at |-> asked.frequency]}
                                          ELSE {}]
    /\ UNCHANGED <<pins, outside, i2cDevice>>

fd_pwm_channel_stop(c) ==
    /\ Returns("channel_stop", 0)
    /\ pwm' = [pwm EXCEPT !.sequence[c] = 0, !.out[c] = FALSE]
    /\ asked' = [asked EXCEPT !.duty[c] = {}]
    /\ UNCHANGED <<pins, outside, i2cDevice>>

-----------------------------------------------------------------------------
(* The requests of a host.  A port that no device has the name of is not    *)
(* found (EINVAL).  The driver refuses pins that the port does not have.     *)

Found(found, code) == IF found THEN code ELSE "EINVAL"
fd_rpc_server_hardware_configure_port_request(mask, f, found) ==
    LET configured(s, p) == IF p \in Pin THEN [s EXCEPT !.pins[p].flags = f] ELSE [s EXCEPT !.result = "-EINVAL"]
        after[p \in 0..MaskBits] == \* what the loop has made when it comes to p
            IF p = 0 THEN [pins |-> pins, result |-> "ok"]
            ELSE LET s == after[p - 1]
                 IN  IF s.result = "ok" /\ p - 1 \in mask THEN configured(s, p - 1) ELSE s
    IN  /\ Returns("configure_port", [result |-> Found(found, after[MaskBits].result), named |-> mask, flags |-> f])
        /\ pins' = IF found THEN after[MaskBits].pins ELSE pins
        /\ UNCHANGED <<outside, pwm, i2cDevice, asked>>

fd_rpc_server_hardware_set_port_request(mask, value, found) ==
    /\ Returns("set_port", [result |-> Found(found, "ok"), named |-> mask, value |-> value])
    /\ pins' = [p \in Pin |-> IF found /\ p \in mask THEN [pins[p] EXCEPT !.latch = p \in value] ELSE pins[p]]
    /\ UNCHANGED <<outside, pwm, i2cDevice, asked>>

fd_rpc_server_hardware_get_port_request(found) ==
    /\ \E v \in IF found THEN {s \in SUBSET Pin : \A p \in Pin : (p \in s) \in Reads(p)} ELSE {{}} :
           Returns("get_port", [result |-> Found(found, "ok"), high |-> v])
    /\ UNCHANGED <<pins, outside, pwm, i2cDevice, asked>>

\* The octets that came back are in the response, but not their count.
fd_rpc_server_hardware_spi_transceive_request(data, found) ==
    /\ Returns("spi", IF found THEN [result |-> "ok", octets |-> [i \in DOMAIN data |-> 7 - data[i]], size |-> 0]
                      ELSE [result |-> "ENXIO", octets |-> <<>>, size |-> 0])
    /\ UNCHANGED <<pins, outside, pwm, i2cDevice, asked>>

\* The place in the results of each read: one result more for each.
Slots(ops) ==
    LET slot[i \in 0..Len(ops)] ==
            IF i = 0 THEN 0 ELSE slot[i - 1] + (IF ops[i].op = "read" THEN 1 ELSE 0)
    IN  slot

\* External: the device takes the pointer and then octets, and gives octets.
Cell(dev, i) == dev.cells[((dev.pointer + i) % Len(dev.cells)) + 1]
Taken(dev, m) ==
    IF m.op = "read" THEN [dev EXCEPT !.pointer = (@ + m.length) % Len(dev.cells)]
    ELSE LET n == Len(m.data) - 1
             p == m.data[1]
         IN  [pointer |-> (p + n) % Len(dev.cells),
              cells |-> [i \in DOMAIN dev.cells |->
                            IF i - 1 >= p /\ i - 1 < p + n THEN m.data[i - p + 1] ELSE dev.cells[i]]]
DeviceAfter(dev, ops) ==
    LET after[i \in 0..Len(ops)] == IF i = 0 THEN dev ELSE Taken(after[i - 1], ops[i])
    IN  after

fd_rpc_server_hardware_i2c_transfer_request(ops, outcome) ==
    LET slot  == Slots(ops)
        after == DeviceAfter(i2cDevice, ops)
        At(k) == CHOOSE i \in DOMAIN ops : ops[i].op = "read" /\ slot[i] = k
        data(i) == [j \in 1..ops[i].length |-> IF outcome = "ok" THEN Cell(after[i - 1], j - 1) ELSE 0]
    IN  /\ Returns("i2c", [result |-> outcome, operations |-> ops,
                           results |-> IF outcome = "ENXIO" THEN <<>>
                                       ELSE [k \in 1..slot[Len(ops)] |-> data(At(k))]])
        /\ i2cDevice' = IF outcome = "ok" THEN after[Len(ops)] ELSE i2cDevice
        /\ UNCHANGED <<pins, outside, pwm, asked>>

-----------------------------------------------------------------------------
GpioNext ==
    \E p \in Pin :
        \/ \E f \in {Default} \cup Inputs : fd_gpio_configure_input(p, f)
        \/ \E f \in Outputs, v \in BOOLEAN : fd_gpio_configure_output(p, f, v)
        \/ \E v \in BOOLEAN : fd_gpio_set(p, v)
        \/ fd_gpio_get(p)
        \/ \E e \in Edges : fd_gpio_set_callback(p, e) \/ fd_gpio_set_listener(p, e)
        \/ \E o \in {"low", "high", "open"} : fd_gpio_callback_handler(p, o)

PwmNext ==
    \/ \E f \in Frequencies : fd_pwm_module_start(f)
    \/ fd_pwm_module_stop
    \/ \E c \in Channel : fd_pwm_channel_stop(c) \/ \E d \in Duties : fd_pwm_channel_start(c, d)

ServerNext ==
    \/ \E m \in Masks :
          \/ \E f \in Inputs \cup Outputs : fd_rpc_server_hardware_configure_port_request(m, f, TRUE)
          \/ \E v \in SUBSET Pin : fd_rpc_server_hardware_set_port_request(m, v, TRUE)
    \/ fd_rpc_server_hardware_configure_port_request(Pin, Default, FALSE)
    \/ fd_rpc_server_hardware_set_port_request(Pin, Pin, FALSE)
    \/ \E found \in BOOLEAN : fd_rpc_server_hardware_get_port_request(found)
    \/ \E found \in BOOLEAN : fd_rpc_server_hardware_spi_transceive_request(<<1, 6>>, found)
    \/ \E ops \in I2cOperations, outcome \in {"ok", "EIO", "ENXIO"} :
           fd_rpc_server_hardware_i2c_transfer_request(ops, outcome)

\* The pins and the host's requests share pins; the modulation is on its own.
Next == IF pwm.running \/ result.call \in {"module_start", "module_stop", "channel_start", "channel_stop"}
        THEN PwmNext ELSE GpioNext \/ PwmNext \/ ServerNext

-----------------------------------------------------------------------------
(* Properties. *)

\* Whoever registered for an edge of a pin is called for that edge, nobody else is
\* and for no other edge, unless callback and listener of one pin asked for
\* different edges: the later one decides for both (fd_gpio_set_callback_common).
EdgesReported ==
    result'.call = "change" /\ result'.count # result.count =>
        \E p \in Pin :
            LET e == asked.edges[p]
            IN  /\ outside'[p] # outside[p]
                /\ \/ e.callback # e.listener /\ None \notin {e.callback, e.listener}
                   \/ result'.value.called = {k \in {"callback", "listener"} :
                          Matches(e[k], result'.value.before, result'.value.after)}

\* What fd_gpio_get and a host read of a pin is the level of its line, but low of a
\* pin that only drives: an input is high or low as the pin itself drives it, else
\* as what is connected drives it, else as the pull pulls it.
MayRead(p, v) ==
    LET f      == pins[p].flags
        drives == f.output /\ (f.drain => ~pins[p].latch)
    IN  /\ v => f.input
        /\ f.input /\ drives => v = pins[p].latch
        /\ f.input /\ ~drives /\ outside[p] # "open" => v = (outside[p] = "high")
        /\ f.input /\ ~drives /\ outside[p] = "open" /\ f.pull # None => v = (f.pull = "up")
LevelsRead ==
    result'.count # result.count =>
        /\ result'.call = "get" => MayRead(result'.value.pin, result'.value.level)
        /\ result'.call = "get_port" /\ result'.value.result = "ok" =>
              \A p \in Pin : MayRead(p, p \in result'.value.high)

\* A module counts the period it was asked for, with the best resolution its counter
\* has, and each channel is active for the part of it that was asked for, through the
\* starts and stops of the other channel and of the module.  Excepted are periods of
\* exactly 2^15 counts of some prescaler (ceil gives the prescaler whose counter is
\* one too small), periods that are too long, and a channel that was started at
\* another frequency, whose count is not scaled (fd_pwm_module_start).
FitsCounter(f) == 15625 * f.d < 32 * 128 * f.n /\ \A w \in Powers : 15625 * f.d # 32 * w * f.n
PwmFaithful ==
    \A f \in asked.frequency : pwm.running /\ FitsCounter(f) =>
        /\ pwm.top * pwm.divider * f.n <= 16000000 * f.d
        /\ (pwm.top + 1) * pwm.divider * f.n > 16000000 * f.d
        /\ pwm.divider = 1 \/ 2 * pwm.top >= Counter
        /\ \A c \in Channel : \A a \in asked.duty[c] :
              /\ pwm.out[c]
              /\ a.at = {f} => /\ pwm.loaded[c] % Counter = (a.duty.n * pwm.top) \div a.duty.d
                              /\ pwm.loaded[c] >= Counter <=> IsFalling(c)

\* A request on a port that reports success did all that it names and nothing
\* else; one that fails did what it names below the pin that failed, and left alone
\* that pin and those above.  The results of a transfer are those of its reads in
\* their order.  (The data of an SPI request never has a length.)
Configured(r) ==
    LET missing == r.named \ Pin
        reached == IF r.result = "EINVAL" THEN {} ELSE {p \in r.named : \A q \in missing : p < q}
    IN  /\ r.result = "ok" => r.named \subseteq Pin
        /\ \A p \in Pin : pins'[p] = IF p \in reached THEN [pins[p] EXCEPT !.flags = r.flags] ELSE pins[p]
SetTo(r) ==
    \A p \in Pin : pins'[p] = IF p \in r.named /\ r.result = "ok"
                              THEN [pins[p] EXCEPT !.latch = p \in r.value] ELSE pins[p]
ServerFaithful ==
    /\ result'.call = "configure_port" /\ result'.count # result.count => Configured(result'.value)
    /\ result'.call = "set_port" /\ result'.count # result.count => SetTo(result'.value)
    /\ result'.call = "i2c" /\ result'.value.result = "ok" =>
          LET ops   == result'.value.operations
              reads == SelectSeq([i \in DOMAIN ops |-> i], LAMBDA i : ops[i].op = "read")
          IN  /\ Len(result'.value.results) = Len(reads)
              /\ \A k \in DOMAIN reads :
                    LET dev == DeviceAfter(i2cDevice, ops)[reads[k] - 1]
                    IN  result'.value.results[k] = [j \in 1..ops[reads[k]].length |-> Cell(dev, j - 1)]
    /\ result'.call = "i2c" /\ result'.value.result # "ok" => i2cDevice' = i2cDevice

PinsFaithful == EdgesReported /\ LevelsRead /\ PwmFaithful' /\ ServerFaithful
=============================================================================
