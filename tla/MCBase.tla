------------------------------- MODULE MCBase -------------------------------
(***************************************************************************)
(* The parts of subsys/base and subsys/rtos, for TLC: what interrupts,     *)
(* threads and the main loop share, the codecs, and the gateway that uses  *)
(* them.  They are independent of each other: a behaviour exercises one of *)
(* them, chosen in the initial state.                                      *)
(***************************************************************************)
EXTENDS Base, Fifo, TLC

CONSTANTS ByteBits, WordBits, LookAhead, BufferSize, MaxFields,
          Requests, DamagedRequests, MessageSize, ResponseSize, RxLimit, MaxCalls,
          Lexemes, MaxLexemes, HeapCounts, Symbols,
          Halves, Singles, Days, Clocks, Series, Datasets,
          OctetBits, RegisterBits, EncoderSize, CountBits

VARIABLES which,
    binary, fields, got, stage,
    host, toward, back, damaged, device,
    expression, count, answer, sample, results

F == INSTANCE Fields
G == INSTANCE Gateway WITH ByteBits <- 8, WordBits <- 30, LookAhead <- 3, line <- toward
E == INSTANCE Eval
N == INSTANCE Numbers

ASSUME InputAssumption ==
    DriversAssumption /\ K!ClockAssumption /\ H!UsbAssumption /\ P!TouchAssumption

uart == <<driver, thread, length, start, tx_fifo, pending, dma, txdrdy, wire, accepted,
          rx_fifo, line, is_rx_stopped, event, seen, faults, raced, merged>>
tasks == <<port, timer, items, item_count, submit, walk, calling, owed, wanted, dropped, collided>>
rtos == <<priority, runnable, task_index, step, delayed, waiter, happened, disabled, asleep, failed>>
fieldVars == <<binary, fields, got, stage>>
gateway == <<host, toward, back, damaged, device>>
codecs == <<expression, count, answer, sample, results>>
clockVars == <<rtc, reading, setting, truth, sent, used>>
usbVars == <<cdc, peer, client, connection>>
touchVars == <<chip, touch, heard>>
inputs == <<clockVars, usbVars, touchVars>>
baseVars == <<which, fifoVars, uart, tasks, rtos, fieldVars, gateway, codecs, inputs>>

\* The components that are not exercised start in one of their initial states.
BaseInit ==
    /\ which \in {"fifo", "uart", "tasks", "rtos", "fields", "gateway", "eval", "numbers",
                  "clock", "usb", "touch"}
    /\ Init /\ (which # "fifo" => kind = "byte" /\ mode = "threads" /\ out = CHOOSE d \in Data : TRUE)
    /\ U!Init /\ (which # "uart" => driver = "zephyr")
    /\ T!Init /\ (which # "tasks" => port = "zephyr")
    /\ R!Init /\ (which # "rtos" => priority = [t \in R!TaskIds |-> IF t = 0 THEN 0 ELSE 1])
    /\ F!Init /\ G!Init /\ K!Init /\ P!Init
    /\ H!Init /\ (which # "usb" => client.reads = CHOOSE where \in UsbReaders : TRUE)
    /\ IF which = "eval" THEN E!Init ELSE expression = <<>> /\ count = 0 /\ answer = E!NoAnswer
    /\ IF which = "numbers" THEN N!Init ELSE sample = <<>> /\ results = <<>>

FifoStep == /\ which = "fifo" /\ Next
            /\ UNCHANGED <<which, uart, tasks, rtos, fieldVars, gateway, codecs, inputs>>
UartStep == /\ which = "uart" /\ U!Next
            /\ UNCHANGED <<which, fifoVars, tasks, rtos, fieldVars, gateway, codecs, inputs>>
TasksStep == /\ which = "tasks" /\ T!Next
             /\ UNCHANGED <<which, fifoVars, uart, rtos, fieldVars, gateway, codecs, inputs>>
RtosStep == /\ which = "rtos" /\ R!Next
            /\ UNCHANGED <<which, fifoVars, uart, tasks, fieldVars, gateway, codecs, inputs>>
FieldsStep == /\ which = "fields" /\ F!Next
              /\ UNCHANGED <<which, fifoVars, uart, tasks, rtos, gateway, codecs, inputs>>

GatewayStep == /\ which = "gateway" /\ G!Next
               /\ UNCHANGED <<which, fifoVars, uart, tasks, rtos, fieldVars, codecs, inputs>>
EvalStep == /\ which = "eval" /\ E!Next
            /\ UNCHANGED <<which, fifoVars, uart, tasks, rtos, fieldVars, gateway, sample, results, inputs>>
NumbersStep == /\ which = "numbers" /\ N!Next
               /\ UNCHANGED <<which, fifoVars, uart, tasks, rtos, fieldVars, gateway,
                              expression, count, answer, inputs>>
ClockStep == /\ which = "clock" /\ K!Next
             /\ UNCHANGED <<which, fifoVars, uart, tasks, rtos, fieldVars, gateway, codecs,
                            usbVars, touchVars>>
UsbStep == /\ which = "usb" /\ H!Next
           /\ UNCHANGED <<which, fifoVars, uart, tasks, rtos, fieldVars, gateway, codecs,
                          clockVars, touchVars>>
TouchStep == /\ which = "touch" /\ P!Next
             /\ UNCHANGED <<which, fifoVars, uart, tasks, rtos, fieldVars, gateway, codecs,
                            clockVars, usbVars>>

BaseNext == \/ FifoStep \/ UartStep \/ TasksStep \/ RtosStep \/ FieldsStep
            \/ GatewayStep \/ EvalStep \/ NumbersStep
            \/ ClockStep \/ UsbStep \/ TouchStep

\* The serial drivers' thread and interrupts are not held up for ever.
BaseSpec ==
    /\ BaseInit /\ [][BaseNext]_baseVars
    /\ WF_baseVars(which = "uart" /\ U!Thread /\ UNCHANGED <<which, fifoVars, tasks, rtos, fieldVars, gateway, codecs, inputs>>)
    /\ WF_baseVars(which = "uart" /\ U!Interrupts /\ UNCHANGED <<which, fifoVars, tasks, rtos, fieldVars, gateway, codecs, inputs>>)

\* Fields: what is put into a buffer is got from it again, also through a frame
\* (fd_binary.c, fd_cobs.c).
FieldsReadBack == F!FieldsReadBack

\* Eval: the parser and evaluator agree with the meaning of an expression
\* (fd_eval_calculate, fd_eval_check).  Numbers: every conversion agrees with its
\* inverse and with its other implementation (fd_ieee754.c, fd_calendar.c, fd_delta.c,
\* delta.py).
CodecsAgree == CASE which = "eval" -> E!EvalAgrees
                 [] which = "numbers" -> N!NumbersAgree
                 [] OTHER -> TRUE

\* Gateway: the device executes what the host sent and nothing else, and an answer is
\* what the request means (fd_gateway.c 75, fd_envelope.c 8).
GatewayServes == G!GatewayServes

-----------------------------------------------------------------------------
(* The requests of the gateway, to the targets as gpio.py numbers them. *)

Board == 0
Remote == 2
Nobody == 7

Pin(op, pin, value) == [op |-> op, pin |-> pin, value |-> value]
Gpio(target, ts) == [to |-> "gpio", target |-> target, transactions |-> ts]
Bus(to, id, ts) == [to |-> to, target |-> Board, device |-> id, transactions |-> ts]
Tx(data) == [direction |-> "tx", data |-> data]
Rx(n) == [direction |-> "rx", count |-> n]
Spi(data, n) == [data |-> data, count |-> n]
Times(n, t) == [i \in 1..n |-> t]
System(op) == [to |-> "system", target |-> Board, op |-> op]

SetAndGet == Gpio(Board, <<Pin("configure", <<0, 1>>, 98), Pin("set", <<0, 1>>, 1),
                           Pin("get", <<0, 1>>, 0)>>)
MCLineFormats ==
    [baud_rate : {300, 1200, 2399, 2400, 14399, 14400, 28800, 30000, 57599, 115200, 921600, 999999, 1000000, 2000000},
     parity : {"none", "even", "odd"}, stop_bits : {1, 2}]

MCDamagedRequests == {SetAndGet}
MCRequests ==
    {SetAndGet,
     Gpio(Board, <<Pin("get", <<0, 1>>, 0), Pin("get", <<1, 0>>, 0)>>),
     Gpio(Board, <<Pin("configure", <<1, 0>>, 50), Pin("configure", <<0, 1>>, 9)>>),
     Gpio(Board, Times(4, Pin("get", <<1, 0>>, 0))),      \* the response is too long
     Gpio(Board, Times(6, Pin("set", <<1, 0>>, 1))),      \* the request is too long
     Gpio(Remote, <<Pin("set", <<1, 0>>, 0)>>),
     Gpio(Nobody, <<Pin("set", <<1, 0>>, 0)>>),
     Bus("i2cm", 1, <<Tx(<<0, 7>>), Rx(3)>>),
     Bus("i2cm", 2, <<Tx(<<9>>)>>),                       \* not acknowledged
     Bus("i2cm", 1, <<Rx(23)>>),                          \* the response is too long
     Bus("spim", 1, <<Spi(<<5>>, 0), Spi(<<>>, 2)>>),
     Bus("spim", 1, <<Spi(<<5>>, 15)>>),                  \* there is no room for an envelope
     [to |-> "adc", target |-> Board, channel |-> 9, limit |-> <<102, 102, 102, 64>>],
     System("identity"), System("assert")}

(* The samples of the other codecs. *)

MCLexemes == {<<"1">>, <<"2", ".", "5">>, <<"x">>, <<"-">>, <<"*">>, <<"<">>, <<"=">>, <<"(">>,
              <<")">>, <<"!">>, <<"&", "&">>, <<"$">>, <<" ">>, <<"1", "-", "x", "*">>}
MCSymbols == <<"x">> :> [type |-> "integer", v |-> 3]

MCClockConfigurations == {[time_zone_offset |-> 1, display_format |-> 1]}
Finger(g, x, y) == [gesture |-> g, finger |-> 1, x |-> x, y |-> y]
MCFingers == {Finger(1, 291, 17), Finger(5, 35, 513), [Finger(0, 0, 0) EXCEPT !.finger = 0]}

MCHalves == {s * 32768 + e * 1024 + m :
                s \in {0, 1}, e \in 0..31, m \in {0, 1, 2, 3, 511, 512, 1022, 1023}}
MCSingles == [s : {0, 1}, e : {0, 1, 254, 255} \cup 98..145,
              m : {0, 1, 4095, 4096, 4097, 8191, 8192, 2 ^ 22, 2 ^ 23 - 4097, 2 ^ 23 - 4096, 2 ^ 23 - 1}]
MCDays == {365 * y + d + y \div 4 : y \in 0..140, d \in {0, 1, 30, 57, 58, 59, 60, 363, 364}}
MCSeries == UNION {[1..n -> {-20, -1, 0, 1, 9, 100}] : n \in 1..3}
Sensor(id, o, channels) == [sensor |-> id, ordinal |-> o, channels |-> channels]
MCDatasets ==
    {<<>>}
        \cup {<<Sensor(1, o, <<a, b>>)>> : o \in {0, 7}, a \in [1..2 -> {0, -3, 7}],
                                           b \in [1..2 -> {0, 2, -8}]}
        \cup {<<Sensor(1, 5, <<a, <<1, 1, 2>>>>), Sensor(2, 6, <<<<1>>, <<a[1]>>>>)>> :
                  a \in [1..3 -> {0, -3, 7}]}
=============================================================================
