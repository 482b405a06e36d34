# Verification of firefly-zephyr

TLA+ models of firefly-zephyr, a C library of subsystems for Zephyr and bare
metal devices (`src/subsys`), with its Python host client (`src/api/python`,
`src/tools`) and its boot applications (`src/applications/boot`). TLC checks the
models on small instances; TLAPS proves the main invariants of the key/value
store, of both boot loaders, of the ring buffers, of the RPC stream, the RPC calls
and the channels over Thread and Bluetooth, of buttons and animations, and of the
serial drivers, timers, clock and RTOS, for every instance.

`fd_assert` counts and logs a failed assertion and goes on
(`subsys/base/src/fd_assert.c`), so no action of a model is guarded by one: what
follows a failed assertion is modelled where it can be reached. Three places where it
cannot, within the bounds, are cut short: a bit reader past its end gives 0
(`Numbers`), a card is never busy for as long as `fd_sdcard_write_block` polls
(`Card`), and a full ring makes the receive interrupt of the RPC channel wait where the
code loops with reads of no octets (`RpcCall`).

## Inventory

| component | state | operations | interacts with | what is hard | what makes it correct | module |
|---|---|---|---|---|---|---|
| key/value store (`storage/src/fd_key_value_store.c`) | flash pages of data and metadata, cached write position, `is_full` | set, remove, get, is_set_to, erase, garbage collection, scan at start | flash driver; listeners of the user interface | power loss between any two flash writes; a page that holds several versions of a key | pages keep their layout, the cache agrees with flash, a page is always free, no key is lost or comes back, a get reads the last set | `KeyValueStore` |
| RPC stream (`rpc/src/fd_rpc_stream.c`, `rpc.py` class Stream) and the UDP channel over it | connection state, sequence numbers, semaphore or lock, last data sent | connect, disconnect, data, ack, nack, keep alive, retry, timeout | UDP; the channel above it | loss, duplication, reordering, datagrams of an earlier connection, three threads | each direction delivers once and in order; retries until acknowledged | `RpcStream` |
| RPC channel over Thread, TCP (`rpc/src/fd_rpc_channel_thread.c`, `rpc.py` class SocketChannel) | channel state, role, endpoint, two rings, work items | role changes, set_dataset, stop, TCP callbacks, works, timer | OpenThread; the RPC layer; a work queue | works that coalesce, rings reset while octets are claimed, late role changes | the reported state follows the network; octets stay in order and in their connection | `ThreadTcp` |
| RPC calls, USB channel, frame buffer server (`fd_rpc.c`, `fd_rpc_channel_usb.c`, `fd_rpc_server_ux.c`, `rpc.py`) | contexts of both sides, buffers, rings, DTR | initialize, request, response, finalize, closed, free space; rx and tx interrupts | USB CDC, one work queue, host programs that come and go | leaks on error paths, late answers, bytes of an earlier program, back pressure | answers reach their call, contexts are freed once, framing recovers, streams end | `RpcCall` |
| boot loader (`boot/src/fd_boot.c`, `fd_boot_nrf53.c`, `applications/boot/usb`) | executable flash, update file, position of the install | check executable, check update, choose, install, execute, format | flash, FAT file system, USB disk | power loss inside an install, failing storage, old and damaged updates | never runs a mixture of releases, never loses a good executable for nothing, completes an interrupted install | `BootUpdate` |
| split boot loader (`boot/src/fd_boot_split_*.c`, `applications/boot/split`, `tools/update/controller.py`) | pending operation, frames, handlers in progress | identity, update, execute; reads of the storage; timeouts, restarts | boot loader, over a serial line | unnumbered messages, late responses, nested dispatch | only a whole install is taken for one, and stays whole | `BootSplit` |
| rings (`fd_fifo.c`, `fd_object_fifo.c`) | buffer, head, tail | put, get, view, flush | interrupts and threads | no lock | a bounded queue | `Fifo`, `BoundedQueue` |
| serial drivers (`fd_uart_zephyr.c`, `fd_uart_nrf5.c`, `fd_event.c`) | fifos, DMA, pending flags, events | tx, flush, interrupts, reset | rings, main loop | interrupt between any two steps | every byte once and in order, nobody waits for ever | `Uart` |
| work and timers (`fd_work.c`, `fd_work_zephyr.c`, `fd_timer.c`) | items, delays | submit, cancel, start, stop, process | main loop, threads | callbacks that change what is walked over | what is due is called, and nothing else | `Tasks` |
| RTOS (`rtos/src/fd_rtos.c`) | tasks, priorities, current task, condition | delay, yield, wait, signal, sleep | interrupts | a test and the sleep after it | no task is forgotten | `Rtos` |
| framing, gateway (`fd_binary.c`, `fd_cobs.c`, `fd_envelope.c`, `fd_crc16.c`, `fd_dispatch.c`, `fd_gateway.c`, `fd_remote.c`, `fd_*_dispatch.c`, `tools/python`) | buffers, frames, pending request | put and get fields, encode, decode, dispatch, forward | serial line, drivers, host | damaged bytes, limits of buffers, late answers | what is put is got, calls are executed and answered | `Framing`, `Fields`, `Gateway` |
| conversions (`fd_eval.c`, `fd_ieee754.c`, `fd_calendar.c`, `fd_delta.c`, `fd_bit.c`, `delta.py`) | heap of nodes | parse, evaluate, convert | | limits, rounding, two implementations | they mean what they say and invert each other | `Eval`, `Numbers` |
| user interface (`ux/src`, `applications/watch`) | buttons, debounce timer, screens, idle time | pin interrupt, timeout, tick, touch, requests | timers, GPIO, store | interrupt inside the debouncing | the last event of a button is its state | `Ux` |
| canvas and drawings (`graphics/src/fd_canvas.c`, `fd_drawing_*.c`) | damage, render in progress | change, update, render | work queue, display | changes while rendering | no damage is lost | `Canvas` |
| animation (`base/src/fd_animation.c`) | players, timer | start, stop, cancel, tick, finalize | work queue, threads | starts while the timer stops | players advance | `Animation` |
| displays (`graphics/src`) | frame buffer, windows of the panel | draw area, image, bitmap, string | SPI | clipping, packing | pixels as asked, no others | `Display` |
| serial wire debug (`swd/src`) | port selections, the target | connect, read, write, halt, step, run | the wires | noise, waits, sticky errors | a reported success is true of the target | `Swd` |
| buses (`fd_i2cm*.c`, `fd_spim*.c`) | levels, peripherals | transfers | devices | no acknowledge, timeouts, chunks | the devices get what was sent | `Buses`, `Transfers` |
| pins (`fd_gpio_zephyr.c`, `fd_pwm_nrf5.c`, `fd_rpc_server_hardware.c`) | modes, edges, callbacks, counters | configure, set, get, callbacks, modulation, host's requests | interrupts, host | shared interrupt, prescaler limits | edges, levels and periods as asked | `Pins` |
| cards (`storage/src/fd_sdcard*.c`, `fd_storage_fatfs.c`) | card type, mounted | initialize, read, write, erase, mount, format | SPI | late and failing cards | blocks hold what was written | `Card` |
| Bluetooth (`ble/src`) | connection, channel, ring | connect, advertise, power, receive, send | stack thread, work queue | channel reset during delivery | octets in order, references balanced | `Ble` |
| electronic paper (`graphics/src/fd_txdc042a1*.c`) | windows and memory of the panel, the image being written | initialize, start, data, end of an image | SPI, the caller that draws | images given up or ended early, a panel mounted upside down, a busy panel | what is seen is what was written up to the last end | `Epaper` |
| touch controller (`graphics/src/fd_cst816s.c`) | the chip's registers, one work | interrupt, work, initialize | chip on I2C, work queue, application | registers that change while they are read, interrupts that merge | the application knows in the end where the finger is | `Touch` |
| clock and its server (`base/src/fd_rtc_nrf5.c`, `rpc/src/fd_rpc_server_rtc.c`) | counter, overflow event, `utc_base` | set, get, overflow interrupt, host's requests | threads, host | an overflow while its interrupt is masked | the time is true | `Clock` |
| USB (`usb/src`) | ring, DTR, one work, the connection | interrupt, timer, work, send, receive, status | host, application's threads | full ring, DTR that changes again before the work ran | octets in order, the last state of the line reported | `Usb` |
| Zephyr port of the boot loader, crypto, code generators | | | | library calls | not modelled | |

`PROJECT.json` lists every part under `components`, and under `hazards` what a
test would hardly reach, each with the properties that cover it or the reason
why none does. Where the code itself goes wrong the property excepts the case by name,
and the case is a hazard without a property: the sections below name the exceptions.

## How the modules fit together

`KeyValueStore`, `RpcStream`, `BootUpdate` and `BootSplit` are checked on their
own. Components that are small, or whose runs are short, share a run: an MC
module brings several together and a behaviour exercises one of them, chosen in the
initial state (`which`). This is how `MCRpcCall` extends `RpcCall` and `ThreadTcp`,
`MCBase` holds the base library (for its drivers and queues it extends `Base`, which
states the properties that theorems are about), `MCUx` the user interface, and
`MCDevices` the drivers (it extends `Display` and `Ble`). Where components interact,
the interaction is in the modules: `RpcCall` is the call layer with its channel, server and host in one; `BootUpdate` the
update engine with its application; `BootSplit` the two sides around the engine,
of which it takes what `BootUpdate` establishes (an install is whole, fails, or is
repeated); `Gateway` uses `Framing` for the bytes on the line;
`Uart` uses the queues that `Fifo` is shown to implement.

Calls that block until they are done and that nothing else interleaves with
(`Swd`, `Buses`, `Card`, `Display`) are one step each; the disturbances inside
them are enumerated with the call. Everywhere else a step ends where another
thread, an interrupt, a message or a loss of power can come between.

## KeyValueStore

The store is a circle of pages. Data grows up from the start of a page, fixed
size metadata records grow down from its end; a pair exists once its record is
written. `flash[p].log` is the sequence of records of page `p` (with offsets and
sizes in bytes), `flash[p].torn` the bytes programmed after the last recorded
data. `current` and `is_full` are the fields of the C structure, `pc`, `request`,
`index` and `collection_count` the locals of the one call in progress.

An action is the code between two flash writes, so `Reboot` can fall between
any two: `set` and `remove` enter `add` (`Begin`); `AllocateFits` writes the
data and `Commit` its record; `AllocateAdvance` moves to the next page and
starts a collection when that was the last erased one; `CollectSkip`,
`CollectCopy`, `CollectCommit` and `CollectErase` are the loop of
`garbage_collect`; `erase`, `ErasePage` and `EraseEnd` erase the store;
`Reboot` runs `initialize` on what is in flash. Bytes written where the flash
was not erased read as `Garbage`.

| run | instance | result |
|---|---|---|
| `kv_layout` | 2 pages of 64 bytes, 2 keys, 2 values of different size, power loss anywhere | `Structure` (`Layout`, `CacheAgrees`, `OnePageErased`); every call returns (`CallsReturn`) |
| `kv_values` | 3 pages of 56 bytes, power loss between records, keys symmetric | `PresencePreserved`, `RestartKeepsValues`, `SetIsRead` |
| `kv_stale` | 1 key, 2 pages | violated: collecting a page with two records of a key brings back the older value |

Pages hold two pairs with a value or three without, so every case of the page
arithmetic occurs: exact fit, room for the data and not for the record, a
collection that copies everything, a full store. Two pages are the least the
code allows and three the least with a page that is neither current nor next.

Three more statements that do not hold are in the module and can be tried with a
configuration like that of `kv_stale`: `RemoveIsRead` (1 key, 3 pages of 56 bytes,
`BetweenRecords`; a removed key reads the value on an older page),
`RestartNotFull` (1 key, 2 pages of 64, `BetweenRecords`; power lost between the
copy and the erase of a collection leaves the store full) and `EmptyPagesAreErased`
(the same with `Anywhere`, as INVARIANT; a page without records that is not erased).

Fairness: `WF(Step)`, the thread that called the store runs until the call
returns. Nothing is assumed of callers or of the power.

## RpcStream

Stop and wait in each direction, numbered from zero in each connection. The
device's actors are the OpenThread thread (handlers of datagrams), the work
queue (`worker`, one work at a time, at the points where another thread can
come between) and `packet_write`; the host's are `run_loop` and the thread that
calls `write` and `connect`. `acking` is the point inside `receive_ack` between
`k_sem_give` and the clearing of `last_send_data`. The network is a set of
datagrams; `Arrive` delivers in any order and keeps a copy of the kinds in
`Duplicated`, `Lose` drops.

Time is abstract: any check may find a retry or the receive timeout due. Keep
alive datagrams only postpone timeouts and are left out. `connection`, `sent`
and `given` are history for the properties.

| run | instance | result |
|---|---|---|
| `stream_order` | 2 device writes, 1 host write, 1 connect; data and acks duplicated | `DeliversInOrder` (both directions: once, in order, acknowledged only if given), `SendsWhenAcked` |
| `stream_retry` | 1 device write, 2 connects, fair | `RetryDelivers` |

`RetryDelivers` is about the retry record: it counts one that `receive_ack` erased
after it gave the semaphore (`acking`, line 274) as acknowledged, and `SendsWhenAcked`
excepts that window. Data that is sent in the window and lost is not sent again.

Two writes are enough for a duplicate of the first chunk to meet the second;
two connects for a datagram to cross a reconnect. The order is claimed until the
host asks for a second connection: with `MaxConnects = 2`, `DeviceWrites = 1`,
`HostWrites = 0`, `Duplicated = {}` the invariant `ReconnectInOrder` is
violated (late data of the first connection is given to the second), and so is
`KeepAliveRuns` (a connected stream whose timer is stopped). The host writes while
it is connected (`Writers`), as the generated client does; `packet_write` is
called while the channel is open or the stream connected. Sequence numbers do not
wrap within these bounds. The runs may stop when all writes are done, so deadlock
is not checked.

Fairness (`FairSpec`): weak for the work queue and for the rest of
`receive_ack`, since those threads are not blocked; strong for the check that
finds an overdue retry, since the 250 ms timer keeps checking and time passes;
strong for the delivery of a datagram that is sent again and again.

## BootUpdate

`flash` is the executable's storage as words, the unit the nRF53 programs at
once; a word is `Erased` or belongs to a release. The words of the metadata are
named (`MagicAt` ... `HashAt`), because the checks read them one after another
and the install writes them one after another. `update` is the update file:
its kind (no file system, no file, shorter than its metadata, damaged,
unencrypted, encrypted for another key, good) and the release in it.

The checks only read, so `TryUpdate` is `fd_boot_update` up to the install or
its return. `get_executable_metadata` and `get_update_metadata` give what the
functions return: "error" for false, else whether `is_valid` is set. `Erase` and
`Write` are the loop of `fd_boot_install`; `InstallDone` is the check after it.
`OpenFails`, `MountFails`, `ButtonHeld`, `TryExecute`, `Format` and `FormatFails`
are `main()` of `applications/boot/usb`. A start that `fd_boot_update` allowed is
`pc = "run"`; one by `fd_boot_try_execute`, which does not look at `is_valid`, is
`pc = "try_run"`. `PowerFails`, `EraseTorn` (any of the words of the page are
erased), `FormatTorn` and the storage failures are bounded by `MaxFaults`.

| run | instance | result |
|---|---|---|
| `boot_install` | 3 releases of 7, 8 and 9 words, 2 pages of 6, two faults of any kind, fair | `RunsNewestWhole`, `NothingGarbled`, `KeepsWholeExecutable`, `InstallCompletes` |
| `boot_restart` | one power loss | violated: between the header and the length the boot loader is stuck |

Releases of different lengths leave the tail of a longer image behind a shorter
one; their version numbers are ordered differently by major, minor and patch.
Two faults let a repair be interrupted again. A release is taken to fit the
executable storage (`ConstantsAssumption`), which the code does not check.
An unencrypted update is never valid: the code skips 84 bytes of metadata where
the format has 128.

Fairness: the boot loader runs until it hands over or waits for the user.

## BootSplit

The peripheral has the update engine and no storage. It serves the controller's
requests (`get_identity`, `update`, `execute`) and, within an update, asks the
controller for one block after the other, waiting in a nested dispatch that serves
whatever arrives: `stack` is the handlers in progress, `operation` the pointer that
names the call which waits, or a call that has returned. Messages carry no number.
A frame is lost or damaged, either side times out, the controller restarts, up to
`MaxFaults` and `MaxRestarts`. The four clients are the split application's `main()`,
an application that calls update or execute alone, and `controller.py`.

| run | instance | result |
|---|---|---|
| `split` | an update of 3 blocks, 3 faults, 2 restarts, all four clients | `StaysWhole`, `ValidMeansInstalled`, `NestsOnlyAfterFault`; without faults `CleanUpdateRuns` |

Three blocks let a late response meet the block after it and the one after that;
three faults nest a handler inside a nested handler. Fairness: both sides process
what arrives, and the controller's timeouts expire.

## RpcCall and ThreadTcp

`RpcCall` follows a packet as two units, its head and its tail with the delimiter;
the checksum accepts a head with its own tail and nothing else. Interrupts fill and
drain the rings; `works` are what is submitted to the one work queue. A program of
the host is killed and started again at any time (`session`): what it had not sent
or read is lost and its invocation numbers start over. `shortages` bounds how often
a buffer is refused.

`ThreadTcp` has three threads: OpenThread's callbacks, the work queue with a step
for each part of `connected_work`, `disconnected_work`, `rx_work` and `tx_work` that a
callback may come between (`worker.at`), and the application. `queue` holds the
submitted works; a work that is submitted twice stays where it is. `endpoint.held`
are the lengths the stack still refers to by reference. OpenThread is external: it
is taken to report every connection that ends, also an aborted one, and a change of
role some time after it happened.

| run | instance | result |
|---|---|---|
| `rpc`, USB | 2 calls of unary and streamed methods, 2 programs one after the other, 2 buffers, 1 shortage, rings of 1 and 2 units, fair | `AnswersOwnCall`, `LeaksOnlyOnRefusal`, `ReaderHasContext`, `Resynchronizes`, `FramesInOrder`, `StreamCompletes` |
| `rpc`, Thread | 2 connections with 2 role changes and 2 calls; 2 connections with a packet and 2 writes; 1 connection with 2 packets | `ChannelFollowsNetwork`, `OctetsKept` |

`LeaksOnlyOnRefusal` says what the code does: a request that finds no buffer, or is
too large, keeps its context. `AnswersOwnCall` excepts answers to a call of an earlier
program with the same number. `ChannelFollowsNetwork` excepts four orders of events,
each with its line: with both works queued, a connection that begins while
`connected_work` is ahead (it then runs first and the channel ends closed) and one that
ends while `disconnected_work` is ahead (`connected_work` runs last and leaves an open
channel and a running timer without a host), `connected_work` run after the endpoint was
taken down, and `set_dataset` on an active node whose role change is reported after
Thread was enabled again. `OctetsKept` excepts three: octets that `rx_work` took from the
ring before a reset and put into the packet after it, octets that `tx` claimed before
a reset and sent after it, and octets that do not fit the receive ring and are dropped.
In these the code loses its state, octets, or mixes connections; dropping one of the
exceptions from the property shows it.

Fairness: the work queue, the interrupts, the DTR timer and the host's reader run.

## The base library (run `base`)

- `Fifo`: a step is one access to state that the other side also uses; the producer
  is an interrupt or a thread, the consumer gets, views and flushes. It implements
  `BoundedQueue` (`ImplementsQueue`, with `Contents` as the refinement mapping; during
  a flush the queue already counts as empty).
- `Uart`: both serial drivers with the interrupts between any steps of the sender.
  `SentInOrder`: until a reset or an abort, bytes leave once and in order.
  `SerialLineServed`: queued bytes are sent and received bytes are read in the end.
  Excepted are a call that found bytes queued while the transmitter finished before
  its put (`raced`), two bytes sent before the nRF5 interrupt ran once (`merged`), and
  an aborted transmission (a fault), where bytes wait for the next call. The rate and format that the nRF5 driver sets are
  those asked for (`LineIsAsAsked`), except that odd parity comes out even: line 297
  shifts the type of the parity to the position of its inclusion.
- `Usb`: the serial port over USB. The driver's callback and the application share the
  ring, which the application reads in the callback or in a thread. Part of
  `SentInOrder`: octets are read in order, none left out, and when no work is submitted
  or running, host and application have been told the last DTR. With a full ring that
  only a thread reads, the callback loops for ever without taking anything
  (`fd_usb_cdc.c:33`): the model has that loop, and nothing is claimed of its end.
- `Touch`: the touch controller changes its registers at any time, also while the work
  reads them. Part of `SentInOrder`: once interrupt and work are done the application
  has the last touch. Excepted (`failed`): a read that was not acknowledged, which is
  not repeated, and a move before the interrupt was enabled. The three reads of its
  identity, which are asserted and used for nothing, are one step.
- `Clock`: the counter, its overflow interrupt, and two readers that mask it while they
  read base and counter, one of them for the host. Part of `TasksRunWhenDue`: no overflow
  is lost or counted twice, and a time that is read is the true one. Excepted are a
  counter that overflowed while the interrupt was masked (`wrapped`, 512 seconds early),
  a time that is set meanwhile (`disturbed`) and an overflow that was pending when the
  time was set (`stray`: 512 seconds late until it is set again).
- `Tasks`: timers and both work queues, whose callbacks start, stop, submit and cancel
  while the walk over the entries is under way. In the zephyr port any thread submits
  and cancels without a lock, so a call is made in steps: the search for its item, the
  read of the count, its increment, and the stores of function and context.
  `TasksRunWhenDue`: a timer fires only when due, and a task that was submitted is in the
  queue until it is called or cancelled (`SubmittedIsQueued`). Excepted are a task
  submitted at the limit, of which the caller is told that it is queued (`dropped`), and
  one whose item another thread took for its own task (`collided`).
- `Rtos`: the scheduler and the sleep task. `NoTaskForgotten`, unless two tasks wait
  for one condition, which an assertion of the code counts.
- `Framing`, `Fields`: an octet has `ByteBits` bits and the widest integer
  `WordBits`, so TLC goes through all values. `FieldsReadBack`: what was put is got, also
  through a frame, and each of the errors is set exactly where a field was not kept.
  Two fields are refused that need not be: `fd_binary_put_uint48` asks for eight octets
  where it puts six (`RefusedThoughFits`), and `fd_binary_get_varuint` tests its top bits
  also of the last octet (`RefusedByGet`).
- `Gateway`: the host's calls to pins, buses and converter through one or two devices,
  with a lost or altered byte, requests and answers that are too long, and timeouts.
  `GatewayServes`: what is executed was sent, and answers belong to their calls until one
  times out: the answer to that one may then be taken for the next one's, since the host
  does not compare envelopes.
- `Eval`, `Numbers`: expressions of up to 3 lexemes with heaps of 0, 1 and 6 nodes
  against their meaning; floats, dates and packed samples there and back, the samples
  through `delta.py` as well. `CodecsAgree`.

Bounds: a ring of 4 holds 0 to 3 items and wraps; 4 bytes to send pass a fifo of 3 and
transfers of 2; three tasks are submitted to a queue of two items, by the main loop, or by two
threads of two calls each, so that two first submissions meet at an empty item, at the
last one, and at the limit; four tasks of the RTOS are the sleep task and three of two priorities; one fault.
The clock's counter wraps after 4 ticks and goes 5, so that it wraps once under each
reader; five events on USB fill and empty a ring of 2 and turn DTR there and back twice;
the finger moves four times and two reads fail.
Fairness is that of `Uart` (its thread and its interrupts run).

## The user interface (run `ux`)

- `Ux`: two buttons, the pin interrupt between the moment `fd_ux_button_timeout` reads
  the pins and the moment it uses them, screens, idle and wake up, touches and the
  host's requests. `ButtonsSettle`: once the pins are quiet, the last event of each
  button says whether it is down. Excepted are a change noted while the clock was still
  zero, a release and press within one debounce time (both `muddled`), and a button that is
  held across a restart (`held`): the code starts with no button pressed and does not read
  the pins until an edge. Screens, idle time, touches and requests are modelled and
  no property but the type invariant is about them.
- `Canvas`: two drawings of any class that move, hide and change screens while the
  work queue renders. `NoDamageLost`; excepted (`smeared`) are icons, which are blended
  over their old bitmap, and a string that changes while it is drawn.
- `Animation`: two players. One thread and the callbacks of the work itself start, stop
  and cancel sequences, and nothing is locked: a start is made in the steps in which it
  reads `sequence`, sets `stop` and `next` or `sequence` and the other fields, starts the
  first step, and looks at and starts the timer; the end of a sequence in the work and
  the stop of the timer likewise. `PlayersAdvance`: a player with a sequence is ticked, has
  exactly its current step open, plays a sequence that waits, and follows no null
  pointer. Five interleavings break it and are excepted by name: a start that
  looks at the timer while the work is stopping it (`raced`, line 81), a tick between a
  start's assignment of `sequence` and its first step (`overtaken`, 110), a sequence put over
  one that another thread just started (`replaced`, 53 and 106), a `next` that is set after the
  sequence it waits for has ended (`missed`, 106), and a cancel between the two reads of
  `next` (`cut`, 53). Each is reached in the run: without its exception the property is
  violated. Four calls are enough for all of them and for a chain of two sequences.

A display row of two cells suffices for areas that overlap, touch and are apart.

## The drivers (run `devices`)

- `Display`: drawing calls on eight back ends; panels take octets as commands,
  arguments and data and show what they stored. `DisplayFaithful`. Where the code does
  not draw what it says is listed in `Misdrawn`: the background of the 16 bit back end
  has its octets swapped, that of the 4 bit back end ends after `sizeof(size)` octets,
  and the ILI9341 gets the full height of a clipped bitmap.
- `Epaper`: the calls of an image, written whole or in parts, given up or ended early,
  with and without clearing at the start, on any peripheral of both series of processors.
  Part of `DisplayFaithful`: the panel shows, upside down as it is mounted, what was
  written up to the last end of an image.
- `Swd`: four calls with one disturbance (a lost packet, a wait, a wrong parity) in
  one of the packets that `MCDevices` selects (`MCUpsets`).
  `SwdFaithful`: a success that is reported is true of the target's memory, and
  connecting again recovers.
- `Buses`: three of the calls clients make (`Transfers`) on I2C, through pins and through the
  peripheral, and SPI;
  the device on I2C watches the two wires. `BusesFaithful`: a reported success is true of
  the device, and both wires are high after a call, on either bus. Excepted (`held`) is a
  call through the peripheral that a missing acknowledge ends: it leaves without a stop
  and without clearing the bus, which the next call may find stuck.
- `Pins`: three calls on two pins, a PWM module of two channels and the hardware server,
  starting with any mode of the first pin; a host's mask names the port's pins or one
  that the port does not have. Part of `BusesFaithful`: edges are reported,
  `fd_gpio_get` and the host read the level of the line (low of a pin that only drives), a
  request on a port does what it names, up to the pin that fails, and nothing else. Excepted: callback and listener of
  one pin with different edges (the later decides for both), a PWM period of exactly
  2^15 counts of a prescaler (`ceil` picks the one whose counter is one too small), and
  a channel started at another frequency of the module (its count is not scaled). The
  answer to an SPI request never has its size set, so it arrives empty.
- `Card`: five calls on cards that answer late, stay busy, reject a block; a FAT volume.
  `StorageFaithful`. That a failed read shows is not demanded: `fd_sdcard_read_block` has no
  result, and asserts nothing when the data does not come.
- `Ble`: two connections, and a channel with a ring of three octets, whose stack thread
  runs beside the work queue. `BleFaithful`. Excepted (`merged`): a notification submitted
  while the same work still waits, which runs ahead of the other one.

Octets are narrower than 8 bits where all values are enumerated (`OctetBits`,
`BitsOfOctet`); transfer sizes keep their relation to the chunk and window sizes, just
below, at and above.

Taken of the outside: bit banging works while the SPI peripheral is enabled; the TWIM
may time out or repeat the start after a missing acknowledge; a panel's memory starts
zero, its tuning registers have no effect on pixels, and the SSD1331 takes arguments
in data mode; a pin that is no input reads low.

## Proofs

`KeyValueStoreProofs` proves, for every number of pages, page size, set of keys
and sizes of values, and for power losses at every point except between data
and its record (`NoTornWrites`; `EmptyPagesAreErased` shows what happens there):

- `TypeCorrect`: `TypeOK`;
- `StructureSafe`: `Structure`, which is `Layout`, `CacheAgrees` and `OnePageErased`;
- `PresenceSafe`: `PresencePreserved`;
- `SetSafe`: `SetIsRead`;
- `RestartSafe`: `RestartKeepsValues`, if every pair also fits on an erased page
  (`PairsFit`): for a larger one the loop of `fd_key_value_store.c:377` collects for
  ever, and empties pages between those that a restart reads in order.

`Layout` is not inductive: that the copies of a collection fit on the fresh page
depends on how much of the source page has been visited. `IInv` adds, while a
collection runs (`CollectInv`), that the copies made so far take no more room
than the records visited so far, which `StartOfNext` and `AppendGood` turn into
room for the next copy. `PresenceSafe` also needs that each key visited and still
live is on the current page (`CopiedInv`), so that the erase loses nothing. There
is one lemma per action, and facts on logs (`AppendFacts`, `EndOfDataNat`,
`CountIsLength`) that several of them cite.

For values, `SetSafe` follows from what a page's log holds of a key: the record that
was just written is the last of its key on the current page, which `lookup` reads
first (`CommitIsRead`). A restart takes another page for the current one than the
store had before, after an interrupted erase or when the store is full, and pages
are read backwards from the current one, so `RestartSafe` has to know which pages
are empty: `Holes` says that an empty page between the current page and an older
occupied one is there only while pages are erased from 0 upwards, `NextFree` that a
store that is not full has an empty page next. Then the pages with records come in
the same order from either page.

`BootUpdateProofs` proves, for every set of releases, every page and storage
size and any number of power losses, torn erases and storage failures, assuming
only that a release fits the storage (`ConstantsAssumption`):

- `TypeCorrect`: `TypeOK`, so an install stays within the executable's storage;
- `FlashSound`: `NothingGarbled`;
- `RunSound`: `RunsNewestWhole`;
- `NothingLost`: `KeepsWholeExecutable`.

None of them is inductive alone. `InstallInv` says what an install has done so
far: the words before `offset` are the update's, those from there to
`next_erase`, which is a multiple of the page size, are erased, and while both
are 0 a whole executable in the flash is older than the update. So a write always
finds an erased word, an install that ends has written the whole release, and the
word at 0 tells whose executable an erase destroys. The lemmas beneath it are
that the checks of the code accept exactly the flash that holds one whole release
(`ValidIsComplete`), that `fd_boot_get_action` compares versions in their order
(`Order`), and the page arithmetic (`PageFits`).

`BootSplitProofs` proves, for every number of blocks, any scripts of the
controllers that make at least one call, and any number of timeouts, damaged frames
and restarts:

- `WholeStays`: `StaysWhole`;
- `ValidTrue`: `ValidMeansInstalled`;
- `NestsNever`: `NestsOnlyAfterFault`.

Messages are not numbered, so a handler that waits may be given what another one
asked for, and may write it. The invariant is about the order of the frames: `Line` is
what will reach the peripheral, frames already sent first, then what the controller
will make of the frames on their way to it. `LastBlockLast` says that a frame behind
the last block of an update is no block, `OwnLast` that the last frame is the waiting
handler's own block or none. So a handler that finds itself resumed after a nested one
has installed (`ResumesBehind`, `OutdatedStops`) meets a frame that is not its block
first, and fails before it reaches its last block. `SawWhole` is why a handler that
saw the new executable does not write. Each step of the peripheral takes the first
frame and appends one (`RespondKeeps`, `AskKeeps`); each step of the controller and
each fault only makes frames lose their block (`Fades`, `FadesKeeps`). `InStep` lists
what is on the line when there was no fault.

`RpcStreamProofs` proves, for any sizes of the ring and any numbers of writes, and
until the host asks for a second connection (as the properties say), if the network
duplicates neither the connect nor its response (`OneResponse`):

- `StreamDelivers`: `DeliversInOrder`;
- `StreamSendsWhenAcked`: `SendsWhenAcked`.

`OneResponse` is needed: a duplicated connect resets the numbers in the middle of a
connection (`fd_rpc_stream.c:290`), the hazard that `PROJECT.json` lists without a
property. `StreamInv` relates the two ends of a direction: the sequence number of each
datagram on its way, and of each acknowledgement, is bounded by what was sent and what
was given, also between `k_sem_give` and the clearing of `last_send_data`.

`RpcCallProofs` proves, for any number of contexts, calls, programs and refused
buffers and every size of the rings:

- `ReaderSafe`: `ReaderHasContext`;
- `LeaksCounted`: `LeaksOnlyOnRefusal`;
- `AnswersMatch`: `AnswersOwnCall`;
- `FramingRecovers`: `Resynchronizes`;
- `StreamsSafe`: `FramesInOrder`.

`CallInv` follows the units of the frames through rings and wires: each head is
followed by its own tail, but for those of a program that was stopped
(`DeviceFramed`, `HostFramed`), so a damaged packet is always paid for by a cut;
`WorksOnce` says that a work is queued or running at most once, `ServerSound` which
contexts the frame buffer's server may refer to, `ClientSound` which call a response
is for. Where an induction over a queue is natural the proof takes the least place
that would break the claim (`LeastNatural`).

`StreamsSafe` needs an invariant of its own, `StreamInv`. Of the `n` responses that
were sent for a stream, its client was given the parts 1 to `g`, and `g + 1` to `n` are
on their way to it in this order; if the one reader of the frame buffer stands for this
stream, it stands at `n`. While the request is still on its way, or not made, `n` is 0
and the reader is another stream's (`StreamFollows`); there is at most one request on
its way (`AskedOnce`). That the reader's context is not one of an earlier program that
numbers its calls alike follows from the order of programs: packets are in the order of
their programs, and no context of the device is of a later program than a packet it
still has to read (`DeviceStreams`).

`ChannelProofs` proves of `ThreadTcp`, for every size of the rings, the buffer and the chunk
(`ThreadAssumption`: nothing is read or sent in pieces of no octets) and for every bound
on connections, changes of role, calls, packets and writes:

- `ChannelSafe`: `ChannelFollowsNetwork`;
- `OctetsSafe`: `OctetsKept`.

`ChannelInv` says what the works that are still queued will do to the state: without
one, the state is what the endpoint is; with `connected_work` alone the host is there and
the state does not say so yet; with both the host is there exactly when `disconnected_work`
comes first. The last of these is what fails when a work is submitted while it waits
ahead of the other one, in both directions (`merged`); the theorem is for the rest. For octets received, `OrderInv` says
that what was handled last, the packet, what `rx_work` took, the ring and what is on the
line rise one after the other, and `WholeInv` that they are one run of consecutive octets
of the connection unless something was dropped or crossed a reset; the packet holds the
first octet of the run's packet or nothing. For octets sent, `SendInv` says that what the host
got, what the stack holds by reference, what the work claimed and the ring follow each
other without a gap, at every step of the work between which a callback may finish a
transfer or end the connection.

The second part of `ChannelProofs` is about `Ble`, for any finite set of connections and
every size of the ring, of a chunk and of what is received (`BleAssumption`; the transmit
ring has no room, `L2capTxRing = 0`, since `fd_ble_l2cap_initialize` never gives it its
buffer):

- `BleSafe`: `BleFaithful`.

`ConnInv` relates what the stack, `fd_ble` and the application know of connections, and
says that the version found is the one of the hash, for every hash of seven octets
(`HashRead`). `OctetInv` says that what the application got, the copy of the work and
the ring rise one after the other and account for every octet; `CopyInv` that a copy is
still at the front of the ring, or the ring was emptied since and the removal will remove
nothing. `FetchInv` says why nothing stays in the ring: whoever has octets to fetch waits
in the queue or runs. `NewsInv` says that the last notification that waits, or what the
application was told if none does, is the state of the channel, unless two were merged.

`UxProofs` proves, for any number of buttons and any debounce time (`UxAssumption`), and
for any number of players with sequences of either type (`AnimationAssumption`):

- `ButtonsSafe`: `ButtonsSettle`;
- `AnimationsAdvance`: `PlayersAdvance`.

`ButtonInv` says why nothing is forgotten when the interrupt comes between the steps of
the timeout: if `buttons` is not what the pins are, an edge is pending, the timer runs or
has expired, or nothing was pressed since the restart (`PinsFollowed`, `Fresh`); a button
that is down was noted as pressed, and what is noted and was not sent is going to be looked
at by a tick (`Noted`, `Due`). 
For animations, `StepsInv` says for each player which steps are open at each point at
which a call or the work may be between its steps, and whose they are; `TimerInv` who sees to
the timer (`SeenTo`) while something plays: it runs, or a call is on its way to look at
`active`, or the work has not tested the players yet, unless the start was `raced`; `NextInv`
that a sequence that waits has one to wait for, or the work is at the end of it. `Arguments`
and `AnimationTypes` say which sequences the calls and the work carry. There is a lemma for
each step of a call (`AskToStopInv` to `StartTimerInv`) and of the work (`WaypointInv` to
`AnimationWorkInv`).

`BaseProofs` is about the components of the run `base`: a behaviour
of that run is one of each component it has, so the theorems are stated of
their specifications together. For every size of fifos, transfers, rings and
batches, any number of timers, tasks and readers, and every rate of the counter:

- `DriversKeepOrder`: `SentInOrder`, from `UartSends`, `LineAsAsked`, `UsbServes`,
  `TouchSettled`. The inductive invariant of the UART follows a byte from the fifo through the
  transfer under way, with the flag that the interrupt and the sender share;
- `DueIsDone`: `TasksRunWhenDue`, from `FiresWhenDue` and `NeverLost` of the timers and
  works and `KeepsTime` of the clock (which holds if an overflow is served before the
  counter overflows again, the guard `Behind` of its tick), each with the exceptions its
  property names; for the works, typed items (`QueueTyped`) make `SubmittedIsQueued`
  inductive: a step that takes or overwrites an item another task holds puts that task into
  `collided`;
- `NobodyForgotten`: `NoTaskForgotten`, from `NeverForgets` of the scheduler.

The last part of `BaseProofs` is about `Fifo`, for every size of at least two places
(`SizeAssumption`) and every set of items:

- `TypeCorrect`: both indices stay inside of the buffer;
- `QueueRefined`: `ImplementsQueue`, the refinement of `BoundedQueue`.

What each side relies on between its check and its last step is the inductive
invariant: the producer that found room still has room (`ProducerHasRoom`), the
consumer that found an item still has it, and only the consumer of an interrupt's
bytes flushes (`ConsumerHasItem`). `StepRefines` maps the move of the tail to Put, the
read to Peek, the move of the head to Remove, the first half of a flush to Flush, and
everything else to a stutter; beneath it are facts on the items between two indices
(`MoveTailAppends`, `MoveHeadRemoves`, `WriteKeepsItems`).

Assumptions on constants are stated by the modules that declare them. Where a module is
only instantiated, the MC module assumes its assumption (`InputAssumption` of `MCBase`
and `MCUx`), so TLC evaluates it in the run.

Only model checked:

- liveness (`CallsReturn`, `RetryDelivers`, `InstallCompletes`, `CleanUpdateRuns`,
  `StreamCompletes`, `SerialLineServed`), since fairness and ENABLED are out of the
  prover's reach;
- `FieldsReadBack`, `CodecsAgree` and `GatewayServes`, whose modules have RECURSIVE
  operators or bit operators and are about what recursion computes;
- `NoDamageLost`, which compares two folds over a list of drawings, an induction over
  data;
- the other properties of the run `devices`: `MCDevices` reaches bit operators through `Swd`,
  and calls on buses, cards and displays are each one step that is computed by recursion
  over a transfer.

## Findings

Two runs end in a violation, `kv_stale` and `boot_restart`. Each states what a comment,
a test or a README of the repository says; `PROJECT.json` quotes it under `findings`.
Other deviations met while modelling are the named exceptions of the properties above.

## Plan

Done: the modules above, the refinement of the ring buffers, and the proofs listed.
Next, in this order: the damage of the canvas, with its fold over the drawings
replaced by a definition that can be proved about; the store's listeners.

## Not modelled

- Key/value store: listeners; a pair that is larger than a page (the loop of
  `fd_key_value_store.c:377` then never ends); flash erases are atomic; a torn pair
  whose bytes would be taken for metadata.
- Boot: `main.c:122` starts what `fd_boot_try_execute` accepts without looking at
  `is_valid`, which is in the model (`try_run`) and excepted from `RunsNewestWhole`; a release
  larger than the executable storage; `fd_boot_zephyr.c` (calls into FatFs and mbedTLS
  without state of its own); hashes match only what they were made of.
- RPC: the device as a client (`fd_rpc_client_*`), which nothing in the repository
  calls; servers on the host; SRP names; the device identifier.
- Graphics: `fd_graphics_txdc042a1.c` redeclares the parameter `area` and does not
  compile; font tables (generated data); what the reset of the touch controller does to
  its registers.
- Base: ADC registers, the log's ring, the checksum as a polynomial (it is taken to detect
  every damage), stack switching of the RTOS, the masks of events.
- QSPI flash, AES and SHA (vendored), protobuf encoders (generated),
  packager and code generators (host scripts without state at run time).

Deadlock is checked in the key/value store and boot update runs; the other systems
really stop when the bounded calls are used up.
