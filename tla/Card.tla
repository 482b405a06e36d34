-------------------------------- MODULE Card --------------------------------
(***************************************************************************)
(* The SD card driver (fd_sdcard.c, fd_sdcard_spi_zephyr.c) with a card,   *)
(* and the FAT file system wrapper (fd_storage_fatfs.c).                   *)
(*                                                                         *)
(* A call blocks and is one step.  s is its state: the card, the driver's  *)
(* fields and the number of failed fd_asserts, which are counted and do    *)
(* not stop the call.  The card is external: what it sends is a queue of   *)
(* items, one for each octet that is clocked, or for each block.  An octet *)
(* that is clocked while the queue is empty reads as 0xff.                 *)
(***************************************************************************)
EXTENDS Integers, Sequences, SequencesExt

CONSTANTS
    Blocks,        \* the number of blocks of the card
    Contents,      \* what a block may hold; "erased" is one of them
    Polls,         \* how often an answer is polled (1024 in the code)
    Behaviours,    \* the [ncr, busy, fail, at] of cards: delays in octets, what fails and when
    Csd,           \* the 16 octets of the card's CSD register
    MaxCardCalls

VARIABLES sdcard, client, fat

cardVars == <<sdcard, client, fat>>

Item(k, v) == [k |-> k, v |-> v]
Ones == Item("ff", 255)
Busy == Item("busy", 0)
IdleState == 1      \* fd_sdcard_r1_in_idle_state
Fast == "fast"

-----------------------------------------------------------------------------
(* The card. *)

NewCard(b) == [b |-> b, state |-> "off", out |-> <<>>, app |-> FALSE, idles |-> 1, from |-> 0, to |-> 0,
               at |-> -1, well |-> 0, taken |-> 0, blocks |-> [a \in 0..(Blocks - 1) |-> "erased"]]

Late(c, items) == [i \in 1..c.b.ncr |-> Ones] \o items
R1(c) == Item("r1", IF c.state = "ready" THEN 0 ELSE IdleState)
Answers(c, items) == [c EXCEPT !.out = Late(c, <<R1(c)>> \o items), !.app = FALSE]
BusyFor(c) == [i \in 1..c.b.busy |-> Busy]
Rejects(c) == c.b.fail = "write" /\ c.taken = c.b.at

\* A command is received; app is set between CMD55 and the command after it.
Command(c, cmd, arg) ==
    CASE cmd = 0 -> LET d == [c EXCEPT !.state = "idle"] IN Answers(d, <<>>)
      [] cmd = 8 -> Answers(c, <<Item("octets", 426)>>)
      [] cmd = 9 -> Answers(c, <<Ones, Item("token", 254), Item("octets", Csd)>>)
      [] cmd = 17 -> Answers(c, IF c.b.fail = "read" THEN <<Item("error", 8)>>
                                ELSE <<Ones, Item("token", 254), Item("block", c.blocks[arg])>>)
      [] cmd \in {24, 25} -> [Answers(c, <<>>) EXCEPT !.at = arg, !.well = 0]
      [] cmd = 32 -> [Answers(c, <<>>) EXCEPT !.from = arg]
      [] cmd = 33 -> [Answers(c, <<>>) EXCEPT !.to = arg]
      [] cmd = 38 -> [Answers(c, BusyFor(c)) EXCEPT
                        !.blocks = [a \in DOMAIN @ |-> IF a \in c.from..c.to THEN "erased" ELSE @[a]]]
      [] cmd = 55 -> [Answers(c, <<>>) EXCEPT !.app = TRUE]
      [] cmd = 58 -> Answers(c, <<Item("octets", "ready")>>)
      [] cmd = 22 /\ c.app -> Answers(c, <<Item("token", 254), Item("octets", c.well)>>)
      [] cmd = 23 /\ c.app -> Answers(c, <<>>)
      [] cmd = 41 /\ c.app -> LET d == IF c.idles = 0 THEN [c EXCEPT !.state = "ready"]
                                       ELSE [c EXCEPT !.idles = @ - 1]
                              IN Answers(d, <<>>)
      [] OTHER -> [c EXCEPT !.out = Late(c, <<Item("r1", 4)>>)]     \* illegal command

\* A block is received: two more octets are clocked before the response.
Receive(c, block, clocked) ==
    LET good == ~Rejects(c)
        response == Item("response", IF good THEN 5 ELSE 13)
    IN [c EXCEPT !.out = (IF clocked THEN <<>> ELSE <<Ones, Ones>>) \o <<response>> \o BusyFor(c),
                 !.taken = @ + 1, !.at = @ + 1, !.well = IF good THEN @ + 1 ELSE @,
                 !.blocks = IF good /\ c.at \in DOMAIN @ THEN [@ EXCEPT ![c.at] = block] ELSE @]

-----------------------------------------------------------------------------
(* The octets.  What the card sends while the driver sends is dropped. *)

Head1(s) == IF s.c.out = <<>> THEN Ones ELSE Head(s.c.out)
Clocked(s) == IF s.c.out = <<>> THEN s ELSE [s EXCEPT !.c.out = Tail(@)]
Transceive(s) == IF s.selected THEN Clocked(s) ELSE s

\* fd_sdcard_spi_dummy_uint8, fd_sdcard_spi_tx_uint8
Dummy(s) == Transceive(s)
\* fd_sdcard_spi_rx_uint8, fd_sdcard_spi_rx_uint16, a block
RxNext(s) == [s EXCEPT !.c.out = Transceive(s).c.out, !.item = IF s.selected THEN Head1(s) ELSE Ones]
Asserts(s, holds) == IF holds THEN s ELSE [s EXCEPT !.asserts = @ + 1]

SendCmd(s, cmd, arg) == IF s.selected THEN [s EXCEPT !.c = Command(s.c, cmd, arg)] ELSE s

\* Polls until an item of the kinds has come, at most n times.
RECURSIVE PollFor(_, _, _)
PollFor(s, kinds, n) ==
    IF n = 0 THEN s
    ELSE LET r == RxNext(s) IN IF r.item.k \in kinds THEN r ELSE PollFor(r, kinds, n - 1)

R1Of(s) == IF s.item.k = "r1" THEN [s EXCEPT !.r1 = s.item.v] ELSE [Asserts(s, FALSE) EXCEPT !.r1 = 255]
ReadR1(s) == R1Of(PollFor(s, {"r1"}, Polls))

\* What the driver asserts of a response.
HasR1(s, values) == Asserts(s, s.r1 \in values)
HasItem(s, item) == Asserts(s, s.item = item)
HasToken(s) == Asserts(s, s.item.k = "token")
Accept(s, cmd, arg) == HasR1(ReadR1(SendCmd(s, cmd, arg)), {0})

ReadR7(s) == RxNext(HasR1(ReadR1(s), {0, IdleState}))

SendCmd0(s) == HasR1(ReadR1(SendCmd(Dummy(s), 0, 0)), {IdleState})
SendCmd8(s) == HasR1(ReadR7(SendCmd(Dummy(s), 8, 426)), {IdleState})
SendCmd25(s, address) == ReadR1(SendCmd(Dummy(s), 25, address))
SendCmd55(s) == ReadR1(SendCmd(Dummy(s), 55, 0))
SendCmd58(s) == HasItem(HasR1(ReadR7(SendCmd(s, 58, 0)), {0}), Item("octets", "ready"))
SendAcmd22(s) == RxNext(HasToken(PollFor(ReadR1(SendCmd(Dummy(s), 22, 0)), {"token"}, Polls)))
SendAcmd23(s, count) == ReadR1(SendCmd(s, 23, count))
SendAcmd41(s) == ReadR1(SendCmd(s, 41, 0))

\* extract: the bits hi..lo of a register that is sent with its highest octet first.
Extract(octets, hi, lo) ==
    LET bit(b) == (octets[16 - (b \div 8)] \div 2 ^ (b % 8)) % 2
    IN FoldLeft(LAMBDA v, i : 2 * v + bit((hi + 1) - i), 0, [i \in 1..((hi - lo) + 1) |-> i])

\* The fields that fd_sdcard_send_cmd9 extracts.
CsdFields ==
    <<<<0, 0>>, <<7, 1>>, <<9, 8>>, <<11, 10>>, <<12, 12>>, <<13, 13>>, <<14, 14>>, <<15, 15>>,
      <<20, 16>>, <<21, 21>>, <<25, 22>>, <<28, 26>>, <<30, 29>>, <<31, 31>>, <<38, 32>>,
      <<45, 39>>, <<46, 46>>, <<47, 47>>, <<69, 48>>, <<75, 70>>, <<76, 76>>, <<77, 77>>,
      <<78, 78>>, <<79, 79>>, <<83, 80>>, <<95, 84>>, <<103, 96>>, <<111, 104>>, <<119, 112>>,
      <<125, 120>>, <<127, 126>>>>
EraseBlkEn == 17

StoreCsd(s) ==
    IF s.item.k # "octets" THEN s
    ELSE [s EXCEPT !.csd = [i \in DOMAIN CsdFields |->
                                Extract(s.item.v, CsdFields[i][1], CsdFields[i][2])]]
SendCmd9(s) ==
    StoreCsd(RxNext(HasToken(PollFor(Accept(Dummy(Dummy(Dummy(Dummy(s)))), 9, 0), {"token"}, Polls))))

-----------------------------------------------------------------------------
(* The calls. *)

RECURSIVE Cmd0Loop(_, _), Acmd41Loop(_), WhileBusy(_)
Cmd0Loop(s, n) == LET r == SendCmd0(s) IN IF r.r1 = IdleState \/ n = 1 THEN r ELSE Cmd0Loop(r, n - 1)
Acmd41Loop(s) == LET r == SendAcmd41(SendCmd55(s)) IN IF r.r1 = IdleState THEN Acmd41Loop(r) ELSE r
WhileBusy(s) == LET r == RxNext(s) IN IF r.item = Busy THEN WhileBusy(r) ELSE r

\* WhileBusy polls until the card is done.  fd_sdcard_write_block gives up after
\* 100000 polls and asserts; the cards here are done long before.

\* fd_sdcard_initialize: clocks while not selected wake the card up.
Synchronized(s) == [s EXCEPT !.selected = TRUE, !.frequency = "slow", !.c.state = "synchronized"]
Ready(s) == SendCmd58(Acmd41Loop(SendCmd8(Cmd0Loop(Synchronized(s), 8))))
ReadCsd(s) == SendCmd9(Dummy(Dummy(Dummy(Dummy([s EXCEPT !.frequency = Fast])))))
CanEraseBlocks(s) == Asserts(s, s.csd # <<>> /\ s.csd[EraseBlkEn] = 1)
Initialize(s) == CanEraseBlocks(ReadCsd(Ready(s)))

\* fd_sdcard_erase: the end of the range is address + length.
Erase(s, address, length) ==
    WhileBusy(Accept(Dummy(Accept(Dummy(Accept(s, 32, address)), 33, address + length)), 38, 0))

\* fd_sdcard_read_block returns without a word if the token does not come.
TakeBlock(s) == [RxNext(RxNext(s)) EXCEPT !.data = s.item.v]
IfToken(s) == IF s.item.k = "token" THEN TakeBlock(RxNext(s)) ELSE s
ReadBlock(s, address) == IfToken(PollFor(Accept(Dummy(s), 17, address), {"token"}, Polls))

SendBlock(s, address, data) == [Dummy(Accept(Dummy(s), 24, address)) EXCEPT !.c = Receive(@, data, FALSE)]

\* A mutant of WriteBlock: the response of the card is not looked at.
WriteBlockUnchecked(s, address, data) ==
    WhileBusy(RxNext(RxNext(RxNext(SendBlock(s, address, data)))))

\* fd_sdcard_write_block: the octets of the CRC are clocked by polling.
IsStored(s) == s.item.k = "response" /\ s.item.v = 5
PollStored(s) ==
    FoldLeft(LAMBDA x, i : IF IsStored(x) THEN x ELSE RxNext(x), s, [i \in 1..Polls |-> i])
WasStored(s) == Asserts(s, IsStored(s))
WriteBlock(s, address, data) ==
    WhileBusy(WasStored(PollStored([SendBlock(s, address, data) EXCEPT !.item = Busy])))

WriteMultipleBlocksStart(s, address, count) ==
    [HasR1(SendCmd25(HasR1(SendAcmd23(SendCmd55(Dummy(s)), count), {0}), address), {0}) EXCEPT !.count = 0]
WriteMultipleBlocksData(s, data) ==
    LET sent == [Dummy(s) EXCEPT !.c = Receive(@, data, TRUE)]
        stored == [HasItem(RxNext(sent), Item("response", 5)) EXCEPT !.count = @ + 1]
    IN HasItem(WhileBusy(stored), Ones)
WriteMultipleBlocksEnd(s) ==
    LET stopped == HasItem(WhileBusy(RxNext(Dummy(s))), Ones)
    IN [HasItem(SendAcmd22(SendCmd55(stopped)), Item("octets", s.count)) EXCEPT !.c.at = -1]

-----------------------------------------------------------------------------
(* A client: calls in the order the card expects them. *)

NewDriver(b) == [c |-> NewCard(b), selected |-> FALSE, frequency |-> "slow", item |-> Ones, r1 |-> 255,
                 csd |-> <<>>, count |-> 0, data |-> "untouched", asserts |-> 0]
NoClient == [op |-> "none", address |-> 0, length |-> 0, data |-> "untouched", left |-> 0, n |-> 0]

\* The buffer of a read is untouched before the call.
Calls(op, address, length, data, left, s) ==
    /\ client.n < MaxCardCalls
    /\ sdcard' = s
    /\ client' = [op |-> op, address |-> address, length |-> length, data |-> data, left |-> left,
                  n |-> client.n + 1]
    /\ UNCHANGED fat
Fresh == [sdcard EXCEPT !.data = "untouched", !.asserts = 0]

CardInitialize ==
    /\ client.op = "none"
    /\ Calls("initialize", 0, 0, "untouched", 0, Initialize(Fresh))
Between == client.op # "none" /\ client.left = 0
CardErase ==
    \E a \in 0..(Blocks - 1) : \E length \in 1..(Blocks - a) :
        Between /\ Calls("erase", a, length, "untouched", 0, Erase(Fresh, a, length))
CardRead == \E a \in 0..(Blocks - 1) : Between /\ Calls("read", a, 1, "untouched", 0, ReadBlock(Fresh, a))
CardWrite ==
    \E a \in 0..(Blocks - 1), x \in Contents : Between /\ Calls("write", a, 1, x, 0, WriteBlock(Fresh, a, x))
CardStart ==
    \E a \in 0..(Blocks - 2) :
        Between /\ Calls("start", a, 0, "untouched", 2, WriteMultipleBlocksStart(Fresh, a, 2))
CardData ==
    /\ client.left > 0
    /\ client.op \in {"start", "data"} /\ client.length < 2
    /\ \E x \in Contents : Calls("data", client.address, client.length + 1, x, client.left,
                                 WriteMultipleBlocksData([sdcard EXCEPT !.asserts = 0], x))
CardEnd ==
    /\ client.left > 0
    /\ Calls("end", client.address, client.length, "untouched", 0,
             WriteMultipleBlocksEnd([sdcard EXCEPT !.asserts = 0]))

-----------------------------------------------------------------------------
(* fd_storage_fatfs.c.  The file system is external: mounted is its own      *)
(* view, and mounting, unmounting or making one may fail.                    *)

NewFat == [is_open |-> FALSE, is_mounted |-> FALSE, mounted |-> FALSE, formatted |-> FALSE,
           ok |-> TRUE, op |-> "none", asserts |-> 0]
FatAssert(f, holds) == IF holds THEN f ELSE [f EXCEPT !.asserts = @ + 1]
Mount(f, works) ==
    LET mounts == works /\ f.formatted /\ ~f.mounted
        g == FatAssert(f, f.is_open)
    IN IF mounts THEN [g EXCEPT !.mounted = TRUE, !.is_mounted = TRUE, !.ok = TRUE]
       ELSE [g EXCEPT !.ok = FALSE]
Unmount(f) ==
    [FatAssert(FatAssert(f, f.is_open), f.mounted) EXCEPT !.mounted = FALSE, !.is_mounted = FALSE, !.ok = TRUE]

\* fd_storage_fatfs_format: refused if the buffer is too small; mounted again
\* only if it was and if the making of the file system succeeded.
Format(f, large, makes, works) ==
    LET opened == FatAssert(f, f.is_open)
        off == IF f.is_mounted THEN Unmount(opened) ELSE opened
        made == [off EXCEPT !.formatted = makes, !.ok = makes]
    IN IF ~large THEN [f EXCEPT !.ok = FALSE]
       ELSE IF makes /\ f.is_mounted THEN Mount(made, works) ELSE made

FatDoes(op, f) == fat' = [f EXCEPT !.op = op] /\ UNCHANGED <<sdcard, client>>
FatOpen == client.op = "fat" /\ FatDoes("open", [fat EXCEPT !.is_open = TRUE, !.ok = TRUE])
FatMount ==
    /\ client.op = "fat" /\ fat.is_open
    /\ \E works \in BOOLEAN : FatDoes("mount", Mount(fat, works))
FatUnmount == client.op = "fat" /\ fat.is_mounted /\ FatDoes("unmount", Unmount(fat))
FatFormat ==
    /\ client.op = "fat" /\ fat.is_open
    /\ \E large, makes, works \in BOOLEAN : FatDoes("format", Format(fat, large, makes, works))

Init ==
    /\ \E b \in Behaviours : sdcard = NewDriver(b)
    /\ client \in {NoClient, [NoClient EXCEPT !.op = "fat"]}
    /\ fat = NewFat

Next ==
    \/ (client.op # "fat" /\ (CardInitialize \/ CardErase \/ CardRead \/ CardWrite
                                \/ CardStart \/ CardData \/ CardEnd))
    \/ FatOpen \/ FatMount \/ FatUnmount \/ FatFormat

-----------------------------------------------------------------------------
(* Properties. *)

\* The fields of the CSD register are read from where they are: put back in
\* their places they are the register, and no bit is in two fields.
CsdIsTheRegister ==
    sdcard.csd = <<>> /\ sdcard'.csd # <<>> =>
        \A b \in 0..127 :
            LET of == {i \in DOMAIN CsdFields : CsdFields[i][2] <= b /\ b <= CsdFields[i][1]}
                bit == (Csd[16 - (b \div 8)] \div 2 ^ (b % 8)) % 2
            IN \E i \in of : of = {i} /\ bit = (sdcard'.csd[i] \div 2 ^ (b - CsdFields[i][2])) % 2

\* A call without a failed assertion did what it says, and no call changes a
\* block that it does not name: a write stores the block, a multiple write all
\* its blocks in a row, an erase erases its range and at most the block behind
\* it (CMD33 takes the last block, fd_sdcard_erase sends the one after), a read
\* returns the block or leaves the buffer alone; a card that rejects a block
\* makes an assertion fail; initialization ends ready, fast and selected.
CardFaithful ==
    client'.n > client.n =>
        LET op == client'.op
            a == client'.address
            n == client'.length
            was == sdcard.c.blocks
            is == sdcard'.c.blocks
            fine == sdcard'.asserts = 0
            named == CASE op = "erase" -> a..(a + n) [] op = "write" -> {a} [] op = "data" -> {a + (n - 1)}
                       [] OTHER -> {}
        IN /\ \A b \in DOMAIN was : b \notin named => is[b] = was[b]
           /\ op = "initialize" => fine /\ sdcard'.c.state = "ready" /\ sdcard'.frequency = Fast
           /\ op = "erase" => fine /\ \A b \in a..(a + n - 1) : is[b] = "erased"
           /\ op = "read" => sdcard'.data \in {was[a]} \cup (IF sdcard.c.b.fail = "read" THEN {"untouched"} ELSE {})
           /\ op \in {"write", "data"} => (fine <=> sdcard'.c.well > (IF op = "data" THEN sdcard.c.well ELSE 0))
           /\ op \in {"write", "data"} /\ fine => \A b \in named : is[b] = client'.data
           /\ op = "end" => (fine <=> sdcard.c.well = n)

\* The driver of the file system knows whether the volume is mounted, mounts
\* none that is not formatted, and mounts again after a format what was mounted.
FatFaithful ==
    /\ fat'.is_mounted = fat'.mounted
    /\ fat'.mounted => fat'.formatted
    /\ fat'.op = "format" /\ fat'.ok => fat'.formatted /\ (fat.mounted <=> fat'.mounted)
    /\ fat'.asserts = 0

\* All hold of every step.
FaithfulStorage == CardFaithful /\ CsdIsTheRegister /\ FatFaithful
=============================================================================
