------------------------------- MODULE Clock --------------------------------
(***************************************************************************)
(* The clock: fd_rtc_nrf5.c and its server fd_rpc_server_rtc.c.            *)
(*                                                                         *)
(* A counter that wraps, an interrupt that adds the seconds of a wrap to   *)
(* utc_base, and threads that set the time and read it, one register or    *)
(* variable at a time.  The interrupt is taken some time after its event   *)
(* and not while it is masked, so that a thread can see a counter that has *)
(* wrapped with a base that does not know of it.                           *)
(***************************************************************************)
EXTENDS Integers

CONSTANTS
    Readers,             \* the threads that read the time; one also serves calls
    TicksPerSecond,      \* 32768 in the code
    SecondsPerOverflow,  \* fd_rtc_seconds_per_overflow, 512
    UtcTimes,             \* the times that a host sets
    ClockConfigurations,      \* the configurations that a host sets
    MaxTicks, MaxRtcCalls

ClockAssumption ==
    /\ TicksPerSecond \in Nat \ {0} /\ SecondsPerOverflow \in Nat \ {0}
    /\ \A t \in UtcTimes : t \in Nat

VARIABLES
    rtc,        \* the peripheral and fd_rtc
    reading,    \* reader -> where its fd_rtc_get_count is
    setting,    \* the time that fd_rtc_set_utc is about to set, or <<>>
    truth,      \* the true time in ticks, and whether an overflow of before was added to it
    sent,       \* the answers to the host
    used        \* how many ticks and calls there were

clockVars == <<rtc, reading, setting, truth, sent, used>>

Wrap == SecondsPerOverflow * TicksPerSecond
NotSet == [time_zone_offset |-> 0, display_format |-> 0]
IdleReader == [at |-> "idle", is_set |-> FALSE, base |-> 0, offset |-> 0,
               truth |-> 0, wrapped |-> FALSE, disturbed |-> FALSE]
Idle(r) == reading[r].at \in {"idle", "read"}

\* fd_rtc_initialize
Init ==
    /\ rtc = [counter |-> 0, running |-> TRUE, overflow |-> FALSE, enabled |-> TRUE, utc_base |-> 0,
              is_set |-> FALSE, configuration |-> NotSet]
    /\ reading = [r \in Readers |-> IdleReader]
    /\ setting = <<>>
    /\ truth = [ticks |-> 0, stray |-> FALSE]
    /\ sent = [op |-> "none"]
    /\ used = [ticks |-> 0, calls |-> 0]

-----------------------------------------------------------------------------
(* The peripheral and its interrupt. *)

\* A reader whose base does not know of a wrap, or an interrupt that was not taken.
Behind == rtc.overflow \/ \E r \in Readers : reading[r].at = "based" /\ reading[r].wrapped

\* No thread is held up for so long that the counter wraps twice.
Tick ==
    /\ rtc.running /\ used.ticks < MaxTicks
    /\ ~(Behind /\ rtc.counter = Wrap - 1)
    /\ rtc' = [rtc EXCEPT !.counter = (@ + 1) % Wrap, !.overflow = @ \/ rtc.counter = Wrap - 1]
    /\ truth' = [truth EXCEPT !.ticks = @ + 1]
    /\ used' = [used EXCEPT !.ticks = @ + 1]
    \* A reader whose base is of before the wrap does not know of the wrap.
    /\ reading' = [r \in Readers |->
          IF reading[r].at = "based" /\ rtc.counter = Wrap - 1
          THEN [reading[r] EXCEPT !.wrapped = TRUE] ELSE reading[r]]
    /\ UNCHANGED <<setting, sent>>

fd_rtc_irq_handler ==
    /\ rtc.overflow /\ rtc.enabled
    /\ rtc' = [rtc EXCEPT !.overflow = FALSE, !.utc_base = @ + SecondsPerOverflow]
    /\ UNCHANGED <<reading, setting, truth, sent, used>>

-----------------------------------------------------------------------------
(* The threads. *)

Call == used.calls < MaxRtcCalls /\ used' = [used EXCEPT !.calls = @ + 1]

\* Who reads while the time is set, or while it is wrong, gets something else.
Disturbed == [r \in Readers |-> IF Idle(r) THEN reading[r] ELSE [reading[r] EXCEPT !.disturbed = TRUE]]

\* fd_rtc_set_utc: TASKS_STOP and TASKS_CLEAR, utc_base, TASKS_START.  An
\* overflow that is pending is of the time before.
SetStops(utc) ==
    /\ setting = <<>> /\ Call
    /\ rtc' = [rtc EXCEPT !.running = FALSE, !.counter = 0]
    /\ setting' = <<utc>>
    /\ reading' = Disturbed
    /\ UNCHANGED <<truth, sent>>

\* An overflow of the time before whose interrupt has not been taken, because a
\* reader masks it, is added to the new time, which is wrong from then on.
SetStarts ==
    /\ setting # <<>>
    /\ rtc' = [rtc EXCEPT !.utc_base = setting[1], !.running = TRUE, !.is_set = TRUE]
    /\ truth' = [ticks |-> setting[1] * TicksPerSecond, stray |-> rtc.overflow]
    /\ setting' = <<>>
    /\ reading' = Disturbed
    /\ sent' = [op |-> "set_time"]
    /\ UNCHANGED used

\* fd_rtc_get_count: INTENCLR, utc_base, COUNTER, INTENSET.  is_set is what the
\* server of the call has read before.
GetMasks(r) ==
    /\ Idle(r) /\ (setting = <<>> \/ r # "rpc") /\ Call
    /\ rtc' = [rtc EXCEPT !.enabled = FALSE]
    /\ reading' = [reading EXCEPT ![r] = [IdleReader EXCEPT !.at = "masked", !.is_set = rtc.is_set,
                                                            !.disturbed = setting # <<>> \/ truth.stray]]
    /\ UNCHANGED <<setting, truth, sent>>

GetsBase(r) ==
    /\ reading[r].at = "masked"
    /\ reading' = [reading EXCEPT ![r].at = "based", ![r].base = rtc.utc_base,
                               ![r].wrapped = rtc.overflow]
    /\ UNCHANGED <<rtc, setting, truth, sent, used>>

GetsCounter(r) ==
    /\ reading[r].at = "based"
    /\ reading' = [reading EXCEPT ![r].at = "counted", ![r].offset = rtc.counter,
                               ![r].truth = truth.ticks]
    /\ UNCHANGED <<rtc, setting, truth, sent, used>>

\* fd_rtc_get_utc in seconds and fd_rtc_get_utc_precise in ticks.
Utc(g) == g.base + (g.offset \div TicksPerSecond)
UtcPrecise(g) == (g.base * TicksPerSecond) + g.offset

\* The server answers the call with its result.
GetUnmasks(r) ==
    /\ reading[r].at = "counted"
    /\ rtc' = [rtc EXCEPT !.enabled = TRUE]
    /\ reading' = [reading EXCEPT ![r].at = "read"]
    /\ sent' = IF r = "rpc" THEN [op |-> "get_time", is_set |-> reading[r].is_set, utc |-> Utc(reading[r])]
               ELSE sent
    /\ UNCHANGED <<setting, truth, used>>

\* The server's work queue runs one call at a time.
RpcIdle == setting = <<>> /\ ("rpc" \in Readers => Idle("rpc"))
SetTime == \E utc \in UtcTimes : RpcIdle /\ SetStops(utc)

GetConfiguration ==
    /\ RpcIdle /\ Call
    /\ sent' = [op |-> "get_configuration", configuration |-> rtc.configuration]
    /\ UNCHANGED <<rtc, reading, setting, truth>>
SetConfiguration ==
    /\ RpcIdle /\ Call
    /\ \E c \in ClockConfigurations : rtc' = [rtc EXCEPT !.configuration = c]
    /\ sent' = [op |-> "set_configuration"]
    /\ UNCHANGED <<reading, setting, truth>>

Next ==
    \/ Tick \/ fd_rtc_irq_handler
    \/ SetTime \/ SetStarts \/ GetConfiguration \/ SetConfiguration
    \/ \E r \in Readers : GetMasks(r) \/ GetsBase(r) \/ GetsCounter(r) \/ GetUnmasks(r)

Spec == Init /\ [][Next]_clockVars

-----------------------------------------------------------------------------
\* What the clock has is the true time: nothing is lost of an overflow, however
\* often the interrupt is masked, and nothing is added twice.
KeepsTime ==
    (setting = <<>> /\ ~truth.stray) =>
        (rtc.utc_base * TicksPerSecond) + rtc.counter + (IF rtc.overflow THEN Wrap ELSE 0) = truth.ticks

\* What a thread reads is the true time at one moment of the reading, unless
\* the time was set meanwhile or is wrong, or the counter had wrapped and utc_base did not
\* know of it: such a time is SecondsPerOverflow too early (fd_rtc_get_count).
ReadsTime ==
    \A r \in Readers :
        LET g == reading[r]
        IN (g.at = "read" /\ ~g.disturbed) =>
               /\ UtcPrecise(g) + (IF g.wrapped THEN Wrap ELSE 0) = g.truth
               /\ ~g.wrapped => Utc(g) = g.truth \div TicksPerSecond

\* A host that is told that the time is set gets the time that was set and what
\* has passed since, but for what ReadsTime excepts.
TimeAgrees == KeepsTime /\ ReadsTime
=============================================================================
