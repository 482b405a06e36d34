------------------------------ MODULE Animation -----------------------------
(***************************************************************************)
(* The animations of subsys/base/src/fd_animation.c.                       *)
(*                                                                         *)
(* A player plays a sequence of steps; every step has a start, a waypoint  *)
(* and a stop function, the sequence a finalize function that may start    *)
(* another sequence.  A timer submits the work that ticks all players, and *)
(* the work stops the timer when nothing is left to play.  Sequences are   *)
(* started, stopped and cancelled from other threads without a lock: a     *)
(* call is made in the steps in which it reads and writes what the work    *)
(* uses too, and so is the end of a sequence in the work.                  *)
(***************************************************************************)
EXTENDS Naturals

CONSTANTS
    PlayerCount,   \* fd_animation.player_count
    StepCount,     \* sequence->step_count
    Duration,      \* ticks of a step
    Animations,    \* sequences that are started, named after their type: "once", "repeating"
    Callers,       \* threads other than that of the work queue
    MaxCalls       \* bound: calls of fd_animation_start, _stop and _cancel

VARIABLES
    sequence, step, elapsed, stop, cancel, next,   \* fd_animation_player_t of each player
    active,    \* fd_animation.active
    running,   \* fd_animation.timer expires
    pending,   \* the timer has submitted the work
    ticking,   \* where the work is, its player and its local variable sequence
    call,      \* where each thread is in a call, with the arguments of the call
    calls,     \* calls left
    open,      \* ghost: steps that were started and not stopped, of each player
    raced,     \* ghost: a start looked at the timer while the work was stopping it
    upset      \* ghost: what calls and ticks of each player have got between

fields == <<sequence, step, elapsed, stop, cancel, next>>
timerVars == <<active, running, pending>>
ghosts == <<open, raced, upset>>
animationVars == <<fields, timerVars, ticking, call, calls, ghosts>>

none == "none"

\* Every sequence is of one of the two types; the work queue is a thread of its own.
AnimationAssumption ==
    /\ PlayerCount \in Nat
    /\ Animations \subseteq {"once", "repeating"}
    /\ "work" \notin Callers

Players == 1 .. PlayerCount
Threads == Callers \cup {"work"}
Work(pc, p, s) == [pc |-> pc, player |-> p, local |-> s]
Resting == Work("idle", 0, none)
Out == [at |-> "out", player |-> 0, local |-> none]

Init ==
    /\ sequence = [p \in Players |-> none] /\ next = [p \in Players |-> none]
    /\ step = [p \in Players |-> 0] /\ elapsed = [p \in Players |-> 0]
    /\ stop = [p \in Players |-> FALSE] /\ cancel = [p \in Players |-> FALSE]
    /\ active = FALSE /\ running = FALSE /\ pending = FALSE
    /\ ticking = Resting /\ call = [t \in Threads |-> Out] /\ calls = MaxCalls
    /\ open = [p \in Players |-> {}] /\ raced = FALSE /\ upset = [p \in Players |-> {}]

Upset(p, kind, happened) ==
    upset' = IF happened THEN [upset EXCEPT ![p] = @ \cup {kind}] ELSE upset

-----------------------------------------------------------------------------
(* The calls, in the steps of a thread t. *)

At(t, at) == call[t].at = at
Calling(t) == At(t, "out") /\ calls > 0 /\ calls' = calls - 1
Goes(t, at) == call' = [call EXCEPT ![t].at = at]
Returns(t) == call' = [call EXCEPT ![t] = Out]

\* fd_animation_start: is the player playing?
fd_animation_start(t, p, s) ==
    /\ Calling(t)
    /\ call' = [call EXCEPT ![t] = [at |-> IF sequence[p] # none THEN "busy" ELSE "free",
                                    player |-> p, local |-> s]]
    /\ UNCHANGED <<fields, timerVars, ghosts>>

AskToStop(t) ==
    /\ At(t, "busy") /\ Goes(t, "next")
    /\ stop' = [stop EXCEPT ![call[t].player] = TRUE]
    /\ UNCHANGED <<sequence, step, elapsed, cancel, next, timerVars, ticking, calls, ghosts>>

\* The work has not looked at next of this player since its sequence ended.
LooksAtNext(p) == ticking.player = p /\ ticking.pc \in {"ended", "finalize", "next", "take"}

SetNext(t) ==
    /\ At(t, "next") /\ Goes(t, "timer")
    /\ LET p == call[t].player
       IN /\ next' = [next EXCEPT ![p] = call[t].local]
          /\ Upset(p, "missed", sequence[p] = none /\ ~ LooksAtNext(p))
    /\ UNCHANGED <<sequence, step, elapsed, stop, cancel, timerVars, ticking, calls, open, raced>>

SetSequence(t) ==
    /\ At(t, "free") /\ Goes(t, "reset")
    /\ LET p == call[t].player
       IN /\ sequence' = [sequence EXCEPT ![p] = call[t].local]
          /\ Upset(p, "replaced", sequence[p] # none)
    /\ UNCHANGED <<step, elapsed, stop, cancel, next, timerVars, ticking, calls, open, raced>>

Reset(t) ==
    /\ At(t, "reset") /\ Goes(t, "start")
    /\ LET p == call[t].player
       IN /\ step' = [step EXCEPT ![p] = 0] /\ elapsed' = [elapsed EXCEPT ![p] = 0]
          /\ stop' = [stop EXCEPT ![p] = FALSE] /\ cancel' = [cancel EXCEPT ![p] = FALSE]
    /\ UNCHANGED <<sequence, next, timerVars, ticking, calls, ghosts>>

StartStep(t) ==
    /\ At(t, "start") /\ Goes(t, "timer")
    /\ LET p == call[t].player
       IN open' = [open EXCEPT ![p] = @ \cup {<<call[t].local, step[p]>>}]
    /\ UNCHANGED <<fields, timerVars, ticking, calls, raced, upset>>

\* The timer runs already, or so it seems while the work is stopping it.
SeesActive(t) ==
    /\ At(t, "timer") /\ active /\ Returns(t)
    /\ raced' = (raced \/ ticking.pc \in {"stop", "clear"})
    /\ UNCHANGED <<fields, timerVars, ticking, calls, open, upset>>

SeesInactive(t) ==
    /\ At(t, "timer") /\ ~ active /\ Goes(t, "activate")
    /\ UNCHANGED <<fields, timerVars, ticking, calls, ghosts>>

SetActive(t) ==
    /\ At(t, "activate") /\ Goes(t, "run")
    /\ active' = TRUE
    /\ UNCHANGED <<fields, running, pending, ticking, calls, ghosts>>

StartTimer(t) ==
    /\ At(t, "run") /\ Returns(t)
    /\ running' = TRUE
    /\ raced' = (ticking.pc = "stop")
    /\ UNCHANGED <<fields, active, pending, ticking, calls, open, upset>>

StartGoesOn(t) ==
    AskToStop(t) \/ SetNext(t) \/ SetSequence(t) \/ Reset(t) \/ StartStep(t)
      \/ SeesActive(t) \/ SeesInactive(t) \/ SetActive(t) \/ StartTimer(t)

fd_animation_stop(t, p) ==
    /\ Calling(t)
    /\ stop' = [stop EXCEPT ![p] = TRUE]
    /\ UNCHANGED <<sequence, step, elapsed, cancel, next, timerVars, ticking, call, ghosts>>

\* fd_animation_cancel forgets the next sequence, and then stops this one.
fd_animation_cancel(t, p) ==
    /\ Calling(t)
    /\ call' = [call EXCEPT ![t] = [at |-> "cancel", player |-> p, local |-> none]]
    /\ next' = [next EXCEPT ![p] = none]
    /\ Upset(p, "cut", ticking.player = p /\ ticking.pc = "take")
    /\ UNCHANGED <<sequence, step, elapsed, stop, cancel, timerVars, ticking, open, raced>>

CancelStops(t) ==
    /\ At(t, "cancel") /\ Goes(t, "cancelled")
    /\ stop' = [stop EXCEPT ![call[t].player] = TRUE]
    /\ UNCHANGED <<sequence, step, elapsed, cancel, next, timerVars, ticking, calls, ghosts>>

CancelEnds(t) ==
    /\ At(t, "cancelled") /\ Returns(t)
    /\ cancel' = [cancel EXCEPT ![call[t].player] = TRUE]
    /\ UNCHANGED <<sequence, step, elapsed, stop, next, timerVars, ticking, calls, ghosts>>

Calls ==
    \/ \E t \in Callers, p \in Players :
          \/ fd_animation_stop(t, p) \/ fd_animation_cancel(t, p)
          \/ \E s \in Animations : fd_animation_start(t, p, s) /\ UNCHANGED ticking
    \/ \E t \in Callers : CancelStops(t) \/ CancelEnds(t)
    \/ \E t \in Threads : StartGoesOn(t)

-----------------------------------------------------------------------------
(* The timer and the work. *)

fd_animation_timer_irq ==
    /\ running /\ ~ pending /\ pending' = TRUE
    /\ UNCHANGED <<fields, active, running, ticking, call, calls, ghosts>>

fd_animation_work ==
    /\ pending /\ ticking = Resting
    /\ pending' = FALSE /\ ticking' = Work("tick", 1, none)
    /\ UNCHANGED <<fields, active, running, call, calls, ghosts>>

Is(pc, p) == ticking.pc = pc /\ ticking.player = p
Reaches(pc, p) == ticking' = Work(pc, p, none)
AfterTick(p) == IF p = PlayerCount THEN Reaches("check", 0) ELSE Reaches("tick", p + 1)

\* A start of this player has set sequence, and not started its first step.
Starting(p) == \E t \in Threads : call[t].player = p /\ call[t].at \in {"reset", "start"}

Silent(p) ==
    /\ Is("tick", p) /\ sequence[p] = none
    /\ AfterTick(p)
    /\ UNCHANGED <<fields, timerVars, call, calls, ghosts>>

\* fd_animation_player_tick: the step goes on.
Waypoint(p) ==
    /\ Is("tick", p) /\ sequence[p] # none
    /\ elapsed[p] + 1 < Duration /\ ~ cancel[p]
    /\ elapsed' = [elapsed EXCEPT ![p] = @ + 1]
    /\ Upset(p, "overtaken", Starting(p))
    /\ AfterTick(p)
    /\ UNCHANGED <<sequence, step, stop, cancel, next, timerVars, call, calls, open, raced>>

StepEnds(p) ==
    /\ Is("tick", p) /\ sequence[p] # none
    /\ elapsed[p] + 1 >= Duration \/ cancel[p]
    /\ elapsed' = [elapsed EXCEPT ![p] = 0]
    /\ Upset(p, "overtaken", Starting(p))

LastStep(p) == step[p] + 1 >= StepCount
PlayedOut(p) == LastStep(p) /\ (sequence[p] = "once" \/ stop[p])

\* The step is stopped and the next one, or the first one again, is started.
NextStep(p) ==
    /\ StepEnds(p) /\ ~ PlayedOut(p)
    /\ LET following == IF LastStep(p) THEN 0 ELSE step[p] + 1
       IN /\ step' = [step EXCEPT ![p] = following]
          /\ open' = [open EXCEPT ![p] = (@ \ {<<sequence[p], step[p]>>}) \cup {<<sequence[p], following>>}]
    /\ AfterTick(p)
    /\ UNCHANGED <<sequence, stop, cancel, next, timerVars, call, calls, raced>>

\* The step is stopped and with it the sequence is played out.
SequenceEnds(p) ==
    /\ StepEnds(p) /\ PlayedOut(p)
    /\ step' = [step EXCEPT ![p] = 0]
    /\ open' = [open EXCEPT ![p] = @ \ {<<sequence[p], step[p]>>}]
    /\ sequence' = [sequence EXCEPT ![p] = none]
    /\ Reaches("ended", p)
    /\ UNCHANGED <<stop, cancel, next, timerVars, call, calls, raced>>

ClearFlags(p) ==
    /\ Is("ended", p) /\ Reaches("finalize", p)
    /\ stop' = [stop EXCEPT ![p] = FALSE] /\ cancel' = [cancel EXCEPT ![p] = FALSE]
    /\ UNCHANGED <<sequence, step, elapsed, next, timerVars, call, calls, ghosts>>

\* The finalize function of the sequence starts another one.
Finalize(p, s) ==
    /\ Is("finalize", p) /\ Reaches("next", p)
    /\ fd_animation_start("work", p, s)

\* The finalize function has returned: is there a next sequence?
CheckNext(p) ==
    /\ Is("finalize", p) \/ Is("next", p)
    /\ At("work", "out")
    /\ IF next[p] = none THEN AfterTick(p) ELSE Reaches("take", p)
    /\ UNCHANGED <<fields, timerVars, call, calls, ghosts>>

\* next is read a second time: a null pointer is followed and the program ends.
TakeNext(p) ==
    /\ Is("take", p)
    /\ ticking' = IF next[p] = none THEN Work("fault", p, none) ELSE Work("put", p, next[p])
    /\ UNCHANGED <<fields, timerVars, call, calls, ghosts>>

\* The next sequence is put in place and its first step is started.
PlayNext(p) ==
    /\ Is("put", p)
    /\ next' = [next EXCEPT ![p] = none]
    /\ sequence' = [sequence EXCEPT ![p] = ticking.local]
    /\ open' = [open EXCEPT ![p] = @ \cup {<<ticking.local, step[p]>>}]
    /\ Upset(p, "replaced", sequence[p] # none)
    /\ AfterTick(p)
    /\ UNCHANGED <<step, elapsed, stop, cancel, timerVars, call, calls, raced>>

TickSteps(p) ==
    Silent(p) \/ Waypoint(p) \/ NextStep(p) \/ SequenceEnds(p) \/ ClearFlags(p)
      \/ (\E s \in Animations : Finalize(p, s)) \/ CheckNext(p) \/ TakeNext(p) \/ PlayNext(p)

\* Mutant: the timer is stopped when one player has nothing to play.
CheckAnyIdle ==
    /\ ticking = Work("check", 0, none)
    /\ ticking' = IF \A p \in Players : sequence[p] # none THEN Resting ELSE Work("stop", 0, none)
    /\ UNCHANGED <<fields, timerVars, call, calls, ghosts>>

\* The rest of fd_animation_work: does any player play; if not, the timer is stopped.
\* Only the work ends a sequence, so that the loop over the players finds what it
\* would find at once.
CheckActive ==
    /\ ticking = Work("check", 0, none)
    /\ ticking' = IF \E p \in Players : sequence[p] # none THEN Resting ELSE Work("stop", 0, none)
    /\ UNCHANGED <<fields, timerVars, call, calls, ghosts>>

StopTimer ==
    /\ ticking = Work("stop", 0, none) /\ Reaches("clear", 0)
    /\ running' = FALSE
    /\ UNCHANGED <<fields, active, pending, call, calls, ghosts>>

ClearActive ==
    /\ ticking = Work("clear", 0, none) /\ ticking' = Resting
    /\ active' = FALSE
    /\ UNCHANGED <<fields, running, pending, call, calls, ghosts>>

WorkSteps ==
    fd_animation_work \/ (\E p \in Players : TickSteps(p)) \/ CheckActive \/ StopTimer \/ ClearActive

Next == ticking.pc # "fault" /\ (Calls \/ fd_animation_timer_irq \/ WorkSteps)

Spec == Init /\ [][Next]_animationVars

-----------------------------------------------------------------------------
\* A thread has made a player play and has still to see to the timer.
SeesToTimer(t) == call[t].at \in {"reset", "start", "timer", "activate", "run"}

\* The work is between the end of the sequence of this player and its next one.
AtEnd(p) == ticking.player = p /\ ticking.pc \in {"ended", "finalize", "next", "take", "put"}

\* A player that has a sequence is going to be ticked, and has exactly its
\* current step open: every step is stopped before the next one is started, also
\* when sequences are chained, stopped or cancelled in the middle; a sequence
\* that was told to wait for the end of another one is played then; and no null
\* pointer is followed.  The code does not keep this
\*   - when a start looks at the timer, or starts it, while the work is stopping
\*     it (fd_animation.c:81, 120; "raced"): the timer does not run;
\*   - when the work ticks a player between a start's assignment of sequence and
\*     its first step (110-117; "overtaken"): a step is stopped or started twice;
\*   - when a start finds the player free, or the work finds a next sequence,
\*     and another one is started before it is put in place (106-110, 53-58;
\*     "replaced"): the steps of that one stay open;
\*   - when a start finds the player busy and the sequence ends before the start
\*     has set next (106-108; "missed"): next is played at the end of a later
\*     sequence only;
\*   - when a cancel comes between the work's two reads of next (53-56; "cut"):
\*     the null pointer is followed.
PlayersAdvance ==
    /\ \A p \in Players :
          /\ sequence[p] # none /\ ~ raced => running \/ \E t \in Threads : SeesToTimer(t)
          /\ upset[p] \cap {"overtaken", "replaced"} = {} =>
                open[p] = IF sequence[p] = none \/ Starting(p) THEN {} ELSE {<<sequence[p], step[p]>>}
          /\ "missed" \notin upset[p] /\ next[p] # none => sequence[p] # none \/ AtEnd(p)
    /\ ticking.pc = "fault" => "cut" \in upset[ticking.player]
=============================================================================
