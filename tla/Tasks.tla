-------------------------------- MODULE Tasks -------------------------------
(***************************************************************************)
(* The deferred work of subsys/base: the timers of fd_timer.c and the work *)
(* queues of fd_work.c and fd_work_zephyr.c.                               *)
(*                                                                         *)
(* The main loop gives the time that passed to fd_timer_update and to      *)
(* fd_work_queue_process; both walk over their entries and call back those *)
(* that are due.  A callback may start and stop timers and submit and      *)
(* cancel tasks, also the ones the walk has not reached yet.  In the       *)
(* zephyr port a work queue is a thread of its own and submitting a queued *)
(* task again restarts its delay; there any thread submits and cancels,    *)
(* without a lock, so that those calls are made in steps.                  *)
(***************************************************************************)
EXTENDS Naturals

CONSTANTS
    Timers,      \* 1 .. fd_timer.timer_count, in the order they were added
    Work,        \* the tasks that are submitted
    TaskLimit,   \* fd_work_task_limit
    Submitters,  \* the threads that submit and cancel in the zephyr port
    MaxDelay,    \* bound: ticks of a duration or a delay
    MaxSubmits   \* bound: calls of each of the Submitters

VARIABLES
    port,        \* "portable": fd_work.c, "zephyr": fd_work_zephyr.c
    timer,       \* fd_timer_t of each timer
    items,       \* the items of the work queue; a task is a function and its context
    item_count,
    submit,      \* what each thread is doing: the step, the task and the item it has taken
    walk,        \* what the main loop walks over and the index it has reached
    calling,     \* a callback is running
    owed,        \* ticks until each started timer is due; none when stopped
    wanted,      \* the tasks submitted, and neither cancelled nor called since
    dropped,     \* tasks submitted at the limit: the caller was told that they are queued
    collided     \* tasks whose item another thread took for another task

queueVars == <<items, item_count, submit, wanted, dropped, collided>>
tasksVars == <<port, timer, walk, calling, owed, queueVars>>

none == MaxDelay + 1
Ticks == 0 .. MaxDelay
Items == 1 .. TaskLimit
Nothing == "nothing"
Idle == [over |-> "nothing", at |-> 0]
Stopped == [active |-> FALSE, triggered |-> FALSE, countdown |-> 0]
MinusOne(n) == IF n = 0 THEN 0 ELSE n - 1

Empty == [function |-> Nothing, context |-> Nothing, is_queued |-> FALSE, delay |-> 0]
Out == [at |-> "out", task |-> Nothing, item |-> 0]

\* The main loop of the portable port, whose callers are the main program and any
\* callback.  The queue of the zephyr port is a thread of its own, which shares
\* nothing with the timers of another thread: they are not modelled with it.
MainLoop == port = "portable"
MayCall == MainLoop /\ (walk = Idle \/ calling)

Init ==
    /\ port \in {"portable", "zephyr"}
    /\ timer = [t \in Timers |-> Stopped]
    /\ items = [i \in Items |-> Empty] /\ item_count = 0
    /\ submit = [c \in Submitters |-> [call |-> Out, left |-> MaxSubmits]]
    /\ dropped = {} /\ collided = {}
    /\ walk = Idle /\ calling = FALSE
    /\ owed = [t \in Timers |-> none] /\ wanted = {}

-----------------------------------------------------------------------------
(* Timers. *)

fd_timer_start(t, duration) ==
    /\ MayCall
    /\ timer' = [timer EXCEPT ![t] = [active |-> TRUE, triggered |-> FALSE, countdown |-> duration]]
    /\ owed' = [owed EXCEPT ![t] = duration]
    /\ UNCHANGED <<port, walk, calling, queueVars>>

\* Mutant: a timer that has been triggered is called back although it is stopped.
StopKeepsTriggered(t) ==
    /\ MayCall
    /\ timer' = [timer EXCEPT ![t].active = FALSE, ![t].countdown = 0]
    /\ owed' = [owed EXCEPT ![t] = none]
    /\ UNCHANGED <<port, walk, calling, queueVars>>

fd_timer_stop(t) ==
    /\ MayCall
    /\ timer' = [timer EXCEPT ![t] = Stopped]
    /\ owed' = [owed EXCEPT ![t] = none]
    /\ UNCHANGED <<port, walk, calling, queueVars>>

\* One timer of fd_timer_schedule, for a tick.
Scheduled(t) ==
    IF ~ t.active THEN t
    ELSE IF t.countdown <= 1 THEN [active |-> FALSE, triggered |-> TRUE, countdown |-> 0]
    ELSE [t EXCEPT !.countdown = @ - 1]

\* fd_timer_update: fd_timer_schedule, then the walk of fd_timer_callback.
fd_timer_update ==
    /\ MainLoop /\ walk = Idle /\ ~ calling
    /\ timer' = [t \in Timers |-> Scheduled(timer[t])]
    /\ owed' = [t \in Timers |-> IF owed[t] = none THEN none ELSE MinusOne(owed[t])]
    /\ walk' = [over |-> "timers", at |-> 1]
    /\ UNCHANGED <<port, calling, queueVars>>

\* The callback of the timer the walk has reached.
fd_timer_callback ==
    /\ walk.over = "timers" /\ ~ calling
    /\ walk.at \in Timers /\ timer[walk.at].triggered
    /\ timer' = [timer EXCEPT ![walk.at].triggered = FALSE]
    /\ owed' = [owed EXCEPT ![walk.at] = none]
    /\ calling' = TRUE
    /\ UNCHANGED <<port, walk, queueVars>>

-----------------------------------------------------------------------------
(* Work queues.  fd_work_item_for_task finds the first item of a task. *)

Holds(item, w) == item.function = w /\ item.context = w
Counted == {i \in Items : i <= item_count}
ItemsFor(w) == {i \in Counted : Holds(items[i], w)}
IsFirst(i, w) == i \in ItemsFor(w) /\ \A j \in ItemsFor(w) : i <= j

\* The caller of a submit is told that the task is queued.
Drops(w) ==
    /\ wanted' = wanted \cup {w}
    /\ dropped' = dropped \cup {w}
    /\ UNCHANGED <<items, item_count, collided>>

\* fd_work_queue_submit_with_delay of fd_work.c: a queued task keeps its first delay;
\* at the limit nothing is queued.
fd_work_queue_submit_with_delay(w, delay) ==
    /\ MayCall
    /\ LET queued(i) == items' = [items EXCEPT ![i] = [function |-> w, context |-> w, is_queued |-> TRUE,
                                                       delay |-> delay]]
       IN  \/ \E i \in Items :
                 /\ IsFirst(i, w)
                 /\ IF items[i].is_queued THEN UNCHANGED items ELSE queued(i)
                 /\ wanted' = wanted \cup {w}
                 /\ dropped' = dropped \ {w} /\ UNCHANGED <<item_count, collided>>
           \/ /\ ItemsFor(w) = {} /\ item_count < TaskLimit
              /\ item_count' = item_count + 1
              /\ queued(item_count + 1)
              /\ wanted' = wanted \cup {w}
              /\ dropped' = dropped \ {w} /\ UNCHANGED collided
           \/ ItemsFor(w) = {} /\ item_count >= TaskLimit /\ Drops(w)
    /\ UNCHANGED <<port, timer, walk, calling, owed, submit>>

Cancelled(w) ==
    /\ wanted' = wanted \ {w}
    /\ dropped' = dropped \ {w}

fd_work_queue_cancel_task(w) ==
    /\ MayCall
    /\ \/ \E i \in Items : IsFirst(i, w) /\ items' = [items EXCEPT ![i].is_queued = FALSE]
       \/ ItemsFor(w) = {} /\ UNCHANGED items
    /\ Cancelled(w)
    /\ UNCHANGED <<port, timer, walk, calling, owed, item_count, submit, collided>>

\* The same calls of a thread c in fd_work_zephyr.c.  The compiler loads item_count
\* once for the test of the limit and the increment, and stores the words of the task
\* one after the other.
Calls(c, entry) ==
    /\ port = "zephyr"
    /\ submit' = [submit EXCEPT ![c] = entry]
    /\ UNCHANGED <<port, timer, walk, calling, owed>>
Goes(c, call) == Calls(c, [submit[c] EXCEPT !.call = call])

SearchItem(c, w, op) ==
    LET begins(at, i) == Calls(c, [call |-> [at |-> at, task |-> w, item |-> i], left |-> submit[c].left - 1])
    IN  /\ submit[c].call.at = "out" /\ submit[c].left > 0
        /\ \/ \E i \in Items : IsFirst(i, w) /\ begins(op, i) /\ UNCHANGED <<wanted, dropped>>
           \/ ItemsFor(w) = {} /\ op = "schedule" /\ begins("take", 0) /\ UNCHANGED <<wanted, dropped>>
           \/ /\ ItemsFor(w) = {} /\ op = "cancel"
              /\ Calls(c, [call |-> Out, left |-> submit[c].left - 1]) /\ Cancelled(w)
        /\ UNCHANGED <<items, item_count, collided>>
TakeItem(c) ==
    /\ submit[c].call.at = "take"
    /\ IF item_count >= TaskLimit
       THEN Goes(c, Out) /\ Drops(submit[c].call.task)
       ELSE /\ Goes(c, [at |-> "count", task |-> submit[c].call.task, item |-> item_count + 1])
            /\ UNCHANGED <<items, item_count, wanted, dropped, collided>>
CountItem(c) ==
    /\ submit[c].call.at = "count"
    /\ item_count' = submit[c].call.item
    /\ Goes(c, [submit[c].call EXCEPT !.at = "function"])
    /\ UNCHANGED <<items, wanted, dropped, collided>>

\* Tasks other than w that item i holds and that a store or a call for w takes it from.
Others(i, w) == {v \in Work \ {w} : Holds(items[i], v)}
StoreFunction(c) ==
    LET i == submit[c].call.item
    IN  /\ submit[c].call.at = "function"
        /\ items' = [items EXCEPT ![i].function = submit[c].call.task]
        /\ collided' = collided \cup Others(i, submit[c].call.task)
        /\ Goes(c, [submit[c].call EXCEPT !.at = "context"])
        /\ UNCHANGED <<item_count, wanted, dropped>>
StoreContext(c) ==
    LET i == submit[c].call.item
    IN  /\ submit[c].call.at = "context"
        /\ items' = [items EXCEPT ![i].context = submit[c].call.task]
        /\ collided' = collided \cup Others(i, submit[c].call.task)
        /\ Goes(c, [submit[c].call EXCEPT !.at = "schedule"])
        /\ UNCHANGED <<item_count, wanted, dropped>>

\* k_work_reschedule_for_queue and k_work_cancel_delayable of the item.  The kernel
\* calls back some time later: delays, and waiting for a task, only tell when.
ScheduleItem(c) ==
    LET i == submit[c].call.item
        w == submit[c].call.task
    IN  /\ submit[c].call.at = "schedule"
        /\ items' = [items EXCEPT ![i].is_queued = TRUE]
        /\ collided' = IF Holds(items[i], w) THEN collided \ {w} ELSE collided \cup {w}
        /\ wanted' = wanted \cup {w} /\ dropped' = dropped \ {w}
        /\ Goes(c, Out) /\ UNCHANGED item_count
CancelItem(c) ==
    LET i == submit[c].call.item
    IN  /\ submit[c].call.at = "cancel"
        /\ items' = [items EXCEPT ![i].is_queued = FALSE]
        /\ collided' = collided \cup Others(i, submit[c].call.task)
        /\ Cancelled(submit[c].call.task)
        /\ Goes(c, Out) /\ UNCHANGED item_count

\* fd_work_queue_wait_for_task: a queued task is run now, whatever its delay.
fd_work_queue_wait_for_task(w) ==
    /\ MainLoop /\ walk = Idle /\ ~ calling
    /\ \E i \in Items :
           /\ IsFirst(i, w) /\ items[i].is_queued
           /\ items' = [items EXCEPT ![i].is_queued = FALSE]
    /\ wanted' = wanted \ {w}
    /\ calling' = TRUE
    /\ UNCHANGED <<port, timer, walk, owed, item_count, submit, dropped, collided>>

\* fd_work_queue_clear forgets every item.
fd_work_queue_clear ==
    /\ MayCall
    /\ items' = [i \in Items |-> Empty] /\ item_count' = 0
    /\ wanted' = {}
    /\ dropped' = {}
    /\ UNCHANGED <<port, timer, walk, calling, owed, submit, collided>>

\* The start of fd_work_queue_impl_process, a tick after the last.
fd_work_queue_process ==
    /\ MainLoop /\ walk = Idle /\ ~ calling
    /\ walk' = [over |-> "work", at |-> 1]
    /\ UNCHANGED <<port, timer, calling, owed, queueVars>>

\* The task of an item is called; the item is free for the next submission before that.
Called(i) ==
    /\ items' = [items EXCEPT ![i].is_queued = FALSE]
    /\ wanted' = {w \in wanted : ~ Holds(items[i], w)}

\* The item the walk has reached: the delay is reduced, and the task called
\* when none is left.
ProcessItem ==
    /\ walk.over = "work" /\ ~ calling
    /\ walk.at \in Counted /\ items[walk.at].is_queued
    /\ IF items[walk.at].delay <= 1
       THEN Called(walk.at) /\ calling' = TRUE /\ UNCHANGED walk
       ELSE /\ items' = [items EXCEPT ![walk.at].delay = @ - 1]
            /\ walk' = [walk EXCEPT !.at = @ + 1]
            /\ UNCHANGED <<wanted, calling>>
    /\ UNCHANGED <<port, timer, owed, item_count, submit, dropped, collided>>

\* The thread of a queue of the zephyr port: the kernel knows the items that are
\* scheduled, counted or not.
fd_work_run(i) ==
    /\ port = "zephyr" /\ items[i].is_queued
    /\ Called(i)
    /\ UNCHANGED <<port, timer, walk, calling, owed, item_count, submit, dropped, collided>>

-----------------------------------------------------------------------------
\* The callback returns; the walk goes on with the next entry.
Return ==
    /\ calling
    /\ calling' = FALSE
    /\ walk' = IF walk = Idle THEN Idle ELSE [walk EXCEPT !.at = @ + 1]
    /\ UNCHANGED <<port, timer, owed, queueVars>>

\* The walk has reached an entry, and it is one that has to be called.
AtEntry == IF walk.over = "timers" THEN walk.at \in Timers ELSE walk.at \in Counted
IsDue == IF walk.over = "timers" THEN timer[walk.at].triggered ELSE items[walk.at].is_queued

\* An entry that is not due is passed over; after the last the walk ends.
Pass ==
    /\ ~ calling /\ walk # Idle
    /\ AtEntry => ~ IsDue
    /\ walk' = IF AtEntry THEN [walk EXCEPT !.at = @ + 1] ELSE Idle
    /\ UNCHANGED <<port, timer, calling, owed, queueVars>>

Submits(c) ==
    \/ \E w \in Work, op \in {"schedule", "cancel"} : SearchItem(c, w, op)
    \/ TakeItem(c) \/ CountItem(c) \/ StoreFunction(c) \/ StoreContext(c)
    \/ ScheduleItem(c) \/ CancelItem(c)

Next ==
    \/ \E t \in Timers : fd_timer_stop(t) \/ \E d \in 1 .. MaxDelay : fd_timer_start(t, d)
    \/ fd_timer_update \/ fd_timer_callback
    \/ \E w \in Work :
           \/ fd_work_queue_cancel_task(w) \/ fd_work_queue_wait_for_task(w)
           \/ \E d \in Ticks : fd_work_queue_submit_with_delay(w, d)
    \/ \E c \in Submitters : Submits(c)
    \/ \E i \in Items : fd_work_run(i)
    \/ fd_work_queue_clear \/ fd_work_queue_process \/ ProcessItem
    \/ Return \/ Pass

Spec == Init /\ [][Next]_tasksVars

-----------------------------------------------------------------------------
TasksTypeOK ==
    /\ timer \in [Timers -> [active : BOOLEAN, triggered : BOOLEAN, countdown : Ticks]]
    /\ item_count \in 0 .. TaskLimit

\* A timer calls back only if it was started and not stopped since, and not
\* before its duration has passed: stopping or restarting it from the callback
\* of another timer takes effect even when it has already been triggered.
TimerFiresWhenDue ==
    [][\A t \in Timers :
          (timer[t].triggered /\ ~ timer'[t].triggered /\ calling' /\ ~ calling) => owed[t] = 0]_tasksVars

\* A task that was submitted, and not cancelled since, is in the queue until it
\* is called, through the steps of other threads that submit and cancel: submitting it
\* from its own callback is not lost.  Two cases are excepted.  A task submitted when
\* the queue is at its limit is dropped, although its caller is told that it is queued
\* (fd_work.c:76-79, fd_work_zephyr.c:117-120).  And item_count++ and the stores that
\* follow it are not one step in the zephyr port (fd_work_zephyr.c:121-122): two first
\* submissions may take one item, or a stale count may give an item a second time, and
\* the task whose item it was has collided until it is submitted again.
SubmittedIsQueued ==
    \A w \in wanted \ (dropped \cup collided) :
        \E i \in Items : (MainLoop => i <= item_count) /\ Holds(items[i], w) /\ items[i].is_queued
=============================================================================
