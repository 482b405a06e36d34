-------------------------------- MODULE Rtos --------------------------------
(***************************************************************************)
(* The cooperative scheduler of subsys/rtos, fd_rtos.c.  Tasks run until   *)
(* they yield, delay or wait for a condition; interrupts end delays and    *)
(* signal the condition between any two of their steps, unless interrupts  *)
(* are disabled.  Task 0 is the sleep task, which stops the processor when *)
(* nothing else can run.  Switching stacks is left out.                    *)
(***************************************************************************)
EXTENDS Naturals

CONSTANTS
    TaskCount,    \* fd_rtos.task_count, the sleep task included
    Priorities    \* the priorities tasks may be given, above that of the sleep task

VARIABLES
    priority,     \* of each task
    runnable,     \* of each task
    task_index,   \* the task that runs
    step,         \* where each task is in the scheduler's code
    delayed,      \* tasks for which schedule_callback has been called
    waiter,       \* condition->task; TaskCount when it is 0
    happened,     \* what the tasks wait for, set by the interrupt that signals
    disabled,     \* interrupts are disabled
    asleep,       \* the processor is stopped
    failed        \* assertion_failure_count is not 0

rtosVars == <<priority, runnable, task_index, step, delayed, waiter, happened, disabled, asleep, failed>>

TaskIds == 0 .. TaskCount - 1
nobody == TaskCount

Init ==
    /\ priority \in [TaskIds -> Priorities \cup {0}]
    /\ \A t \in TaskIds : priority[t] = 0 <=> t = 0
    /\ runnable = [t \in TaskIds |-> TRUE]
    /\ task_index = 0
    /\ step = [t \in TaskIds |-> IF t = 0 THEN "yield" ELSE "run"]  \* fd_rtos_run yields
    /\ delayed = {} /\ waiter = nobody /\ happened = FALSE
    /\ disabled = FALSE /\ asleep = FALSE /\ failed = FALSE

-----------------------------------------------------------------------------
(* fd_rtos_schedule. *)

\* The loop adds its counter to the task chosen so far, not to the task it
\* began with, and so can pass over tasks.
Chosen ==
    LET chosen[i \in 0 .. TaskCount - 1] ==
            IF i = 0 THEN 0
            ELSE LET from == chosen[i - 1]
                     index == IF from + i >= TaskCount THEN from + i - TaskCount ELSE from + i
                     better == runnable[index] /\ priority[index] > priority[from]
                 IN IF better THEN index ELSE from
    IN chosen[TaskCount - 1]

\* PendSV: the running task is suspended and the task to run resumed.
fd_rtos_schedule(t) ==
    /\ task_index = t /\ step[t] = "yield"
    /\ task_index' = Chosen
    /\ step' = [step EXCEPT ![t] = "run"]
    /\ UNCHANGED <<priority, runnable, delayed, waiter, happened, disabled, asleep, failed>>

-----------------------------------------------------------------------------
(* What tasks do. *)

fd_rtos_yield(t) ==
    /\ task_index = t /\ t # 0 /\ step[t] = "run" /\ ~ disabled
    /\ step' = [step EXCEPT ![t] = "yield"]
    /\ UNCHANGED <<priority, runnable, task_index, delayed, waiter, happened, disabled, asleep, failed>>

\* fd_rtos_delay up to fd_rtos_interrupt_enable.
fd_rtos_delay(t) ==
    /\ task_index = t /\ t # 0 /\ step[t] = "run" /\ ~ disabled
    /\ runnable' = [runnable EXCEPT ![t] = FALSE]
    /\ step' = [step EXCEPT ![t] = "delay"]
    /\ UNCHANGED <<priority, task_index, delayed, waiter, happened, disabled, asleep, failed>>

\* The rest of it: schedule_callback, then yield.
ScheduleCallback(t) ==
    /\ task_index = t /\ step[t] = "delay"
    /\ delayed' = delayed \cup {t}
    /\ step' = [step EXCEPT ![t] = "yield"]
    /\ UNCHANGED <<priority, runnable, task_index, waiter, happened, disabled, asleep, failed>>

\* fd_rtos_interrupt_disable before a task looks at what it waits for.
fd_rtos_interrupt_disable(t) ==
    /\ task_index = t /\ t # 0 /\ step[t] = "run" /\ ~ disabled
    /\ disabled' = TRUE
    /\ UNCHANGED <<priority, runnable, task_index, step, delayed, waiter, happened, asleep, failed>>

\* fd_rtos_condition_wait up to interrupt_enable: a second waiter takes the
\* place of the first, which an assertion counts.
fd_rtos_condition_wait(t) ==
    /\ task_index = t /\ disabled /\ t # 0 /\ ~ happened
    /\ failed' = (failed \/ waiter # nobody)
    /\ waiter' = t
    /\ runnable' = [runnable EXCEPT ![t] = FALSE]
    /\ disabled' = FALSE
    /\ step' = [step EXCEPT ![t] = "yield"]
    /\ UNCHANGED <<priority, task_index, delayed, happened, asleep>>

\* The task finds what it waited for, and goes on.
Proceed(t) ==
    /\ task_index = t /\ disabled /\ t # 0 /\ happened
    /\ happened' = FALSE /\ disabled' = FALSE
    /\ UNCHANGED <<priority, runnable, task_index, step, delayed, waiter, asleep, failed>>

-----------------------------------------------------------------------------
(* fd_rtos_sleep_task. *)

SleepDisable ==
    /\ task_index = 0 /\ step[0] = "run" /\ ~ disabled /\ ~ asleep
    /\ disabled' = TRUE
    /\ UNCHANGED <<priority, runnable, task_index, step, delayed, waiter, happened, asleep, failed>>

fd_rtos_is_any_task_runnable == \E t \in TaskIds \ {0} : runnable[t]

\* Mutant: interrupts are enabled again before the processor is stopped, so that
\* what the test found is stale.
SleepTestStale ==
    /\ task_index = 0 /\ step[0] = "run" /\ disabled
    /\ asleep' \in {TRUE, ~ fd_rtos_is_any_task_runnable}
    /\ step' = [step EXCEPT ![0] = "enable"]
    /\ UNCHANGED <<priority, runnable, task_index, delayed, waiter, happened, disabled, failed>>

SleepTest ==
    /\ task_index = 0 /\ step[0] = "run" /\ disabled
    /\ asleep' = ~ fd_rtos_is_any_task_runnable
    /\ step' = [step EXCEPT ![0] = "enable"]
    /\ UNCHANGED <<priority, runnable, task_index, delayed, waiter, happened, disabled, failed>>

\* Once an interrupt has ended the sleep, or there was none.
SleepEnable ==
    /\ task_index = 0 /\ step[0] = "enable" /\ ~ asleep
    /\ disabled' = FALSE
    /\ step' = [step EXCEPT ![0] = "yield"]
    /\ UNCHANGED <<priority, runnable, task_index, delayed, waiter, happened, asleep, failed>>

-----------------------------------------------------------------------------
(* Interrupts.  A pending interrupt ends the sleep although it is only     *)
(* taken once interrupts are enabled again.                                *)

MayInterrupt == ~ disabled \/ asleep

Wakes == asleep' = FALSE /\ disabled' = (disabled /\ ~ asleep)
         /\ step' = IF asleep THEN [step EXCEPT ![0] = "yield"] ELSE step

fd_rtos_delay_callback(t) ==
    /\ MayInterrupt /\ t \in delayed
    /\ runnable' = [runnable EXCEPT ![t] = TRUE]
    /\ delayed' = delayed \ {t}
    /\ Wakes
    /\ UNCHANGED <<priority, task_index, waiter, happened, failed>>

fd_rtos_condition_signal ==
    /\ MayInterrupt
    /\ happened' = TRUE
    /\ runnable' = IF waiter = nobody THEN runnable ELSE [runnable EXCEPT ![waiter] = TRUE]
    /\ waiter' = nobody
    /\ Wakes
    /\ UNCHANGED <<priority, task_index, delayed, failed>>

Next ==
    \/ \E t \in TaskIds :
           \/ fd_rtos_schedule(t) \/ fd_rtos_yield(t) \/ fd_rtos_delay(t) \/ ScheduleCallback(t)
           \/ fd_rtos_interrupt_disable(t) \/ fd_rtos_condition_wait(t) \/ Proceed(t)
           \/ fd_rtos_delay_callback(t)
    \/ SleepDisable \/ SleepTest \/ SleepEnable
    \/ fd_rtos_condition_signal

Spec == Init /\ [][Next]_rtosVars

-----------------------------------------------------------------------------
RtosTypeOK == /\ task_index \in TaskIds /\ waiter \in 0 .. TaskCount
              /\ delayed \subseteq TaskIds

\* No task is forgotten: one that cannot run is on its way into a delay, has a
\* callback scheduled or is the waiter that the next signal makes runnable,
\* unless two tasks waited at once (which the scheduler's assertion counts);
\* and the processor never sleeps while a task could run, however the
\* interrupts fall between the sleep task's test and its sleep.
NoTaskForgotten ==
    /\ ~ failed => \A t \in TaskIds : runnable[t] \/ step[t] = "delay" \/ t \in delayed \/ waiter = t
    /\ asleep => ~ fd_rtos_is_any_task_runnable
=============================================================================
