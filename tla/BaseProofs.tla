----------------------------- MODULE BaseProofs -----------------------------
(***************************************************************************)
(* Proofs about what interrupts, threads and the main loop share in        *)
(* subsys/base and subsys/rtos, for any number of timers, tasks and        *)
(* readers and every size of the buffers.                                  *)
(*                                                                         *)
(* First, what is due is done: timers and work queues (Tasks.tla), the     *)
(* clock of the nRF5 (Clock.tla) and the tasks of fd_rtos (Rtos.tla).      *)
(* Then, what the drivers send and receive keeps its order: the serial     *)
(* drivers (Uart.tla), the USB class (Usb.tla) and the touch sensor        *)
(* (Touch.tla).                                                            *)
(***************************************************************************)
EXTENDS Fifo, Base, Sequences, SequenceTheorems, WellFoundedInduction, TLAPS

-----------------------------------------------------------------------------
(* Tasks: work queues. *)

\* An item of a work queue, and what a thread is doing that calls the queue.
Word == Work \cup {T!Nothing}
Item == [function : Word, context : Word, is_queued : BOOLEAN, delay : Nat]
Call == [at : {"out", "take", "count", "function", "context", "schedule", "cancel"},
         task : Word, item : Nat]
Calling(call) ==
    /\ call \in Call
    /\ call.at # "out" => call.task \in Work
    /\ call.at \notin {"out", "take"} => call.item \in T!Items

\* What every step of the work queues keeps.
QueueTyped ==
    /\ items \in [T!Items -> Item] /\ item_count \in Nat
    /\ wanted \subseteq Work
    /\ \A c \in Submitters : Calling(submit[c].call)
    /\ submit \in [Submitters -> [call : Call, left : Int]]
QueueInv == QueueTyped /\ T!SubmittedIsQueued

\* Reduced by a tick, what is owed is still owed.
LEMMA MinusOneFacts ==
  \A n \in Nat : T!MinusOne(n) \in Nat /\ T!MinusOne(n) <= n
  BY DEF T!MinusOne

\* Who changes one item loses nothing that is still wanted, if the item is then queued
\* for it, or was not queued for it before.
LEMMA ItemChanged ==
  ASSUME QueueInv, NEW i \in T!Items, NEW r \in Item,
         items' = [items EXCEPT ![i] = r],
         port' = port, item_count' \in Nat, T!MainLoop => item_count <= item_count',
         \A v \in wanted' \ (dropped' \cup collided') :
            \/ T!Holds(r, v) /\ r.is_queued /\ (T!MainLoop => i <= item_count')
            \/ /\ v \in wanted \ (dropped \cup collided)
               /\ T!Holds(items[i], v) /\ items[i].is_queued => T!Holds(r, v) /\ r.is_queued
  PROVE  items' \in [T!Items -> Item] /\ T!SubmittedIsQueued'
<1>1. items' \in [T!Items -> Item] /\ items'[i] = r /\ \A j \in T!Items : j # i => items'[j] = items[j]
  BY DEF QueueInv, QueueTyped
<1>2. T!MainLoop' = T!MainLoop /\ item_count \in Nat /\ \A j \in T!Items : j \in Int
  BY DEF T!MainLoop, QueueInv, QueueTyped, T!Items
<1>3. ASSUME NEW v \in wanted' \ (dropped' \cup collided')
      PROVE  \E j \in T!Items : (T!MainLoop => j <= item_count') /\ T!Holds(items'[j], v) /\ items'[j].is_queued
  <2>1. CASE T!Holds(r, v) /\ r.is_queued /\ (T!MainLoop => i <= item_count')
    BY <1>1, <2>1
  <2>2. CASE /\ v \in wanted \ (dropped \cup collided)
             /\ T!Holds(items[i], v) /\ items[i].is_queued => T!Holds(r, v) /\ r.is_queued
    <3>1. PICK j \in T!Items :
             (T!MainLoop => j <= item_count) /\ T!Holds(items[j], v) /\ items[j].is_queued
      BY <2>2 DEF QueueInv, T!SubmittedIsQueued
    <3>2. T!MainLoop => j <= item_count'
      BY <1>2, <3>1
    <3> QED
      BY <1>1, <2>2, <3>1, <3>2
  <2> QED
    BY <2>1, <2>2
<1> QED
  BY <1>1, <1>2, <1>3 DEF T!SubmittedIsQueued, T!Holds

\* Nothing changes but that less is wanted, or that a caller was told so of a task that
\* was dropped.
LEMMA LessWanted ==
  ASSUME QueueInv, UNCHANGED <<items, item_count, port, collided>>, wanted' \subseteq Work,
         wanted' \ dropped' \subseteq wanted \ dropped
  PROVE  items' \in [T!Items -> Item] /\ T!SubmittedIsQueued'
<1>1. T!MainLoop' = T!MainLoop
  BY DEF T!MainLoop
<1> QED
  BY <1>1 DEF QueueInv, QueueTyped, T!SubmittedIsQueued, T!Holds

\* Where a walk is.
WalkInv ==
    walk \in [over : {"nothing", "timers", "work"}, at : Nat] /\ (walk.over # "nothing" => walk.at > 0)

\* The steps of the threads that submit leave alone what the main loop does.
LEMMA SubmitsApart ==
  ASSUME NEW c \in Submitters, T!Submits(c)
  PROVE  UNCHANGED <<port, timer, walk, calling, owed>>
  BY DEF T!Submits, T!SearchItem, T!TakeItem, T!CountItem, T!StoreFunction, T!StoreContext,
         T!ScheduleItem, T!CancelItem, T!Goes, T!Calls

\* A walk over timers or work is at one of them.
LEMMA WalkStep == WalkInv /\ [T!Next]_(T!tasksVars) => WalkInv'
<1> SUFFICES ASSUME WalkInv, [T!Next]_(T!tasksVars) PROVE WalkInv'
  OBVIOUS
<1>1. CASE T!fd_timer_update \/ T!fd_work_queue_process \/ T!Return \/ T!Pass
  BY <1>1 DEF WalkInv, T!fd_timer_update, T!fd_work_queue_process, T!Return, T!Pass, T!Idle
<1>2. CASE T!ProcessItem
  BY <1>2 DEF WalkInv, T!ProcessItem
<1>3. CASE UNCHANGED walk
  BY <1>3 DEF WalkInv
<1> QED
  BY <1>1, <1>2, <1>3, SubmitsApart DEF T!Next, T!tasksVars, T!fd_timer_stop, T!fd_timer_start,
       T!fd_timer_callback, T!fd_work_queue_cancel_task, T!fd_work_queue_wait_for_task,
       T!fd_work_queue_clear, T!fd_work_queue_submit_with_delay, T!fd_work_run

\* One item changes and the counters stay: the shape of most steps.
LEMMA OneItem ==
  ASSUME QueueInv, NEW i \in T!Items, NEW r \in Item,
         items' = [items EXCEPT ![i] = r], UNCHANGED <<port, item_count>>,
         \A v \in wanted' \ (dropped' \cup collided') :
            \/ T!Holds(r, v) /\ r.is_queued /\ (T!MainLoop => i <= item_count)
            \/ /\ v \in wanted \ (dropped \cup collided)
               /\ T!Holds(items[i], v) /\ items[i].is_queued => T!Holds(r, v) /\ r.is_queued
  PROVE  items' \in [T!Items -> Item] /\ item_count' \in Nat /\ T!SubmittedIsQueued'
<1>1. item_count \in Nat /\ item_count' \in Nat /\ item_count' = item_count /\ port' = port
  BY DEF QueueInv, QueueTyped
<1>2. item_count <= item_count'
  BY <1>1
<1>3. \A v \in wanted' \ (dropped' \cup collided') :
            \/ T!Holds(r, v) /\ r.is_queued /\ (T!MainLoop => i <= item_count')
            \/ /\ v \in wanted \ (dropped \cup collided)
               /\ T!Holds(items[i], v) /\ items[i].is_queued => T!Holds(r, v) /\ r.is_queued
  BY <1>1
<1>4. items' \in [T!Items -> Item] /\ T!SubmittedIsQueued'
  BY <1>1, <1>2, <1>3, ItemChanged
<1> QED
  BY <1>1, <1>4

\* A call on the queue of the portable port.
LEMMA PortableKeeps ==
  ASSUME QueueInv, NEW w \in Work, NEW d \in T!Ticks, TaskLimit \in Nat,
         \/ T!fd_work_queue_submit_with_delay(w, d) \/ T!fd_work_queue_cancel_task(w)
         \/ T!fd_work_queue_wait_for_task(w)
  PROVE  QueueInv'
<1>0. /\ d \in Nat /\ UNCHANGED <<port, submit>> /\ T!MainLoop /\ wanted \subseteq Work
      /\ items \in [T!Items -> Item] /\ item_count \in Nat
  BY DEF T!Ticks, T!fd_work_queue_submit_with_delay, T!fd_work_queue_cancel_task, T!MayCall,
         T!fd_work_queue_wait_for_task, QueueInv, QueueTyped
<1> SUFFICES /\ items' \in [T!Items -> Item] /\ item_count' \in Nat /\ wanted' \subseteq Work
             /\ T!SubmittedIsQueued'
  BY <1>0 DEF QueueInv, QueueTyped
<1> DEFINE q == [function |-> w, context |-> w, is_queued |-> TRUE, delay |-> d]
<1>1. q \in Item /\ T!Holds(q, w) /\ q.is_queued
  BY <1>0 DEF Item, Word, T!Holds
<1> HIDE DEF q
<1>2. ASSUME NEW i \in T!Items, T!IsFirst(i, w), wanted' = wanted \cup {w}, dropped' = dropped \ {w},
             UNCHANGED <<item_count, collided>>,
             items' = IF items[i].is_queued THEN items ELSE [items EXCEPT ![i] = q]
      PROVE  T!SubmittedIsQueued' /\ items' \in [T!Items -> Item]
  <2>1. T!Holds(items[i], w) /\ i <= item_count /\ items[i] \in Item
    BY <1>0, <1>2 DEF T!IsFirst, T!ItemsFor, T!Counted
  <2> DEFINE r == IF items[i].is_queued THEN items[i] ELSE q
  <2>2. r \in Item /\ T!Holds(r, w) /\ r.is_queued
    BY <1>1, <2>1
  <2>3. items' = [items EXCEPT ![i] = r]
    BY <1>0, <1>2
  <2>4. ASSUME NEW v \in wanted' \ (dropped' \cup collided'), v # w
        PROVE  /\ v \in wanted \ (dropped \cup collided)
               /\ ~ T!Holds(items[i], v)
    BY <1>2, <2>1, <2>4 DEF T!Holds
  <2> HIDE DEF r
  <2> QED
    BY <1>0, <2>1, <2>2, <2>3, <2>4, <1>2, OneItem
<1>3. ASSUME item_count < TaskLimit, item_count' = item_count + 1,
             items' = [items EXCEPT ![item_count + 1] = q], T!ItemsFor(w) = {},
             wanted' = wanted \cup {w}, dropped' = dropped \ {w}, UNCHANGED collided
      PROVE  T!SubmittedIsQueued' /\ items' \in [T!Items -> Item]
  <2> DEFINE i == item_count + 1
  <2>1. i \in T!Items /\ i \in Nat /\ i > item_count /\ item_count' = i
    BY <1>0, <1>3 DEF T!Items
  <2>2. ASSUME NEW v \in wanted' \ (dropped' \cup collided'), v # w
        PROVE  \E j \in T!Items : j # i /\ j <= item_count' /\ T!Holds(items[j], v) /\ items[j].is_queued
    <3>1. PICK j \in T!Items : j <= item_count /\ T!Holds(items[j], v) /\ items[j].is_queued
      BY <1>0, <1>3, <2>2 DEF QueueInv, T!SubmittedIsQueued
    <3>2. j \in Int
      BY DEF T!Items
    <3> QED
      BY <1>0, <2>1, <3>1, <3>2
  <2>3. items' \in [T!Items -> Item] /\ items'[i] = q /\ \A j \in T!Items : j # i => items'[j] = items[j]
    BY <1>0, <1>1, <1>3, <2>1
  <2>4. ASSUME NEW v \in wanted' \ (dropped' \cup collided')
        PROVE  \E j \in T!Items : j <= item_count' /\ T!Holds(items'[j], v) /\ items'[j].is_queued
    <3>1. CASE v = w
      BY <1>1, <2>1, <2>3, <3>1
    <3>2. CASE v # w
      BY <2>2, <2>3, <3>2
    <3> QED
      BY <3>1, <3>2
  <2> QED
    BY <2>3, <2>4 DEF T!SubmittedIsQueued, T!Holds
<1>4. CASE T!fd_work_queue_submit_with_delay(w, d)
  <2>1. CASE \E i \in T!Items :
               /\ T!IsFirst(i, w)
               /\ IF items[i].is_queued THEN UNCHANGED items ELSE items' = [items EXCEPT ![i] = q]
               /\ wanted' = wanted \cup {w} /\ dropped' = dropped \ {w}
               /\ UNCHANGED <<item_count, collided>>
    BY <1>0, <1>2, <2>1
  <2>2. CASE /\ T!ItemsFor(w) = {} /\ item_count < TaskLimit /\ item_count' = item_count + 1
             /\ items' = [items EXCEPT ![item_count + 1] = q]
             /\ wanted' = wanted \cup {w} /\ dropped' = dropped \ {w} /\ UNCHANGED collided
    BY <1>0, <1>3, <2>2
  <2>3. CASE T!Drops(w)
    BY <1>0, <2>3, LessWanted DEF T!Drops
  <2> QED
    BY <1>4, <2>1, <2>2, <2>3 DEF T!fd_work_queue_submit_with_delay, q
<1>5. ASSUME NEW i \in T!Items, T!IsFirst(i, w), items' = [items EXCEPT ![i].is_queued = FALSE],
             wanted' = wanted \ {w}, dropped' = dropped \ {w} \/ dropped' = dropped,
             UNCHANGED <<item_count, collided>>
      PROVE  T!SubmittedIsQueued' /\ items' \in [T!Items -> Item]
  <2> DEFINE r == [items[i] EXCEPT !.is_queued = FALSE]
  <2>1. T!Holds(items[i], w) /\ items[i] \in Item
    BY <1>0, <1>5 DEF T!IsFirst, T!ItemsFor, T!Counted
  <2>2. r \in Item /\ items' = [items EXCEPT ![i] = r]
    BY <1>5, <2>1 DEF Item
  <2>3. ASSUME NEW v \in wanted' \ (dropped' \cup collided')
        PROVE  v \in wanted \ (dropped \cup collided) /\ ~ T!Holds(items[i], v)
    BY <1>5, <2>1, <2>3 DEF T!Holds
  <2> HIDE DEF r
  <2> QED
    BY <1>0, <1>5, <2>2, <2>3, OneItem
<1>6. CASE T!fd_work_queue_cancel_task(w)
  <2>1. CASE UNCHANGED items
    BY <1>0, <1>6, <2>1, LessWanted DEF T!fd_work_queue_cancel_task, T!Cancelled
  <2> QED
    BY <1>0, <1>5, <1>6, <2>1 DEF T!fd_work_queue_cancel_task, T!Cancelled
<1>7. CASE T!fd_work_queue_wait_for_task(w)
  BY <1>0, <1>5, <1>7 DEF T!fd_work_queue_wait_for_task
<1> QED
  BY <1>4, <1>6, <1>7

\* What a thread goes on to do is typed.
LEMMA CallTyped ==
  ASSUME QueueInv, NEW c \in Submitters, NEW call, Calling(call),
         \/ T!Goes(c, call)
         \/ T!Calls(c, [call |-> call, left |-> submit[c].left - 1])
  PROVE  /\ \A b \in Submitters : Calling(submit'[b].call)
         /\ submit' \in [Submitters -> [call : Call, left : Int]]
         /\ UNCHANGED port
<1>1. PICK l \in Int : submit' = [submit EXCEPT ![c] = [call |-> call, left |-> l]] /\ UNCHANGED port
  <2>1. submit[c] \in [call : Call, left : Int] /\ submit[c].left \in Int /\ submit[c].left - 1 \in Int
    BY DEF QueueInv, QueueTyped
  <2>2. [submit[c] EXCEPT !.call = call] = [call |-> call, left |-> submit[c].left]
    BY <2>1
  <2> QED
    BY <2>1, <2>2 DEF T!Goes, T!Calls
<1>2. call \in Call
  BY DEF Calling
<1> QED
  BY <1>1, <1>2 DEF QueueInv, QueueTyped

\* A call on the queue of the zephyr port, step by step.
LEMMA SubmitsKeep ==
  ASSUME QueueInv, NEW c \in Submitters, TaskLimit \in Nat, T!Submits(c)
  PROVE  QueueInv'
<1> DEFINE i == submit[c].call.item
           w == submit[c].call.task
<1>0. /\ items \in [T!Items -> Item] /\ item_count \in Nat /\ wanted \subseteq Work
      /\ Calling(submit[c].call) /\ submit[c].call \in Call
  BY DEF QueueInv, QueueTyped, Calling
<1>1. T!Out \in Call /\ Calling(T!Out)
  BY DEF T!Out, Call, Calling, Word
<1>2. T!Items \subseteq Nat
  BY DEF T!Items
<1>3. ASSUME NEW v \in Work, NEW op \in {"schedule", "cancel"}, T!SearchItem(c, v, op) PROVE QueueInv'
  <2>1. UNCHANGED <<items, item_count, collided>>
    BY <1>3 DEF T!SearchItem
  <2>2. PICK call : Calling(call) /\ T!Calls(c, [call |-> call, left |-> submit[c].left - 1])
    <3>1. CASE \E j \in T!Items : T!Calls(c, [call |-> [at |-> op, task |-> v, item |-> j], left |-> submit[c].left - 1])
      <4>1. PICK j \in T!Items : T!Calls(c, [call |-> [at |-> op, task |-> v, item |-> j], left |-> submit[c].left - 1])
        BY <3>1
      <4>2. Calling([at |-> op, task |-> v, item |-> j])
        BY <1>2, <4>1 DEF Calling, Call, Word
      <4> QED
        BY <4>1, <4>2
    <3>2. CASE T!Calls(c, [call |-> [at |-> "take", task |-> v, item |-> 0], left |-> submit[c].left - 1])
      <4>1. Calling([at |-> "take", task |-> v, item |-> 0])
        BY DEF Calling, Call, Word
      <4> QED
        BY <3>2, <4>1
    <3>3. CASE T!Calls(c, [call |-> T!Out, left |-> submit[c].left - 1])
      BY <1>1, <3>3
    <3> QED
      BY <1>3, <3>1, <3>2, <3>3 DEF T!SearchItem
  <2>3. wanted' \subseteq Work /\ wanted' \ dropped' \subseteq wanted \ dropped
    BY <1>0, <1>3 DEF T!SearchItem, T!Cancelled
  <2> QED
    BY <1>0, <2>1, <2>2, <2>3, CallTyped, LessWanted DEF QueueInv, QueueTyped
<1>4. CASE T!TakeItem(c)
  <2>0. w \in Work /\ UNCHANGED <<items, item_count, collided>>
    BY <1>0, <1>4 DEF T!TakeItem, T!Drops, Calling
  <2>1. CASE item_count >= TaskLimit
    <3>1. T!Goes(c, T!Out) /\ T!Drops(w)
      BY <1>4, <2>1, Zenon DEF T!TakeItem
    <3>2. wanted' \subseteq Work /\ wanted' \ dropped' \subseteq wanted \ dropped
      BY <1>0, <2>0, <3>1 DEF T!Drops
    <3> QED
      BY <1>0, <1>1, <2>0, <3>1, <3>2, CallTyped, LessWanted DEF QueueInv, QueueTyped
  <2>2. CASE ~ (item_count >= TaskLimit)
    <3> DEFINE call == [at |-> "count", task |-> w, item |-> item_count + 1]
    <3>1. T!Goes(c, call) /\ UNCHANGED <<wanted, dropped>>
      <4>1. T!Goes(c, call) /\ UNCHANGED <<items, item_count, wanted, dropped, collided>>
        BY <1>4, <2>2, Zenon DEF T!TakeItem
      <4> QED
        BY <4>1
    <3>2. item_count + 1 \in T!Items
      BY <1>0, <2>2 DEF T!Items
    <3>3. Calling(call)
      BY <1>0, <2>0, <3>2 DEF Calling, Call, Word
    <3> HIDE DEF call
    <3> QED
      BY <1>0, <2>0, <3>1, <3>3, CallTyped, LessWanted DEF QueueInv, QueueTyped
  <2> QED
    BY <2>1, <2>2
<1>5. ASSUME NEW at \in {"function", "context", "schedule"}, submit[c].call.at \notin {"out", "take"}
      PROVE  Calling([submit[c].call EXCEPT !.at = at])
  <2>1. [submit[c].call EXCEPT !.at = at] = [at |-> at, task |-> w, item |-> i]
    BY <1>0 DEF Call
  <2> QED
    BY <1>0, <1>5, <2>1 DEF Calling, Call
<1>6. CASE T!CountItem(c)
  <2>1. /\ T!Goes(c, [submit[c].call EXCEPT !.at = "function"]) /\ submit[c].call.at = "count"
        /\ item_count' = i /\ UNCHANGED <<items, wanted, dropped, collided>> /\ UNCHANGED port
        /\ port = "zephyr"
    BY <1>6 DEF T!CountItem, T!Goes, T!Calls
  <2>2. i \in Nat /\ ~ T!MainLoop /\ ~ T!MainLoop'
    BY <1>0, <1>2, <2>1 DEF Calling, T!MainLoop
  <2>3. T!SubmittedIsQueued'
    BY <2>1, <2>2 DEF QueueInv, T!SubmittedIsQueued, T!Holds
  <2>4. Calling([submit[c].call EXCEPT !.at = "function"])
    BY <1>5, <2>1
  <2> QED
    BY <1>0, <2>1, <2>2, <2>3, <2>4, CallTyped DEF QueueInv, QueueTyped
<1>7. ASSUME NEW f \in {"function", "context"}, NEW at \in {"context", "schedule"},
             submit[c].call.at \notin {"out", "take"},
             T!Goes(c, [submit[c].call EXCEPT !.at = at]),
             items' = [items EXCEPT ![i] = [@ EXCEPT ![f] = w]],
             collided' = collided \cup T!Others(i, w),
             UNCHANGED <<item_count, wanted, dropped>>
      PROVE  QueueInv'
  <2> DEFINE r == [items[i] EXCEPT ![f] = w]
  <2>1. i \in T!Items /\ w \in Work /\ UNCHANGED port
    BY <1>0, <1>7 DEF Calling, T!Goes, T!Calls
  <2>2. items[i] \in Item /\ w \in Word
    BY <1>0, <2>1 DEF Word
  <2>3. r \in Item /\ items' = [items EXCEPT ![i] = r]
    BY <1>7, <2>1, <2>2 DEF Item
  <2>4. ASSUME NEW v \in wanted' \ (dropped' \cup collided')
        PROVE  /\ v \in wanted \ (dropped \cup collided)
               /\ T!Holds(items[i], v) /\ items[i].is_queued => T!Holds(r, v) /\ r.is_queued
    <3>1. v \in Work /\ v \in wanted \ (dropped \cup collided) /\ v \notin T!Others(i, w)
      BY <1>0, <1>7, <2>4
    <3>2. T!Holds(items[i], v) => v = w
      BY <3>1 DEF T!Others
    <3>3. T!Holds(items[i], w) => r = items[i]
      BY <1>7, <2>2 DEF T!Holds, Item
    <3> QED
      BY <3>1, <3>2, <3>3
  <2>5. Calling([submit[c].call EXCEPT !.at = at])
    BY <1>5, <1>7
  <2> HIDE DEF r
  <2>6. items' \in [T!Items -> Item] /\ T!SubmittedIsQueued'
    BY <1>7, <2>1, <2>3, <2>4, OneItem
  <2> QED
    BY <1>0, <1>7, <2>5, <2>6, CallTyped DEF QueueInv, QueueTyped
<1>8. CASE T!StoreFunction(c) \/ T!StoreContext(c)
  BY <1>7, <1>8 DEF T!StoreFunction, T!StoreContext
<1>9. CASE T!ScheduleItem(c)
  <2> DEFINE r == [items[i] EXCEPT !.is_queued = TRUE]
  <2>1. /\ i \in T!Items /\ w \in Work /\ T!Goes(c, T!Out) /\ UNCHANGED <<port, item_count>>
        /\ ~ T!MainLoop /\ wanted' = wanted \cup {w} /\ dropped' = dropped \ {w}
        /\ collided' = IF T!Holds(items[i], w) THEN collided \ {w} ELSE collided \cup {w}
    BY <1>0, <1>9 DEF T!ScheduleItem, Calling, T!Goes, T!Calls, T!MainLoop
  <2>2. items[i] \in Item
    BY <1>0, <2>1
  <2>3. /\ r \in Item /\ r.is_queued /\ items' = [items EXCEPT ![i] = r]
        /\ \A v : T!Holds(r, v) <=> T!Holds(items[i], v)
    BY <1>9, <2>2 DEF Item, T!ScheduleItem, T!Holds
  <2> HIDE DEF r
  <2>4. items' \in [T!Items -> Item] /\ T!SubmittedIsQueued'
    BY <2>1, <2>3, OneItem
  <2> QED
    BY <1>0, <1>1, <2>1, <2>4, CallTyped DEF QueueInv, QueueTyped
<1>10. CASE T!CancelItem(c)
  <2> DEFINE r == [items[i] EXCEPT !.is_queued = FALSE]
  <2>1. /\ i \in T!Items /\ w \in Work /\ T!Goes(c, T!Out) /\ UNCHANGED <<port, item_count>>
        /\ wanted' = wanted \ {w} /\ dropped' = dropped \ {w}
        /\ collided' = collided \cup T!Others(i, w)
    BY <1>0, <1>10 DEF T!CancelItem, Calling, T!Goes, T!Calls, T!Cancelled
  <2>2. items[i] \in Item
    BY <1>0, <2>1
  <2>3. r \in Item /\ items' = [items EXCEPT ![i] = r]
    BY <1>10, <2>2 DEF Item, T!CancelItem
  <2>4. ASSUME NEW v \in wanted' \ (dropped' \cup collided')
        PROVE  v \in wanted \ (dropped \cup collided) /\ ~ T!Holds(items[i], v)
    BY <1>0, <2>1, <2>4 DEF T!Others
  <2> HIDE DEF r
  <2>5. items' \in [T!Items -> Item] /\ T!SubmittedIsQueued'
    BY <2>1, <2>3, <2>4, OneItem
  <2> QED
    BY <1>0, <1>1, <2>1, <2>5, CallTyped DEF QueueInv, QueueTyped
<1> QED
  BY <1>3, <1>4, <1>6, <1>8, <1>9, <1>10 DEF T!Submits

\* The task of an item is called: nothing of it is wanted any more.
LEMMA CalledKeeps ==
  ASSUME QueueInv, NEW i \in T!Items, T!Called(i),
         UNCHANGED <<port, item_count, submit, dropped, collided>>
  PROVE  QueueInv'
<1> DEFINE r == [items[i] EXCEPT !.is_queued = FALSE]
<1>1. items[i] \in Item
  BY DEF QueueInv, QueueTyped
<1>2. r \in Item /\ items' = [items EXCEPT ![i] = r] /\ wanted' = {w \in wanted : ~ T!Holds(items[i], w)}
  BY <1>1 DEF T!Called, Item
<1> HIDE DEF r
<1>3. items' \in [T!Items -> Item] /\ T!SubmittedIsQueued'
  BY <1>2, OneItem
<1> QED
  BY <1>2, <1>3 DEF QueueInv, QueueTyped

\* A task that was submitted and not cancelled since is in the queue until it is called,
\* but for those that were dropped or collided.
THEOREM NeverLost == ASSUME MaxDelay \in Nat, TaskLimit \in Nat, MaxSubmits \in Nat
                     PROVE  T!Spec => []T!SubmittedIsQueued
<1>1. T!Init => QueueInv
  <2> SUFFICES ASSUME T!Init PROVE QueueInv
    OBVIOUS
  <2>1. T!Empty \in Item /\ T!Out \in Call /\ Calling(T!Out)
    BY DEF T!Empty, T!Out, Item, Word, Call, Calling
  <2>2. /\ items = [i \in T!Items |-> T!Empty] /\ item_count = 0 /\ wanted = {}
        /\ submit = [c \in Submitters |-> [call |-> T!Out, left |-> MaxSubmits]]
    BY DEF T!Init
  <2> QED
    BY <2>1, <2>2 DEF QueueInv, QueueTyped, T!SubmittedIsQueued
<1>2. QueueInv /\ WalkInv /\ [T!Next]_(T!tasksVars) => QueueInv'
  <2> SUFFICES ASSUME QueueInv, WalkInv, [T!Next]_(T!tasksVars) PROVE QueueInv'
    OBVIOUS
  <2>1. CASE UNCHANGED <<T!queueVars, port>>
    BY <2>1 DEF T!queueVars, QueueInv, QueueTyped, T!SubmittedIsQueued, T!MainLoop, T!Holds
  <2>2. ASSUME NEW w \in Work, NEW d \in T!Ticks, T!fd_work_queue_submit_with_delay(w, d)
        PROVE  QueueInv'
    BY <2>2, PortableKeeps
  <2>9. ASSUME NEW w \in Work, T!fd_work_queue_cancel_task(w) \/ T!fd_work_queue_wait_for_task(w)
        PROVE  QueueInv'
    <3>1. 0 \in T!Ticks
      BY DEF T!Ticks
    <3> QED
      BY <2>9, <3>1, PortableKeeps
  <2>3. CASE T!fd_work_queue_clear
    <3>1. T!Empty \in Item /\ T!Items \subseteq Nat
      BY DEF T!Empty, Item, Word, T!Items
    <3>2. /\ items' = [i \in T!Items |-> T!Empty] /\ wanted' = {} /\ item_count' = 0
          /\ UNCHANGED submit
      BY <2>3 DEF T!fd_work_queue_clear
    <3> QED
      BY <3>1, <3>2 DEF T!SubmittedIsQueued, QueueInv, QueueTyped
  <2>4. ASSUME NEW c \in Submitters, T!Submits(c) PROVE QueueInv'
    BY <2>4, SubmitsKeep
  <2>5. ASSUME NEW i \in T!Items, T!fd_work_run(i) PROVE QueueInv'
    BY <2>5, CalledKeeps DEF T!fd_work_run
  <2>6. CASE T!ProcessItem
    <3> DEFINE i == walk.at
               r == [items[i] EXCEPT !.delay = @ - 1]
    <3>1. /\ i \in T!Items /\ items[i].is_queued
          /\ UNCHANGED <<port, item_count, submit, dropped, collided>>
      BY <2>6 DEF T!ProcessItem, T!Counted
    <3>2. items[i] \in Item
      BY <3>1 DEF QueueInv, QueueTyped
    <3>3. CASE items[i].delay <= 1
      BY <2>6, <3>1, <3>2, <3>3, CalledKeeps DEF T!ProcessItem
    <3>4. CASE ~ (items[i].delay <= 1)
      <4>1. r \in Item /\ (r.is_queued <=> items[i].is_queued) /\ \A v : T!Holds(r, v) <=> T!Holds(items[i], v)
        BY <3>2, <3>4 DEF Item, T!Holds
      <4>2. items' = [items EXCEPT ![i] = r] /\ wanted' = wanted
        BY <2>6, <3>4 DEF T!ProcessItem
      <4> HIDE DEF r, i
      <4>3. items' \in [T!Items -> Item] /\ T!SubmittedIsQueued'
        BY <3>1, <3>2, <4>1, <4>2, OneItem
      <4> QED
        BY <3>1, <4>2, <4>3 DEF QueueInv, QueueTyped
    <3> QED
      BY <3>3, <3>4
  <2>7. ASSUME NEW t \in Timers, T!fd_timer_stop(t) \/ (\E d \in 1 .. MaxDelay : T!fd_timer_start(t, d))
        PROVE  UNCHANGED <<T!queueVars, port>>
    BY <2>7 DEF T!fd_timer_stop, T!fd_timer_start
  <2>8. CASE \/ T!fd_timer_update \/ T!fd_timer_callback \/ T!fd_work_queue_process \/ T!Return \/ T!Pass
             \/ UNCHANGED T!tasksVars
    BY <2>1, <2>8 DEF T!fd_timer_update, T!fd_timer_callback, T!fd_work_queue_process, T!Return, T!Pass,
                      T!tasksVars
  <2> QED
    BY <2>1, <2>2, <2>3, <2>4, <2>5, <2>6, <2>7, <2>8, <2>9 DEF T!Next
<1> QED
  <2>1. QueueInv => T!SubmittedIsQueued
    BY DEF QueueInv
  <2>2. T!Init => WalkInv
    BY DEF T!Init, T!Idle, WalkInv
  <2> QED
    BY <1>1, <1>2, <2>1, <2>2, WalkStep, PTL DEF T!Spec

-----------------------------------------------------------------------------
\* A timer.
Timer == [active : BOOLEAN, triggered : BOOLEAN, countdown : Nat]

\* A running timer counts down what is owed, and none that fired is running.
TimerInv ==
    /\ timer \in [Timers -> Timer] /\ owed \in [Timers -> Nat]
    /\ \A t \in Timers :
          /\ timer[t].triggered => ~ timer[t].active /\ owed[t] = 0
          /\ timer[t].active => timer[t].countdown \in 1 .. MaxDelay /\ owed[t] = timer[t].countdown

\* One timer is set, the others stay.
LEMMA TimerSet ==
  ASSUME TimerInv, NEW t \in Timers, NEW r \in Timer, NEW n \in Nat,
         timer' = [timer EXCEPT ![t] = r], owed' = [owed EXCEPT ![t] = n],
         r.triggered => ~ r.active /\ n = 0,
         r.active => r.countdown \in 1 .. MaxDelay /\ n = r.countdown
  PROVE  TimerInv'
  BY DEF TimerInv

\* A tick of one timer.
LEMMA TickFacts ==
  ASSUME NEW r \in Timer, NEW n \in Nat, MaxDelay \in Nat,
         r.triggered => ~ r.active /\ n = 0,
         r.active => r.countdown \in 1 .. MaxDelay /\ n = r.countdown
  PROVE  LET s == T!Scheduled(r)
             m == IF n = T!none THEN T!none ELSE T!MinusOne(n)
         IN  /\ s \in Timer /\ m \in Nat
             /\ s.triggered => ~ s.active /\ m = 0
             /\ s.active => s.countdown \in 1 .. MaxDelay /\ m = s.countdown
             /\ r.triggered => s.triggered
<1>1. CASE ~ r.active
  BY <1>1 DEF Timer, T!Scheduled, T!none, T!MinusOne
<1>2. CASE r.active /\ r.countdown <= 1
  <2>1. T!Scheduled(r) = [active |-> FALSE, triggered |-> TRUE, countdown |-> 0]
    BY <1>2 DEF T!Scheduled
  <2> QED
    BY <1>2, <2>1 DEF Timer, T!none, T!MinusOne
<1>3. CASE r.active /\ ~ (r.countdown <= 1)
  <2>1. T!Scheduled(r) = [r EXCEPT !.countdown = @ - 1]
    BY <1>3 DEF T!Scheduled
  <2>2. T!Scheduled(r) \in Timer /\ (T!Scheduled(r).triggered <=> r.triggered)
    BY <1>3, <2>1 DEF Timer
  <2> QED
    BY <1>3, <2>1, <2>2 DEF Timer, T!none, T!MinusOne
<1> QED
  BY <1>1, <1>2, <1>3

\* A timer calls back only if it is running and its duration has passed.
THEOREM FiresWhenDue == ASSUME MaxDelay \in Nat PROVE T!Spec => T!TimerFiresWhenDue
<1> DEFINE OnlyWhenDue ==
      \A t \in Timers : (timer[t].triggered /\ ~timer'[t].triggered /\ calling' /\ ~calling) => owed[t] = 0
<1>0. T!none \in Nat
  BY DEF T!none
<1>1. T!Init => TimerInv
  <2>1. T!Stopped \in Timer /\ ~ T!Stopped.active /\ ~ T!Stopped.triggered
    BY DEF T!Stopped, Timer
  <2> HIDE DEF Timer
  <2> QED
    BY <1>0, <2>1 DEF T!Init, TimerInv
<1>2. TimerInv /\ [T!Next]_(T!tasksVars) => TimerInv'
  <2> SUFFICES ASSUME TimerInv, [T!Next]_(T!tasksVars) PROVE TimerInv'
    OBVIOUS
  <2>1. CASE UNCHANGED <<timer, owed>>
    BY <2>1 DEF TimerInv
  <2>2. ASSUME NEW t \in Timers, NEW d \in 1 .. MaxDelay, T!fd_timer_start(t, d) PROVE TimerInv'
    <3> DEFINE r == [active |-> TRUE, triggered |-> FALSE, countdown |-> d]
    <3>1. r \in Timer /\ ~ r.triggered /\ r.active /\ r.countdown = d
      BY DEF Timer
    <3>2. timer' = [timer EXCEPT ![t] = r] /\ owed' = [owed EXCEPT ![t] = d] /\ d \in Nat
      BY <2>2 DEF T!fd_timer_start
    <3> HIDE DEF r
    <3> QED
      BY <3>1, <3>2, TimerSet
  <2>3. ASSUME NEW t \in Timers, T!fd_timer_stop(t) PROVE TimerInv'
    <3>1. T!Stopped \in Timer /\ ~ T!Stopped.triggered /\ ~ T!Stopped.active
      BY DEF T!Stopped, Timer
    <3>2. timer' = [timer EXCEPT ![t] = T!Stopped] /\ owed' = [owed EXCEPT ![t] = T!none]
      BY <2>3 DEF T!fd_timer_stop
    <3> QED
      BY <1>0, <3>1, <3>2, TimerSet
  <2>4. CASE T!fd_timer_update
    <3>1. /\ timer' = [t \in Timers |-> T!Scheduled(timer[t])]
          /\ owed' = [t \in Timers |-> IF owed[t] = T!none THEN T!none ELSE T!MinusOne(owed[t])]
      BY <2>4 DEF T!fd_timer_update
    <3>2. ASSUME NEW t \in Timers
          PROVE  /\ timer'[t] \in Timer /\ owed'[t] \in Nat
                 /\ timer'[t].triggered => ~ timer'[t].active /\ owed'[t] = 0
                 /\ timer'[t].active => timer'[t].countdown \in 1 .. MaxDelay /\ owed'[t] = timer'[t].countdown
      <4>1. timer'[t] = T!Scheduled(timer[t])
            /\ owed'[t] = IF owed[t] = T!none THEN T!none ELSE T!MinusOne(owed[t])
        BY <3>1
      <4>2. timer[t] \in Timer /\ owed[t] \in Nat
            /\ (timer[t].triggered => ~ timer[t].active /\ owed[t] = 0)
            /\ (timer[t].active => timer[t].countdown \in 1 .. MaxDelay /\ owed[t] = timer[t].countdown)
        BY DEF TimerInv
      <4> QED
        BY <4>1, <4>2, TickFacts
    <3> QED
      BY <3>1, <3>2 DEF TimerInv
  <2>5. CASE T!fd_timer_callback
    <3> DEFINE t == walk.at
               r == [timer[t] EXCEPT !.triggered = FALSE]
    <3>1. t \in Timers /\ timer[t] \in Timer /\ ~ timer[t].active
      BY <2>5 DEF T!fd_timer_callback, TimerInv
    <3>2. r \in Timer /\ ~ r.triggered /\ ~ r.active
      BY <3>1 DEF Timer
    <3>3. timer' = [timer EXCEPT ![t] = r] /\ owed' = [owed EXCEPT ![t] = T!none]
      BY <2>5 DEF T!fd_timer_callback
    <3> HIDE DEF r, t
    <3> QED
      BY <1>0, <3>1, <3>2, <3>3, TimerSet
  <2>6. CASE UNCHANGED T!tasksVars
    BY <2>1, <2>6 DEF T!tasksVars
  <2> QED
    BY <2>1, <2>2, <2>3, <2>4, <2>5, <2>6, SubmitsApart DEF T!Next, T!fd_work_queue_cancel_task,
       T!fd_work_queue_wait_for_task, T!fd_work_queue_clear, T!fd_work_queue_submit_with_delay,
       T!fd_work_queue_process, T!ProcessItem, T!fd_work_run, T!Return, T!Pass
<1>3. TimerInv /\ [T!Next]_(T!tasksVars) => [OnlyWhenDue]_(T!tasksVars)
  <2> SUFFICES ASSUME TimerInv, NEW t \in Timers, timer[t].triggered
               PROVE  owed[t] = 0
    OBVIOUS
  <2> QED
    BY DEF TimerInv
<1> QED
  BY <1>1, <1>2, <1>3, PTL DEF T!Spec, T!TimerFiresWhenDue

-----------------------------------------------------------------------------
(* Clock. *)

\* Whole seconds taken out of a number of ticks.
LEMMA DivIsUnique ==
  ASSUME NEW a \in Int, NEW t \in Nat \ {0}, NEW q \in Int, NEW r \in 0 .. t - 1, a = t * q + r
  PROVE  a \div t = q
  OBVIOUS

\* Seconds and ticks: the whole seconds come out of the ticks.
LEMMA WholeSeconds ==
  ASSUME NEW base \in Nat, NEW offset \in Nat, NEW t \in Nat \ {0}
  PROVE  (base * t + offset) \div t = base + (offset \div t)
<1> DEFINE q == offset \div t
           r == offset % t
<1>1. q \in Int /\ r \in 0 .. t - 1 /\ offset = t * q + r
  OBVIOUS
<1> HIDE DEF q, r
<1>2. base * t + offset = t * (base + q) + r /\ base * t + offset \in Int /\ base + q \in Int
  BY <1>1
<1>3. (base * t + offset) \div t = base + q
  BY <1>1, <1>2, DivIsUnique
<1> QED
  BY <1>3 DEF q

\* The base, moved on by whole seconds.
LEMMA OneMoreWrap ==
  ASSUME NEW base \in Nat, NEW s \in Nat, NEW t \in Nat
  PROVE  (base + s) * t = base * t + s * t
  OBVIOUS

-----------------------------------------------------------------------------
\* The clock, and what its readers have.
RtcTyped ==
    rtc \in [counter : Nat, running : BOOLEAN, overflow : BOOLEAN, enabled : BOOLEAN, utc_base : Nat,
             is_set : BOOLEAN, configuration : {K!NotSet} \cup ClockConfigurations]
ReaderRecord ==
    [at : {"idle", "masked", "based", "counted", "read"}, is_set : BOOLEAN, base : Nat, offset : Nat,
     truth : Nat, wrapped : BOOLEAN, disturbed : BOOLEAN]
ClockTyped ==
    /\ RtcTyped /\ reading \in [Readers -> ReaderRecord]
    /\ truth \in [ticks : Nat, stray : BOOLEAN]
    /\ setting = << >> \/ \E utc \in UtcTimes : setting = << utc >>

\* The seconds of a wrap that is still to be counted, in ticks.
Due(wrapped) == IF wrapped THEN K!Wrap ELSE 0

\* What a reader has is right, once it is counted, or is right together with the
\* counter, before.
ReaderKnows(g) ==
    /\ ~g.disturbed /\ g.at \in {"masked", "based"} => setting = << >> /\ ~truth.stray
    /\ ~g.disturbed /\ g.at = "based" =>
          (g.base * TicksPerSecond) + rtc.counter + Due(g.wrapped) = truth.ticks
    /\ ~g.disturbed /\ g.at \in {"counted", "read"} =>
          (g.base * TicksPerSecond) + g.offset + Due(g.wrapped) = g.truth

\* What every step of the clock keeps.
ClockInv ==
    /\ ClockTyped
    /\ rtc.counter < K!Wrap
    /\ setting # << >> => ~rtc.running /\ rtc.counter = 0
    /\ K!KeepsTime
    /\ \A r \in Readers : ReaderKnows(reading[r])

\* The counter wraps after a positive number of ticks.
LEMMA WrapIsNat == K!ClockAssumption => K!Wrap \in Nat \ {0}
  BY DEF K!ClockAssumption, K!Wrap

\* The clock is not set and nobody reads.
LEMMA ClockStarts == ASSUME K!ClockAssumption PROVE K!Init => ClockInv
<1> SUFFICES ASSUME K!Init PROVE ClockInv
  OBVIOUS
<1>1. ClockTyped
  BY DEF K!Init, ClockTyped, RtcTyped, ReaderRecord, K!IdleReader
<1>2. K!KeepsTime /\ rtc.counter < K!Wrap
  BY WrapIsNat DEF K!Init, K!KeepsTime, K!ClockAssumption
<1>3. \A r \in Readers : ReaderKnows(reading[r])
  BY DEF K!Init, K!IdleReader, ReaderKnows
<1> QED
  BY <1>1, <1>2, <1>3 DEF ClockInv, K!Init

\* The counter counts on, and wraps.
LEMMA TickKeeps == ASSUME K!ClockAssumption, ClockInv, K!Tick PROVE ClockInv'
<1> DEFINE counter == (rtc.counter + 1) % K!Wrap
           wraps == rtc.counter = K!Wrap - 1
<1>1. /\ rtc.running /\ ~(K!Behind /\ wraps) /\ UNCHANGED setting
      /\ rtc' = [rtc EXCEPT !.counter = counter, !.overflow = rtc.overflow \/ wraps]
      /\ truth' = [truth EXCEPT !.ticks = truth.ticks + 1]
      /\ reading' = [r \in Readers |-> IF reading[r].at = "based" /\ wraps
                                       THEN [reading[r] EXCEPT !.wrapped = TRUE] ELSE reading[r]]
  BY DEF K!Tick
<1>2. rtc.counter \in Nat /\ rtc.counter < K!Wrap /\ K!Wrap \in Nat \ {0} /\ truth.ticks \in Nat
  BY WrapIsNat DEF ClockInv, ClockTyped, RtcTyped
<1>3. /\ counter \in Nat /\ counter < K!Wrap
      /\ wraps => counter = 0
      /\ ~wraps => counter = rtc.counter + 1
  <2>1. CASE wraps
    BY <1>2, <2>1
  <2>2. CASE ~wraps
    <3>1. rtc.counter + 1 \in 0 .. K!Wrap - 1
      BY <1>2, <2>2
    <3>2. (rtc.counter + 1) % K!Wrap = rtc.counter + 1
      BY <1>2, <3>1
    <3> QED
      BY <1>2, <2>2, <3>1, <3>2
  <2> QED
    BY <2>1, <2>2
<1> HIDE DEF counter
<1>4. /\ rtc'.counter = counter /\ rtc'.utc_base = rtc.utc_base
      /\ rtc'.running = rtc.running /\ rtc' \in [counter : Nat, running : BOOLEAN, overflow : BOOLEAN, enabled : BOOLEAN, utc_base : Nat,
             is_set : BOOLEAN, configuration : {K!NotSet} \cup ClockConfigurations]
  BY <1>1, <1>3 DEF ClockInv, ClockTyped, RtcTyped
<1>5. rtc'.overflow <=> (rtc.overflow \/ wraps)
  BY <1>1 DEF ClockInv, ClockTyped, RtcTyped
<1>6. truth'.ticks = truth.ticks + 1 /\ (truth'.stray <=> truth.stray) /\ truth' \in [ticks : Nat, stray : BOOLEAN]
  <2> DEFINE n == truth.ticks + 1
  <2>1. n \in Nat /\ truth' = [truth EXCEPT !.ticks = n]
    BY <1>1, <1>2
  <2> HIDE DEF n
  <2>2. truth'.ticks = n /\ (truth'.stray <=> truth.stray) /\ truth' \in [ticks : Nat, stray : BOOLEAN]
    BY <2>1 DEF ClockInv, ClockTyped
  <2> QED
    BY <2>2 DEF n
<1>7. K!KeepsTime'
  <2>1. setting = << >> /\ ~truth.stray =>
           (rtc.utc_base * TicksPerSecond) + rtc.counter + Due(rtc.overflow) = truth.ticks
    BY DEF ClockInv, K!KeepsTime, Due
  <2>2. wraps => ~rtc.overflow
    BY <1>1 DEF K!Behind
  <2>3. rtc.utc_base * TicksPerSecond \in Nat
    BY DEF ClockInv, ClockTyped, RtcTyped, K!ClockAssumption
  <2>4. counter + Due(rtc'.overflow) = rtc.counter + Due(rtc.overflow) + 1
    BY <1>2, <1>3, <1>5, <2>2 DEF Due
  <2> QED
    <3> DEFINE base == rtc.utc_base * TicksPerSecond
    <3>1. Due(rtc.overflow) \in Nat /\ Due(rtc'.overflow) \in Nat /\ base \in Nat
      BY <1>2, <2>3 DEF Due
    <3> SUFFICES ASSUME setting' = << >>, ~truth'.stray
                 PROVE  (rtc'.utc_base * TicksPerSecond) + rtc'.counter + Due(rtc'.overflow) = truth'.ticks
      BY DEF K!KeepsTime, Due
    <3>2. base + rtc.counter + Due(rtc.overflow) = truth.ticks
      BY <1>1, <1>6, <2>1
    <3>3. rtc'.utc_base * TicksPerSecond = base
      BY <1>4
    <3> DEFINE before == Due(rtc.overflow)
               after == Due(rtc'.overflow)
    <3>4. rtc'.counter = counter /\ truth'.ticks = truth.ticks + 1
      BY <1>4, <1>6
    <3> HIDE DEF base, before, after
    <3>5. base + counter + after = truth.ticks + 1
      <4>1. before \in Nat /\ after \in Nat /\ base \in Nat /\ counter + after = rtc.counter + before + 1
            /\ base + rtc.counter + before = truth.ticks
        BY <2>4, <3>1, <3>2 DEF before, after
      <4>2. rtc.counter \in Nat /\ counter \in Nat
        BY <1>2, <1>3
      <4> QED
        BY ONLY <4>1, <4>2
    <3> QED
      BY <3>3, <3>4, <3>5 DEF after
<1>8. ASSUME NEW r \in Readers
      PROVE  reading'[r] \in ReaderRecord /\ ReaderKnows(reading[r])'
  <2>0. reading[r] \in ReaderRecord /\ ReaderKnows(reading[r])
    BY DEF ClockInv, ClockTyped
  <2>1. CASE reading[r].at = "based" /\ wraps
    <3>1. reading'[r] = [reading[r] EXCEPT !.wrapped = TRUE] /\ ~reading[r].wrapped
      BY <1>1, <2>1 DEF K!Behind
    <3> DEFINE g == reading'[r]
    <3>2. /\ g \in ReaderRecord /\ g.at = "based" /\ g.base = reading[r].base /\ g.wrapped
          /\ g.disturbed <=> reading[r].disturbed
      BY <2>0, <2>1, <3>1 DEF ReaderRecord
    <3>3. reading[r].base * TicksPerSecond \in Nat
      BY <2>0 DEF ReaderRecord, K!ClockAssumption
    <3>4. ~g.disturbed => (reading[r].base * TicksPerSecond) + rtc.counter + Due(reading[r].wrapped) = truth.ticks
      BY <2>0, <2>1, <3>2 DEF ReaderKnows
    <3>5. Due(reading[r].wrapped) = 0 /\ Due(g.wrapped) = K!Wrap
      BY <3>1, <3>2 DEF Due
    <3>6. ~g.disturbed => (reading[r].base * TicksPerSecond) + counter + Due(g.wrapped) = truth.ticks + 1
      <4> DEFINE base == reading[r].base * TicksPerSecond
      <4>1. base \in Nat /\ (~g.disturbed => base + rtc.counter + 0 = truth.ticks)
        BY <3>3, <3>4, <3>5
      <4> HIDE DEF base, g
      <4>2. ~g.disturbed => base + counter + K!Wrap = truth.ticks + 1
        BY <1>2, <1>3, <2>1, <4>1
      <4> QED
        BY <3>5, <4>2 DEF base
    <3>7. ~g.disturbed => setting' = << >> /\ ~truth'.stray
      BY <1>1, <1>6, <2>0, <2>1, <3>2 DEF ReaderKnows
    <3>8. ~g.disturbed => (g.base * TicksPerSecond) + rtc'.counter + Due(g.wrapped) = truth'.ticks
      BY <1>4, <1>6, <3>2, <3>6
    <3> QED
      BY <3>2, <3>7, <3>8 DEF ReaderKnows, Due
  <2>2. CASE reading[r].at = "based" /\ ~wraps
    <3> DEFINE g == reading[r]
    <3>1. reading'[r] = g
      BY <1>1, <2>2
    <3>2. ~g.disturbed => setting' = << >> /\ ~truth'.stray
      BY <1>1, <1>6, <2>0, <2>2 DEF ReaderKnows
    <3>3. ~g.disturbed => (g.base * TicksPerSecond) + rtc'.counter + Due(g.wrapped) = truth'.ticks
      <4> DEFINE base == g.base * TicksPerSecond
                 due == Due(g.wrapped)
      <4>1. base \in Nat /\ due \in Nat
        BY <1>2, <2>0 DEF ReaderRecord, K!ClockAssumption, Due
      <4>2. ~g.disturbed => base + rtc.counter + due = truth.ticks
        BY <2>0, <2>2 DEF ReaderKnows
      <4>3. rtc'.counter = rtc.counter + 1 /\ truth'.ticks = truth.ticks + 1
        BY <1>3, <1>4, <1>6, <2>2
      <4> HIDE DEF base, due, g
      <4>4. ~g.disturbed => base + rtc'.counter + due = truth'.ticks
        BY <1>2, <4>1, <4>2, <4>3
      <4> QED
        BY <4>4 DEF base, due
    <3> QED
      BY <2>0, <2>2, <3>1, <3>2, <3>3 DEF ReaderKnows, Due
  <2>3. CASE reading[r].at # "based"
    <3>1. reading'[r] = reading[r]
      BY <1>1, <2>3
    <3> QED
      BY <1>1, <1>6, <2>0, <2>3, <3>1 DEF ReaderKnows, Due
  <2> QED
    BY <2>1, <2>2, <2>3
<1>9. reading' \in [Readers -> ReaderRecord]
  BY <1>1, <1>8
<1> QED
  BY <1>1, <1>3, <1>4, <1>6, <1>7, <1>8, <1>9 DEF ClockInv, ClockTyped, RtcTyped

\* The interrupt adds the seconds of the wrap.
LEMMA OverflowKeeps == ASSUME K!ClockAssumption, ClockInv, K!fd_rtc_irq_handler PROVE ClockInv'
<1> DEFINE base == rtc.utc_base + SecondsPerOverflow
<1>1. /\ rtc.overflow /\ UNCHANGED <<reading, setting, truth>>
      /\ rtc' = [rtc EXCEPT !.overflow = FALSE, !.utc_base = base]
  BY DEF K!fd_rtc_irq_handler
<1>2. /\ rtc.utc_base \in Nat /\ SecondsPerOverflow \in Nat /\ TicksPerSecond \in Nat /\ base \in Nat
      /\ rtc.counter \in Nat /\ K!Wrap \in Nat /\ K!Wrap = SecondsPerOverflow * TicksPerSecond
      /\ truth.ticks \in Nat
  BY WrapIsNat DEF ClockInv, ClockTyped, RtcTyped, K!ClockAssumption, K!Wrap
<1> HIDE DEF base
<1>3. /\ rtc'.utc_base = base /\ ~rtc'.overflow /\ rtc'.counter = rtc.counter
      /\ (rtc'.running <=> rtc.running) /\ RtcTyped'
  BY <1>1, <1>2 DEF ClockInv, ClockTyped, RtcTyped
<1>4. K!KeepsTime'
  <2>1. base * TicksPerSecond = rtc.utc_base * TicksPerSecond + K!Wrap
    BY <1>2, OneMoreWrap DEF base
  <2>2. setting = << >> /\ ~truth.stray =>
           (rtc.utc_base * TicksPerSecond) + rtc.counter + K!Wrap = truth.ticks
    BY <1>1 DEF ClockInv, K!KeepsTime
  <2> DEFINE p == rtc.utc_base * TicksPerSecond
  <2>3. p \in Nat
    BY <1>2
  <2> HIDE DEF p
  <2>4. (p + K!Wrap) + rtc.counter + 0 = p + rtc.counter + K!Wrap
    BY <1>2, <2>3
  <2> QED
    BY <1>1, <1>3, <2>1, <2>2, <2>4 DEF K!KeepsTime, p
<1> QED
  BY <1>1, <1>3, <1>4 DEF ClockInv, ClockTyped, ReaderKnows, Due

\* Setting the time: who reads meanwhile is disturbed.
LEMMA DisturbedReader ==
  ASSUME ClockInv, reading' = K!Disturbed, NEW r \in Readers
  PROVE  reading'[r] \in ReaderRecord /\ ReaderKnows(reading[r])'
<1> DEFINE g == reading[r]
<1>1. g \in ReaderRecord /\ ReaderKnows(g)
  BY DEF ClockInv, ClockTyped
<1>2. CASE g.at \in {"idle", "read"}
  <2>1. reading'[r] = g
    BY <1>2 DEF K!Disturbed, K!Idle
  <2> QED
    BY <1>1, <1>2, <2>1 DEF ReaderKnows, Due
<1>3. CASE g.at \notin {"idle", "read"}
  <2>1. reading'[r] = [g EXCEPT !.disturbed = TRUE]
    BY <1>3 DEF K!Disturbed, K!Idle
  <2> DEFINE g1 == reading'[r]
  <2>2. g1 \in ReaderRecord /\ g1.disturbed
    BY <1>1, <2>1 DEF ReaderRecord
  <2> QED
    BY <2>2 DEF ReaderKnows
<1> QED
  BY <1>2, <1>3

\* fd_rtc_set_utc, from stopping the counter to starting it.
LEMMA SetKeeps ==
  ASSUME K!ClockAssumption, ClockInv, K!SetTime \/ K!SetStarts
  PROVE  ClockInv'
<1>1. reading' = K!Disturbed
  BY DEF K!SetTime, K!SetStops, K!SetStarts
<1>2. \A r \in Readers : reading'[r] \in ReaderRecord /\ ReaderKnows(reading[r])'
  BY <1>1, DisturbedReader
<1>3. reading' \in [Readers -> ReaderRecord]
  BY <1>1, <1>2 DEF K!Disturbed
<1>4. CASE K!SetTime
  <2>1. PICK utc \in UtcTimes : K!SetStops(utc)
    BY <1>4 DEF K!SetTime
  <2>2. rtc' = [rtc EXCEPT !.running = FALSE, !.counter = 0] /\ setting' = <<utc>> /\ UNCHANGED truth
    BY <2>1 DEF K!SetStops
  <2>3. RtcTyped' /\ ~rtc'.running /\ rtc'.counter = 0
    BY <2>2 DEF ClockInv, ClockTyped, RtcTyped
  <2>4. ~(setting' = << >>)
    BY <2>2
  <2> QED
    BY <1>2, <1>3, <2>2, <2>3, <2>4, WrapIsNat DEF ClockInv, ClockTyped, K!KeepsTime
<1>5. CASE K!SetStarts
  <2>1. PICK utc \in UtcTimes : setting = <<utc>>
    BY <1>5 DEF K!SetStarts, ClockInv, ClockTyped
  <2>2. utc \in Nat /\ TicksPerSecond \in Nat /\ utc * TicksPerSecond \in Nat
    BY DEF K!ClockAssumption
  <2>3. /\ rtc' = [rtc EXCEPT !.utc_base = utc, !.running = TRUE, !.is_set = TRUE]
        /\ truth' = [ticks |-> utc * TicksPerSecond, stray |-> rtc.overflow]
        /\ setting' = << >> /\ rtc.counter = 0
    BY <1>5, <2>1 DEF K!SetStarts, ClockInv
  <2>4. /\ rtc'.utc_base = utc /\ rtc'.counter = 0 /\ (rtc'.overflow <=> rtc.overflow) /\ RtcTyped'
    BY <2>2, <2>3 DEF ClockInv, ClockTyped, RtcTyped
  <2>5. truth' \in [ticks : Nat, stray : BOOLEAN] /\ (truth'.stray <=> rtc.overflow)
        /\ truth'.ticks = utc * TicksPerSecond
    BY <2>2, <2>3 DEF ClockInv, ClockTyped, RtcTyped
  <2>6. K!KeepsTime'
    <3> SUFFICES ASSUME ~truth'.stray
                 PROVE  (rtc'.utc_base * TicksPerSecond) + rtc'.counter
                            + (IF rtc'.overflow THEN K!Wrap ELSE 0) = truth'.ticks
      BY DEF K!KeepsTime
    <3>1. ~rtc'.overflow
      BY <2>4, <2>5
    <3> QED
      BY <2>2, <2>4, <2>5, <3>1
  <2> QED
    BY <1>2, <1>3, <2>3, <2>4, <2>5, <2>6, WrapIsNat DEF ClockInv, ClockTyped
<1> QED
  BY <1>4, <1>5

\* fd_rtc_get_count, of one reader; the others keep what they have.
LEMMA GetKeeps ==
  ASSUME K!ClockAssumption, ClockInv, NEW r \in Readers,
         K!GetMasks(r) \/ K!GetsBase(r) \/ K!GetsCounter(r) \/ K!GetUnmasks(r)
  PROVE  ClockInv'
<1> DEFINE g == reading[r]
           g1 == reading'[r]
<1>1. g \in ReaderRecord /\ ReaderKnows(g)
  BY DEF ClockInv, ClockTyped
<1>2. /\ UNCHANGED <<setting, truth>> /\ rtc'.counter = rtc.counter /\ rtc'.utc_base = rtc.utc_base
      /\ (rtc'.overflow <=> rtc.overflow) /\ (rtc'.running <=> rtc.running) /\ RtcTyped'
  <2>1. rtc' = rtc \/ rtc' = [rtc EXCEPT !.enabled = TRUE] \/ rtc' = [rtc EXCEPT !.enabled = FALSE]
    BY DEF K!GetMasks, K!GetsBase, K!GetsCounter, K!GetUnmasks
  <2>2. UNCHANGED <<setting, truth>>
    BY DEF K!GetMasks, K!GetsBase, K!GetsCounter, K!GetUnmasks
  <2> QED
    BY <2>1, <2>2 DEF ClockInv, ClockTyped, RtcTyped
<1>3. /\ \A o \in Readers \ {r} : reading'[o] = reading[o]
      /\ g1 \in ReaderRecord => reading' \in [Readers -> ReaderRecord]
  BY DEF K!GetMasks, K!GetsBase, K!GetsCounter, K!GetUnmasks, ClockInv, ClockTyped
<1>4. rtc.counter \in Nat /\ truth.ticks \in Nat /\ rtc.utc_base \in Nat
  BY DEF ClockInv, ClockTyped, RtcTyped
<1>5. g1 \in ReaderRecord /\ ReaderKnows(reading[r])'
  <2>1. CASE K!GetMasks(r)
    <3> DEFINE disturbed == setting # <<>> \/ truth.stray
           set == rtc.is_set
    <3>1. g1 = [K!IdleReader EXCEPT !.at = "masked", !.is_set = set, !.disturbed = disturbed]
      BY <2>1 DEF K!GetMasks, ClockInv, ClockTyped
    <3>2. disturbed \in BOOLEAN /\ set \in BOOLEAN
      BY DEF ClockInv, ClockTyped, RtcTyped
    <3> HIDE DEF disturbed, set, g1
    <3>4. g1 = [at |-> "masked", is_set |-> set, base |-> 0, offset |-> 0, truth |-> 0,
                wrapped |-> FALSE, disturbed |-> disturbed]
      BY <3>1 DEF K!IdleReader
    <3>5. g1 \in ReaderRecord
      BY <3>2, <3>4 DEF ReaderRecord
    <3>6. g1.at = "masked" /\ (g1.disturbed <=> disturbed)
      BY <3>4
    <3>3. g1 \in ReaderRecord /\ g1.at = "masked" /\ (g1.disturbed <=> disturbed)
      BY <3>5, <3>6
    <3> QED
      BY <1>2, <3>3 DEF ReaderKnows, disturbed, g1
  <2>2. CASE K!GetsBase(r)
    <3>1. /\ g.at = "masked"
          /\ g1 = [g EXCEPT !.at = "based", !.base = rtc.utc_base, !.wrapped = rtc.overflow]
      BY <2>2 DEF K!GetsBase, ClockInv, ClockTyped
    <3>2. rtc.overflow \in BOOLEAN
      BY DEF ClockInv, ClockTyped, RtcTyped
    <3>3. g1 \in ReaderRecord /\ g1.at = "based" /\ g1.base = rtc.utc_base
          /\ (g1.wrapped <=> rtc.overflow) /\ (g1.disturbed <=> g.disturbed)
      BY <1>1, <1>4, <3>1, <3>2 DEF ReaderRecord
    <3>4. ~g.disturbed => setting = << >> /\ ~truth.stray
      BY <1>1, <3>1 DEF ReaderKnows
    <3>5. ~g1.disturbed => (g1.base * TicksPerSecond) + rtc'.counter + Due(g1.wrapped) = truth'.ticks
      BY <1>2, <3>3, <3>4 DEF ClockInv, K!KeepsTime, Due
    <3> QED
      BY <1>2, <3>3, <3>4, <3>5 DEF ReaderKnows, Due
  <2>3. CASE K!GetsCounter(r)
    <3>1. /\ g.at = "based"
          /\ g1 = [g EXCEPT !.at = "counted", !.offset = rtc.counter, !.truth = truth.ticks]
      BY <2>3 DEF K!GetsCounter, ClockInv, ClockTyped
    <3>2. g1 \in ReaderRecord /\ g1.at = "counted" /\ g1.base = g.base /\ g1.offset = rtc.counter
          /\ g1.truth = truth.ticks /\ (g1.wrapped <=> g.wrapped) /\ (g1.disturbed <=> g.disturbed)
      BY <1>1, <1>4, <3>1 DEF ReaderRecord
    <3>3. ~g1.disturbed => (g1.base * TicksPerSecond) + g1.offset + Due(g1.wrapped) = g1.truth
      BY <1>1, <3>1, <3>2 DEF ReaderKnows, Due
    <3> QED
      BY <3>2, <3>3 DEF ReaderKnows, Due
  <2>4. CASE K!GetUnmasks(r)
    <3>1. g.at = "counted" /\ g1 = [g EXCEPT !.at = "read"]
      BY <2>4 DEF K!GetUnmasks, ClockInv, ClockTyped
    <3>2. g1 \in ReaderRecord /\ g1.at = "read" /\ g1.base = g.base /\ g1.offset = g.offset
          /\ g1.truth = g.truth /\ (g1.wrapped <=> g.wrapped) /\ (g1.disturbed <=> g.disturbed)
      BY <1>1, <3>1 DEF ReaderRecord
    <3>3. ~g1.disturbed => (g1.base * TicksPerSecond) + g1.offset + Due(g1.wrapped) = g1.truth
      BY <1>1, <3>1, <3>2 DEF ReaderKnows, Due
    <3> QED
      BY <3>2, <3>3 DEF ReaderKnows, Due
  <2> QED
    BY <2>1, <2>2, <2>3, <2>4
<1>6. \A o \in Readers \ {r} : ReaderKnows(reading[o])'
  <2> SUFFICES ASSUME NEW o \in Readers \ {r} PROVE ReaderKnows(reading[o])'
    OBVIOUS
  <2>1. ReaderKnows(reading[o]) /\ reading'[o] = reading[o]
    BY <1>3 DEF ClockInv
  <2> QED
    BY <1>2, <2>1 DEF ReaderKnows, Due
<1>7. K!KeepsTime'
  BY <1>2 DEF ClockInv, K!KeepsTime
<1> QED
  BY <1>2, <1>3, <1>5, <1>6, <1>7 DEF ClockInv, ClockTyped

\* Every step keeps the invariant.
LEMMA ClockKeeps == ASSUME K!ClockAssumption, ClockInv, [K!Next]_(K!clockVars) PROVE ClockInv'
<1>1. CASE UNCHANGED <<reading, setting, truth>> /\ RtcTyped' /\ rtc'.counter = rtc.counter
           /\ rtc'.utc_base = rtc.utc_base /\ (rtc'.overflow <=> rtc.overflow) /\ (rtc'.running <=> rtc.running)
  BY <1>1 DEF ClockInv, ClockTyped, K!KeepsTime, ReaderKnows, Due
<1>2. CASE K!GetConfiguration \/ UNCHANGED K!clockVars
  BY <1>1, <1>2 DEF K!GetConfiguration, K!clockVars, ClockInv, ClockTyped, RtcTyped
<1>3. CASE K!SetConfiguration
  <2>1. PICK c \in ClockConfigurations : rtc' = [rtc EXCEPT !.configuration = c]
    BY <1>3 DEF K!SetConfiguration
  <2>2. UNCHANGED <<reading, setting, truth>>
    BY <1>3 DEF K!SetConfiguration
  <2>3. RtcTyped' /\ rtc'.counter = rtc.counter /\ rtc'.utc_base = rtc.utc_base
        /\ (rtc'.overflow <=> rtc.overflow) /\ (rtc'.running <=> rtc.running)
    BY <2>1 DEF ClockInv, ClockTyped, RtcTyped
  <2> QED
    BY <1>1, <2>2, <2>3
<1> QED
  BY <1>2, <1>3, TickKeeps, OverflowKeeps, SetKeeps, GetKeeps DEF K!Next

\* What a thread has read follows.
LEMMA ClockAgrees == ASSUME K!ClockAssumption, ClockInv PROVE K!TimeAgrees
<1>1. ASSUME NEW r \in Readers, reading[r].at = "read", ~reading[r].disturbed
      PROVE  /\ K!UtcPrecise(reading[r]) + (IF reading[r].wrapped THEN K!Wrap ELSE 0) = reading[r].truth
             /\ ~reading[r].wrapped => K!Utc(reading[r]) = reading[r].truth \div TicksPerSecond
  <2> DEFINE g == reading[r]
  <2>1. g.base \in Nat /\ g.offset \in Nat /\ TicksPerSecond \in Nat \ {0} /\ ReaderKnows(g)
    BY DEF ClockInv, ClockTyped, ReaderRecord, K!ClockAssumption
  <2>2. (g.base * TicksPerSecond) + g.offset + Due(g.wrapped) = g.truth
    BY <1>1, <2>1 DEF ReaderKnows
  <2>3. ~g.wrapped => (g.base * TicksPerSecond) + g.offset = g.truth
    <3> DEFINE p == g.base * TicksPerSecond
    <3>1. p \in Nat /\ (~g.wrapped => p + g.offset + 0 = g.truth)
      BY <2>1, <2>2 DEF Due
    <3> HIDE DEF p
    <3>2. ~g.wrapped => p + g.offset = g.truth
      BY <2>1, <3>1
    <3> QED
      BY <3>2 DEF p
  <2>4. ((g.base * TicksPerSecond) + g.offset) \div TicksPerSecond = g.base + (g.offset \div TicksPerSecond)
    BY <2>1, WholeSeconds
  <2> QED
    BY <2>2, <2>3, <2>4 DEF K!UtcPrecise, K!Utc, Due
<1> QED
  BY <1>1 DEF K!TimeAgrees, K!ReadsTime, ClockInv

\* No wrap is lost or counted twice, and what a thread reads is the true time, but for the
\* cases that TimeAgrees names (fd_rtc_nrf5.c).
THEOREM KeepsTime == ASSUME K!ClockAssumption PROVE K!Spec => []K!TimeAgrees
  BY ClockStarts, ClockKeeps, ClockAgrees, PTL DEF K!Spec

-----------------------------------------------------------------------------
(* Rtos. *)

\* What every step of the scheduler keeps.
RtosInv ==
    /\ runnable \in [R!TaskIds -> BOOLEAN]
    /\ step \in [R!TaskIds -> {"run", "yield", "delay", "enable"}]
    /\ waiter \in 0 .. TaskCount
    /\ asleep => task_index = 0 /\ step[0] = "enable"
    /\ R!NoTaskForgotten

\* A task that cannot run has somebody who will make it runnable (fd_rtos.c).
THEOREM NeverForgets == ASSUME TaskCount \in Nat \ {0} PROVE R!Spec => []R!NoTaskForgotten
<1> USE DEF R!TaskIds, R!nobody, R!NoTaskForgotten, R!fd_rtos_is_any_task_runnable, RtosInv
<1>1. R!Init => RtosInv
  BY DEF R!Init
<1>2. RtosInv /\ [R!Next]_(R!rtosVars) => RtosInv'
  <2> SUFFICES ASSUME RtosInv, [R!Next]_(R!rtosVars) PROVE RtosInv'
    OBVIOUS
  <2>1. ASSUME NEW t \in R!TaskIds, R!fd_rtos_schedule(t) PROVE RtosInv'
    BY <2>1 DEF R!fd_rtos_schedule
  <2>2. ASSUME NEW t \in R!TaskIds, R!fd_rtos_yield(t) PROVE RtosInv'
    BY <2>2 DEF R!fd_rtos_yield
  <2>3. ASSUME NEW t \in R!TaskIds, R!fd_rtos_delay(t) PROVE RtosInv'
    BY <2>3 DEF R!fd_rtos_delay
  <2>4. ASSUME NEW t \in R!TaskIds, R!ScheduleCallback(t) PROVE RtosInv'
    BY <2>4 DEF R!ScheduleCallback
  <2>5. ASSUME NEW t \in R!TaskIds, R!fd_rtos_interrupt_disable(t) PROVE RtosInv'
    BY <2>5 DEF R!fd_rtos_interrupt_disable
  <2>6. ASSUME NEW t \in R!TaskIds, R!fd_rtos_condition_wait(t) PROVE RtosInv'
    <3>1. /\ task_index = t /\ t # 0 /\ waiter' = t /\ task_index' = task_index
          /\ runnable' = [runnable EXCEPT ![t] = FALSE] /\ step' = [step EXCEPT ![t] = "yield"]
          /\ delayed' = delayed /\ (asleep' <=> asleep)
          /\ ~ failed' => ~ failed /\ waiter = R!nobody
      BY <2>6 DEF R!fd_rtos_condition_wait
    <3>2. ~ asleep
      BY <3>1
    <3> QED
      BY <3>1, <3>2
  <2>7. ASSUME NEW t \in R!TaskIds, R!Proceed(t) PROVE RtosInv'
    BY <2>7 DEF R!Proceed
  <2>8. ASSUME NEW t \in R!TaskIds, R!fd_rtos_delay_callback(t) PROVE RtosInv'
    BY <2>8 DEF R!fd_rtos_delay_callback, R!Wakes
  <2>9. CASE R!SleepDisable
    BY <2>9 DEF R!SleepDisable
  <2>10. CASE R!SleepTest
    <3>1. /\ runnable' = runnable /\ delayed' = delayed /\ waiter' = waiter /\ (failed' <=> failed)
          /\ task_index' = 0 /\ step' = [step EXCEPT ![0] = "enable"] /\ step[0] = "run"
      BY <2>10 DEF R!SleepTest
    <3>2. asleep' => ~ \E t \in R!TaskIds \ {0} : runnable[t]
      BY <2>10, Zenon DEF R!SleepTest
    <3> QED
      BY <3>1, <3>2
  <2>11. CASE R!SleepEnable
    BY <2>11 DEF R!SleepEnable
  <2>12. CASE R!fd_rtos_condition_signal
    <3>1. /\ ~ asleep' /\ waiter' = R!nobody /\ task_index' = task_index /\ delayed' = delayed
          /\ failed' <=> failed
          /\ runnable' = IF waiter = R!nobody THEN runnable ELSE [runnable EXCEPT ![waiter] = TRUE]
          /\ step' = IF asleep THEN [step EXCEPT ![0] = "yield"] ELSE step
      BY <2>12 DEF R!fd_rtos_condition_signal, R!Wakes
    <3>2. step' \in [R!TaskIds -> {"run", "yield", "delay", "enable"}]
          /\ \A t \in R!TaskIds : step[t] = "delay" => step'[t] = "delay"
      BY <3>1
    <3>3. runnable' \in [R!TaskIds -> BOOLEAN]
          /\ \A t \in R!TaskIds : runnable[t] \/ waiter = t => runnable'[t]
      BY <3>1
    <3> QED
      BY <3>1, <3>2, <3>3
  <2>13. CASE UNCHANGED R!rtosVars
    BY <2>13 DEF R!rtosVars
  <2> QED
    BY <2>1, <2>2, <2>3, <2>4, <2>5, <2>6, <2>7, <2>8, <2>9, <2>10, <2>11, <2>12, <2>13 DEF R!Next
<1> QED
  BY <1>1, <1>2, PTL DEF R!Spec

-----------------------------------------------------------------------------
\* A task that cannot run has somebody who will make it runnable, and the processor does
\* not sleep while a task can run (fd_rtos_sleep, fd_rtos_condition_wait).
THEOREM NobodyForgotten == ASSUME DriversAssumption PROVE R!Spec => []NoTaskForgotten
<1>1. R!Spec => []R!NoTaskForgotten
  BY NeverForgets DEF DriversAssumption
<1>2. R!NoTaskForgotten => NoTaskForgotten
  BY DEF NoTaskForgotten
<1> QED
  BY <1>1, <1>2, PTL

\* A timer fires only when it is due, submitted work stays queued until it is called, and
\* what a thread reads of the clock is the true time.
THEOREM DueIsDone ==
  ASSUME DriversAssumption, K!ClockAssumption
  PROVE  T!Spec /\ K!Spec => TasksRunWhenDue
<1>1. T!Spec => []T!SubmittedIsQueued
  BY NeverLost DEF DriversAssumption
<1>2. T!Spec => T!TimerFiresWhenDue
  BY FiresWhenDue DEF DriversAssumption
<1>3. K!Spec => []K!TimeAgrees
  BY KeepsTime
<1> QED
  BY <1>1, <1>2, <1>3, PTL DEF TasksRunWhenDue

-----------------------------------------------------------------------------
(* Sequences and numbers. *)

\* A queue is what is taken from its front and what stays.
LEMMA SplitFront ==
  ASSUME NEW S, NEW q \in Seq(S), NEW n \in 0 .. Len(q)
  PROVE  /\ SubSeq(q, 1, n) \in Seq(S) /\ SubSeq(q, n + 1, Len(q)) \in Seq(S)
         /\ Len(SubSeq(q, 1, n)) = n
         /\ SubSeq(q, 1, n) \o SubSeq(q, n + 1, Len(q)) = q
<1>0. Len(q) \in Nat /\ n \in Nat /\ n <= Len(q)
  OBVIOUS
<1>1. /\ SubSeq(q, 1, n) \in Seq(S) /\ Len(SubSeq(q, 1, n)) = n
      /\ SubSeq(q, n + 1, Len(q)) \in Seq(S) /\ Len(SubSeq(q, n + 1, Len(q))) = Len(q) - n
      /\ \A i \in 1 .. n : SubSeq(q, 1, n)[i] = q[i]
      /\ \A i \in 1 .. Len(q) - n : SubSeq(q, n + 1, Len(q))[i] = q[n + i]
  OBVIOUS
<1>2. PICK a \in Seq(S), b \in Seq(S) :
            /\ a = SubSeq(q, 1, n) /\ b = SubSeq(q, n + 1, Len(q))
            /\ Len(a) = n /\ Len(b) = Len(q) - n
            /\ \A i \in 1 .. n : a[i] = q[i]
            /\ \A i \in 1 .. Len(q) - n : b[i] = q[n + i]
  BY <1>1
<1>3. /\ a \o b \in Seq(S) /\ Len(a \o b) = Len(a) + Len(b)
      /\ \A i \in 1 .. Len(a) + Len(b) : (a \o b)[i] = IF i <= Len(a) THEN a[i] ELSE b[i - Len(a)]
  BY ConcatProperties
<1>4. Len(a) + Len(b) = Len(q) /\ Len(a) = n /\ Len(b) = Len(q) - n
  <2>1. Len(a) = n /\ Len(b) = Len(q) - n
    BY <1>2, Zenon
  <2> QED
    BY ONLY <1>0, <2>1
<1>5. ASSUME NEW i \in 1 .. Len(q) PROVE (a \o b)[i] = q[i]
  <2>1. CASE i <= n
    <3>1. i \in 1 .. n /\ i \in 1 .. Len(a) + Len(b) /\ i <= Len(a)
      BY <1>0, <1>4, <2>1
    <3> QED
      BY <1>2, <1>3, <3>1
  <2>2. CASE i > n
    <3> DEFINE j == i - n
    <3>1. j \in 1 .. Len(q) - n /\ n + j = i /\ ~(i <= n)
      BY <1>0, <2>2
    <3>2. b[j] = q[i]
      BY <1>2, <3>1
    <3>3. (a \o b)[i] = b[j]
      BY <1>2, <1>3, <1>4, <3>1
    <3> QED
      BY <3>2, <3>3
  <2>3. i <= n \/ i > n
    BY <1>0
  <2> QED
    BY <2>1, <2>2, <2>3
<1>6. a \o b = q
  BY <1>3, <1>4, <1>5, SeqEqual
<1> QED
  BY <1>2, <1>6

\* The front of a queue is moved behind what was taken before.
LEMMA MoveFront ==
  ASSUME NEW S, NEW p \in Seq(S), NEW q \in Seq(S), NEW n \in 0 .. Len(q)
  PROVE  (p \o SubSeq(q, 1, n)) \o SubSeq(q, n + 1, Len(q)) = p \o q
<1>0. /\ SubSeq(q, 1, n) \in Seq(S) /\ SubSeq(q, n + 1, Len(q)) \in Seq(S)
      /\ SubSeq(q, 1, n) \o SubSeq(q, n + 1, Len(q)) = q
  BY SplitFront
<1>1. PICK a \in Seq(S), b \in Seq(S) :
            a = SubSeq(q, 1, n) /\ b = SubSeq(q, n + 1, Len(q)) /\ a \o b = q
  BY <1>0, Zenon
<1>2. (p \o a) \o b = p \o (a \o b)
  BY ConcatAssociative, SMTT(30)
<1> QED
  BY <1>1, <1>2

\* A chain of queues grows at its end.
LEMMA GrowBack ==
  ASSUME NEW S, NEW p \in Seq(S), NEW q \in Seq(S), NEW x \in S
  PROVE  p \o Append(q, x) = Append(p \o q, x)
<1>1. Append(q, x) = q \o <<x>> /\ <<x>> \in Seq(S)
  BY AppendIsConcat
<1>2. Append(p \o q, x) = (p \o q) \o <<x>>
  BY AppendIsConcat, ConcatProperties
<1> QED
  BY <1>1, <1>2, ConcatAssociative

\* The numbers from 1 to n, and the next one.
LEMMA CountUp ==
  ASSUME NEW n \in Nat
  PROVE  Append([i \in 1 .. n |-> i], n + 1) = [i \in 1 .. n + 1 |-> i]
<1> DEFINE s == [i \in 1 .. n |-> i]
<1>1. s \in Seq(Nat) /\ Len(s) = n
  OBVIOUS
<1>2. /\ Append(s, n + 1) \in Seq(Nat) /\ Len(Append(s, n + 1)) = n + 1
      /\ \A i \in 1 .. n + 1 : Append(s, n + 1)[i] = i
  BY <1>1, AppendProperties
<1>3. [i \in 1 .. n + 1 |-> i] \in Seq(Nat) /\ Len([i \in 1 .. n + 1 |-> i]) = n + 1
  OBVIOUS
<1> QED
  BY <1>2, <1>3, SeqEqual

\* The same, of octets.
LEMMA GrowBackNat ==
  ASSUME NEW p \in Seq(Nat), NEW q \in Seq(Nat), NEW x \in Nat
  PROVE  p \o Append(q, x) = Append(p \o q, x)
  BY GrowBack

\* A set of naturals has a least element: what stands for induction.
LEMMA LeastNatural == ASSUME NEW A, A \subseteq Nat, A # {} PROVE \E x \in A : \A y \in A : x <= y
<1> DEFINE less == {p \in Nat \X Nat : p[1] < p[2]}
<1>1. less = OpToRel(<, Nat)
  BY DEF OpToRel
<1>2. IsWellFoundedOn(less, Nat)
  BY <1>1, NatLessThanWellFounded
<1>3. \A x, y \in Nat : y < x => <<y, x>> \in less
  OBVIOUS
<1> HIDE DEF less
<1>4. PICK x \in A : \A y \in A : ~(<<y, x>> \in less)
  BY <1>2, WFMin
<1>5. ASSUME NEW y \in A PROVE x <= y
  <2>1. x \in Nat /\ y \in Nat
    OBVIOUS
  <2>2. ~(y < x)
    BY <1>3, <1>4, <2>1
  <2> QED
    BY <2>1, <2>2
<1> QED
  BY <1>5

-----------------------------------------------------------------------------
(* Uart: what was sent, is being sent and waits is what was accepted. *)

\* How many bytes the nRF5 driver counts as under way: it never counts less than
\* there are, so it never starts a transfer before the last has ended.
Announced == IF txdrdy THEN 1 ELSE 0

\* What every step of the serial drivers keeps.
TransferInv ==
    /\ driver \in {"zephyr", "nrf5"} /\ faults \in Nat /\ accepted \in Nat
    /\ wire \in Seq(Nat) /\ dma \in Seq(Nat) /\ tx_fifo \in Seq(Nat) /\ pending \in Nat
    /\ thread = "reset" => faults > 0
    /\ U!zephyr /\ faults = 0 => (pending = 0 => dma = <<>>)
    /\ U!nrf5 => pending >= Len(dma) + Announced
    /\ U!nrf5 /\ thread = "start" => pending = 0
    /\ U!SentInOrder

\* What is taken from the fifo and what stays.
LEMMA TakenFacts ==
  ASSUME tx_fifo \in Seq(Nat), DmaLimit \in Nat
  PROVE  /\ U!Taken \in Seq(Nat) /\ U!Kept \in Seq(Nat) /\ U!Taken \o U!Kept = tx_fifo
         /\ \A p \in Seq(Nat) : (p \o U!Taken) \o U!Kept = p \o tx_fifo
         /\ U!Taken = <<>> => U!Kept = tx_fifo
<1> DEFINE n == IF Len(tx_fifo) < DmaLimit THEN Len(tx_fifo) ELSE DmaLimit
<1>1. n \in 0 .. Len(tx_fifo)
  OBVIOUS
<1>2. U!Taken = SubSeq(tx_fifo, 1, n) /\ Len(U!Taken) = n
  BY <1>1, SplitFront DEF U!Taken
<1>3. U!Kept = SubSeq(tx_fifo, n + 1, Len(tx_fifo))
  BY <1>2 DEF U!Kept
<1> HIDE DEF n
<1>4. U!Taken \in Seq(Nat) /\ U!Kept \in Seq(Nat) /\ U!Taken \o U!Kept = tx_fifo
  BY <1>1, <1>2, <1>3, SplitFront
<1>5. \A p \in Seq(Nat) : (p \o U!Taken) \o U!Kept = p \o tx_fifo
  BY <1>1, <1>2, <1>3, MoveFront
<1>6. U!Taken = <<>> => U!Kept = tx_fifo
  BY <1>4, ConcatEmptySeq
<1> QED
  BY <1>4, <1>5, <1>6

\* What was sent, is being sent and waits to be sent is what was accepted, in order
\* (fd_uart_instance_tx and the two transmit interrupts), as long as no fault occurred.
THEOREM UartSends == ASSUME DmaLimit \in Nat PROVE U!Spec => []U!SentInOrder
<1>1. U!Init => TransferInv
  <2> SUFFICES ASSUME U!Init PROVE TransferInv
    OBVIOUS
  <2>1. <<>> \o <<>> \o <<>> = [i \in 1 .. 0 |-> i]
    OBVIOUS
  <2> QED
    BY <2>1 DEF U!Init, TransferInv, U!SentInOrder, Announced, U!zephyr, U!nrf5
<1>2. TransferInv /\ [U!Next]_(U!uartVars) => TransferInv'
  <2> SUFFICES ASSUME TransferInv, [U!Next]_(U!uartVars) PROVE TransferInv'
    OBVIOUS
  <2> DEFINE way == <<driver, wire, dma, tx_fifo, accepted, pending, txdrdy>>
  <2>1. CASE UNCHANGED way /\ faults' \in Nat /\ faults' >= faults /\ thread' # "reset" /\ (U!nrf5 /\ thread' = "start" => pending = 0)
    BY <2>1 DEF TransferInv, Announced, U!SentInOrder, U!zephyr, U!nrf5
  <2>2. CASE U!TxPut
    <3>1. UNCHANGED <<driver, thread, pending, dma, txdrdy, wire, faults>>
      BY <2>2 DEF U!TxPut
    <3>2. CASE UNCHANGED <<tx_fifo, accepted>>
      BY <3>1, <3>2 DEF TransferInv, Announced, U!SentInOrder, U!zephyr, U!nrf5
    <3>3. CASE tx_fifo' = Append(tx_fifo, accepted + 1) /\ accepted' = accepted + 1
      <4>1. tx_fifo' \in Seq(Nat) /\ accepted' \in Nat
        BY <3>3 DEF TransferInv
      <4>2. (wire \o dma) \o tx_fifo' = Append((wire \o dma) \o tx_fifo, accepted + 1)
        <5>1. wire \o dma \in Seq(Nat) /\ tx_fifo \in Seq(Nat) /\ accepted + 1 \in Nat
          BY DEF TransferInv
        <5> QED
          BY <5>1, <3>3, GrowBack, SMTT(30)
      <4>3. U!SentInOrder'
        BY <3>1, <3>3, <4>2, CountUp DEF TransferInv, U!SentInOrder
      <4> QED
        BY <3>1, <4>1, <4>3 DEF TransferInv, Announced, U!zephyr, U!nrf5
    <3> QED
      BY <2>2, <3>2, <3>3 DEF U!TxPut
  <2>3. CASE U!TxStart
    <3>1. UNCHANGED <<driver, txdrdy, wire, accepted, faults>> /\ thread' = "idle" /\ thread = "start"
          /\ tx_fifo' = U!Kept
      BY <2>3 DEF U!TxStart, U!ghosts, U!fd_uart_info_tx_start, U!fd_uart_tx_set_next_dma_buffer
    <3>2. pending = 0
      BY <2>3, <3>1 DEF U!TxStart, U!MayStart, TransferInv, U!zephyr, U!nrf5
    <3>3. faults = 0 => dma = <<>>
      BY <3>2 DEF TransferInv, Announced, U!zephyr, U!nrf5
    <3>4. \/ U!Taken # <<>> /\ dma' = U!Taken /\ pending' = IF U!zephyr THEN 1 ELSE Len(U!Taken)
          \/ U!Taken = <<>> /\ dma' \in {dma, <<>>} /\ pending' = 0
      BY <2>3 DEF U!TxStart, U!fd_uart_info_tx_start, U!fd_uart_tx_set_next_dma_buffer
    <3>5. faults = 0 => dma' = U!Taken
      BY <3>3, <3>4
    <3>6. U!SentInOrder'
      <4>1. faults = 0 => wire \o dma \o tx_fifo = wire \o dma' \o tx_fifo'
        <5>1. faults = 0 => wire \o dma = wire
          BY <3>3, ConcatEmptySeq DEF TransferInv
        <5> QED
          BY <5>1, <3>1, <3>5, TakenFacts DEF TransferInv
      <4> QED
        BY <4>1, <3>1 DEF TransferInv, U!SentInOrder
    <3>7. U!nrf5 => ~txdrdy /\ dma = <<>>
      BY <3>2 DEF TransferInv, Announced
    <3>8. pending' \in Nat /\ dma' \in Seq(Nat) /\ tx_fifo' \in Seq(Nat)
      BY <3>1, <3>4, TakenFacts DEF TransferInv
    <3>9. U!nrf5 => pending' >= Len(dma') + (Announced)'
      BY <3>1, <3>4, <3>7, <3>8 DEF Announced, U!zephyr, U!nrf5
    <3>10. faults = 0 => (pending' = 0 => dma' = <<>>)
      BY <3>3, <3>4, <3>8, TakenFacts DEF TransferInv
    <3> QED
      BY <3>1, <3>6, <3>8, <3>9, <3>10 DEF TransferInv, U!zephyr, U!nrf5
  <2>4. CASE U!ResetHead
    BY <2>4 DEF U!ResetHead, TransferInv, U!SentInOrder, U!zephyr, U!nrf5, U!Stale
  <2>5. CASE U!ResetTail
    BY <2>5 DEF U!ResetTail, TransferInv, Announced, U!SentInOrder, U!zephyr, U!nrf5, U!ghosts
  <2>6. CASE U!fd_uart_callback_tx_done
    <3>1. UNCHANGED <<driver, thread, txdrdy, accepted, faults>> /\ U!zephyr /\ wire' = wire \o dma
          /\ tx_fifo' = U!Kept
      BY <2>6 DEF U!fd_uart_callback_tx_done, U!ghosts, U!threadVars, U!fd_uart_info_tx_start
    <3>2. \/ U!Taken # <<>> /\ dma' = U!Taken /\ pending' = 1
          \/ U!Taken = <<>> /\ dma' = U!Taken /\ pending' = 0
      BY <2>6 DEF U!fd_uart_callback_tx_done, U!fd_uart_info_tx_start
    <3>3. wire' \in Seq(Nat) /\ dma' \in Seq(Nat) /\ tx_fifo' \in Seq(Nat) /\ pending' \in Nat
          /\ (pending' = 0 => dma' = <<>>)
      BY <3>1, <3>2, TakenFacts, ConcatProperties, SMTT(30) DEF TransferInv
    <3>4. wire' \o dma' \o tx_fifo' = wire \o dma \o tx_fifo
      BY <3>1, <3>2, <3>3, TakenFacts DEF TransferInv
    <3> QED
      BY <3>1, <3>3, <3>4 DEF TransferInv, U!SentInOrder, U!zephyr, U!nrf5
  <2>7. CASE U!TxAborted
    BY <2>7 DEF U!TxAborted, TransferInv, U!SentInOrder, U!zephyr, U!nrf5, U!threadVars
  <2>8. CASE U!TransmitByte
    <3>1. UNCHANGED <<driver, thread, tx_fifo, pending, accepted, faults>> /\ U!nrf5 /\ txdrdy' = TRUE
          /\ dma # <<>> /\ wire' = Append(wire, Head(dma)) /\ dma' = Tail(dma)
      BY <2>8 DEF U!TransmitByte, U!threadVars
    <3>2. wire \in Seq(Nat) /\ dma \in Seq(Nat) /\ pending \in Nat
      BY DEF TransferInv
    <3>3. wire' \in Seq(Nat) /\ dma' \in Seq(Nat) /\ Len(dma') = Len(dma) - 1 /\ Len(dma) \in Nat
      BY <3>1, <3>2
    <3>4. wire' \o dma' = wire \o dma
      BY <3>1, <3>2, <3>3, ConcatProperties, SeqEqual, SMTT(30)
    <3>5. pending' >= Len(dma') + (Announced)'
      <4>1. pending >= Len(dma)
        BY <3>1, <3>2, <3>3 DEF TransferInv, Announced
      <4> QED
        BY <3>1, <3>2, <3>3, <4>1 DEF Announced
    <3> QED
      BY <3>1, <3>3, <3>4, <3>5 DEF TransferInv, U!SentInOrder, U!zephyr, U!nrf5
  <2>9. CASE U!fd_uart_serial_handler_tx
    <3>1. UNCHANGED <<driver, thread, wire, accepted, faults>> /\ U!nrf5 /\ txdrdy /\ txdrdy' = FALSE
      BY <2>9 DEF U!fd_uart_serial_handler_tx, U!threadVars, U!ghosts
    <3>2. pending >= Len(dma) + 1 /\ Len(dma) \in Nat /\ pending \in Nat
      BY <3>1 DEF TransferInv, Announced
    <3>3. thread # "start"
      BY <3>1, <3>2 DEF TransferInv
    <3>4. CASE pending = 1
      <4>1. dma = <<>>
        BY <3>2, <3>4 DEF TransferInv
      <4>2. dma' = U!Taken /\ pending' = Len(U!Taken) /\ tx_fifo' = U!Kept
        BY <2>9, <3>4, <4>1 DEF U!fd_uart_serial_handler_tx, U!fd_uart_tx_set_next_dma_buffer
      <4>3. dma' \in Seq(Nat) /\ tx_fifo' \in Seq(Nat) /\ pending' \in Nat /\ pending' >= Len(dma')
        BY <4>2, TakenFacts DEF TransferInv
      <4>4. wire \o dma = wire /\ wire \o dma' \o tx_fifo' = wire \o dma \o tx_fifo
        BY <4>1, <4>2, TakenFacts, ConcatEmptySeq DEF TransferInv
      <4> QED
        BY <3>1, <3>3, <4>3, <4>4 DEF TransferInv, Announced, U!SentInOrder, U!zephyr, U!nrf5
    <3>5. CASE pending # 1
      <4>1. pending' = pending - 1 /\ UNCHANGED <<tx_fifo, dma>>
        BY <2>9, <3>5 DEF U!fd_uart_serial_handler_tx
      <4> QED
        BY <3>1, <3>2, <3>3, <4>1 DEF TransferInv, Announced, U!SentInOrder, U!zephyr, U!nrf5
    <3> QED
      BY <3>4, <3>5
  <2>10. CASE U!TxPutDone
    <3>1. UNCHANGED way /\ faults' = faults /\ thread' # "reset" /\ (U!nrf5 /\ thread' = "start" => pending = 0)
      BY <2>10 DEF U!TxPutDone, U!ghosts, U!zephyr, U!nrf5
    <3> QED
      BY <2>1, <3>1 DEF TransferInv
  <2>11. CASE \E n \in 1 .. TxFifoLimit : U!TxBegin(n)
    BY <2>1, <2>11 DEF U!TxBegin, TransferInv, U!ghosts
  <2>12. CASE U!fd_event_process \/ U!CallbacksDone
    BY <2>1, <2>12 DEF U!fd_event_process, U!CallbacksDone, TransferInv, U!ghosts
  <2>13. CASE \/ U!fd_uart_instance_rx \/ U!fd_uart_callback_rx_stopped
              \/ \E byte \in {U!Terminator, 1} : U!Receive(byte)
              \/ UNCHANGED U!uartVars
    <3>1. UNCHANGED <<way, thread>> /\ faults' \in Nat /\ faults' >= faults
      BY <2>13 DEF U!fd_uart_instance_rx, U!fd_uart_callback_rx_stopped, U!Receive, U!uartVars,
                   U!threadVars, U!ghosts, TransferInv
    <3> QED
      BY <3>1 DEF TransferInv, Announced, U!SentInOrder, U!zephyr, U!nrf5
  <2> QED
    BY <2>2, <2>3, <2>4, <2>5, <2>6, <2>7, <2>8, <2>9, <2>10, <2>11, <2>12, <2>13
       DEF U!Next, U!Thread, U!Interrupts, U!Environment
<1>3. TransferInv => U!SentInOrder
  BY DEF TransferInv
<1> QED
  BY <1>1, <1>2, <1>3, PTL DEF U!Spec

-----------------------------------------------------------------------------
(* Uart: the line. *)

\* The rates of the peripheral.
LEMMA RatesAre ==
  /\ U!Rates \in Seq(Nat) /\ Len(U!Rates) = 18 /\ U!Range(U!Rates) = {U!Rates[i] : i \in 1 .. 18}
  /\ U!Last(U!Rates) = U!Rates[18]
  /\ \A i \in 1 .. 18 : U!Rates[i] \in Nat
<1>1. U!Rates \in Seq(Nat) /\ Len(U!Rates) = 18
  BY DEF U!Rates
<1>2. DOMAIN U!Rates = 1 .. 18
  BY <1>1
<1>3. \A i \in 1 .. 18 : U!Rates[i] \in Nat
  BY <1>1, ElementOfSeq
<1> QED
  BY <1>1, <1>2, <1>3 DEF U!Range, U!Last

\* The rates rise.
LEMMA RatesRise == \A i \in 1 .. 17 : U!Rates[i] < U!Rates[i + 1]
<1>1. ASSUME NEW i \in 1 .. 17 PROVE \/ i \in {1, 2, 3, 4, 5, 6} \/ i \in {7, 8, 9, 10, 11, 12} \/ i \in {13, 14, 15, 16, 17}
  OBVIOUS
<1>2. \A i \in {1, 2, 3, 4, 5, 6} : U!Rates[i] < U!Rates[i + 1]
  BY DEF U!Rates
<1>3. \A i \in {7, 8, 9, 10, 11, 12} : U!Rates[i] < U!Rates[i + 1]
  BY DEF U!Rates
<1>4. \A i \in {13, 14, 15, 16, 17} : U!Rates[i] < U!Rates[i + 1]
  BY DEF U!Rates
<1> QED
  BY <1>1, <1>2, <1>3, <1>4

\* Were the rates not sorted, the least distance at which two are out of order is not 1.
LEMMA RatesSorted == \A i, j \in 1 .. 18 : i < j => U!Rates[i] < U!Rates[j]
<1> DEFINE bad == {k \in Nat : \E i, j \in 1 .. 18 : i < j /\ j = i + k /\ ~(U!Rates[i] < U!Rates[j])}
<1>1. SUFFICES ASSUME bad # {} PROVE FALSE
  <2>1. ASSUME NEW i \in 1 .. 18, NEW j \in 1 .. 18, i < j, ~(U!Rates[i] < U!Rates[j]) PROVE j - i \in bad
    <3>1. j - i \in Nat /\ j = i + (j - i)
      BY <2>1
    <3> QED
      BY <2>1, <3>1
  <2> QED
    BY <2>1
<1>2. PICK k \in bad : \A x \in bad : k <= x
  BY <1>1, LeastNatural
<1>3. PICK i \in 1 .. 18, j \in 1 .. 18 : i < j /\ j = i + k /\ ~(U!Rates[i] < U!Rates[j])
  BY <1>2
<1>4. j - 1 \in 1 .. 17 /\ (j - 1) + 1 = j /\ j - 1 \in 1 .. 18 /\ k \in Nat /\ k > 0
  <2>1. k \in Nat
    BY <1>2
  <2>2. i < j /\ j = i + k
    BY <1>3
  <2> QED
    BY <2>1, <2>2
<1>5. U!Rates[j - 1] < U!Rates[j]
  BY <1>4, RatesRise
<1>6. U!Rates[i] \in Nat /\ U!Rates[j - 1] \in Nat /\ U!Rates[j] \in Nat
  BY <1>4, RatesAre
<1>7. CASE k = 1
  <2>1. i = j - 1
    BY <1>3, <1>7
  <2> QED
    BY <1>3, <1>5, <2>1
<1>8. CASE k > 1
  <2>1. k - 1 \in Nat /\ i < j - 1 /\ j - 1 = i + (k - 1) /\ ~(k <= k - 1)
    BY <1>3, <1>4, <1>8
  <2>2. ~(U!Rates[i] < U!Rates[j - 1])
    BY <1>3, <1>5, <1>6
  <2>3. k - 1 \in bad
    BY <1>4, <2>1, <2>2
  <2> QED
    BY <1>2, <2>1, <2>3
<1> QED
  BY <1>4, <1>7, <1>8

\* BaudRate is the greatest rate that is not above the one asked for, if there is one.
LEMMA RateIsNearest ==
  ASSUME NEW rate \in Nat
  PROVE  /\ (\E r \in U!Range(U!Rates) : r <= rate) => U!BaudRate(rate) \in U!Range(U!Rates) /\ U!BaudRate(rate) <= rate
         /\ \A r \in U!Range(U!Rates) : r <= rate => r <= U!BaudRate(rate)
<1> DEFINE before == {i \in DOMAIN U!Rates \ {Len(U!Rates)} : rate < U!Rates[i + 1]}
<1>1. before = {i \in 1 .. 17 : rate < U!Rates[i + 1]}
  <2>1. DOMAIN U!Rates = 1 .. 18 /\ Len(U!Rates) = 18
    BY RatesAre
  <2>2. (1 .. 18) \ {18} = 1 .. 17
    OBVIOUS
  <2> QED
    BY <2>1, <2>2
<1>2. \A i \in 1 .. 18 : U!Rates[i] \in Nat
  BY RatesAre
<1>3. CASE before = {}
  <2>1. U!BaudRate(rate) = U!Rates[18]
    BY <1>3, RatesAre DEF U!BaudRate
  <2>2. ~(rate < U!Rates[17 + 1])
    BY <1>1, <1>3, SMTT(30)
  <2>3. \A j \in 1 .. 18 : U!Rates[j] <= U!Rates[18]
    BY <1>2, RatesSorted
  <2>4. U!Rates[18] <= rate
    BY <1>2, <2>2
  <2>5. 18 \in 1 .. 18
    OBVIOUS
  <2>6. U!Rates[18] \in U!Range(U!Rates)
    BY ONLY <2>5, RatesAre, Zenon
  <2>7. \A r \in U!Range(U!Rates) : r <= U!Rates[18]
    BY <2>3, RatesAre, Zenon
  <2> QED
    BY <2>1, <2>4, <2>6, <2>7, Zenon
<1>4. CASE before # {}
  <2>1. before \subseteq Nat
    <3>1. \A i \in 1 .. 17 : i \in Nat
      OBVIOUS
    <3> QED
      BY <1>1, <3>1, Zenon
  <2> DEFINE m == CHOOSE i \in before : \A j \in before : i <= j
  <2>2. \E i \in before : \A j \in before : i <= j
    BY <1>4, <2>1, LeastNatural
  <2>3. m \in before /\ \A j \in before : m <= j
    BY <2>2
  <2>4. U!BaudRate(rate) = U!Rates[m]
    BY <1>4 DEF U!BaudRate
  <2> HIDE DEF m
  <2>5. m \in 1 .. 17 /\ rate < U!Rates[m + 1]
    BY <1>1, <2>3
  <2>6. m > 1 => U!Rates[m] <= rate
    <3> SUFFICES ASSUME m > 1 PROVE U!Rates[m] <= rate
      OBVIOUS
    <3>1. m - 1 \in 1 .. 17 /\ ~(m <= m - 1) /\ (m - 1) + 1 = m
      BY <2>5
    <3>2. m - 1 \notin before
      BY <2>3, <3>1
    <3>3. ~(rate < U!Rates[(m - 1) + 1])
      BY <1>1, <3>1, <3>2
    <3> QED
      BY <1>2, <2>5, <3>1, <3>3
  <2>7. \A j \in 1 .. 18 : U!Rates[j] <= rate => j <= m
    <3> SUFFICES ASSUME NEW j \in 1 .. 18, U!Rates[j] <= rate, j > m PROVE FALSE
      BY <2>5
    <3>1. m + 1 \in 1 .. 18 /\ (j = m + 1 \/ m + 1 < j)
      BY <2>5
    <3>2. U!Rates[m + 1] <= U!Rates[j]
      BY <1>2, <3>1, RatesSorted
    <3> QED
      BY <1>2, <2>5, <3>1, <3>2
  <2>8. \A j \in 1 .. 18 : j <= m => U!Rates[j] <= U!Rates[m]
    BY <1>2, <2>5, RatesSorted
  <2>9. ASSUME NEW r \in U!Range(U!Rates), r <= rate PROVE r <= U!Rates[m] /\ U!Rates[m] <= rate
    <3>1. PICK j \in 1 .. 18 : r = U!Rates[j]
      BY RatesAre
    <3>2. j <= m
      BY <2>7, <2>9, <3>1
    <3>3. r <= U!Rates[m]
      BY <2>8, <3>1, <3>2
    <3>4. CASE m > 1
      BY <2>6, <3>3, <3>4
    <3>5. CASE m = 1
      <4>1. j = 1
        BY <3>2, <3>5
      <4> QED
        BY <2>9, <3>1, <3>3, <3>5, <4>1
    <3> QED
      BY <2>5, <3>4, <3>5
  <2>10. U!Rates[m] \in U!Range(U!Rates)
    <3>1. m \in 1 .. 18
      BY <2>5
    <3> QED
      BY ONLY <3>1, RatesAre, Zenon
  <2> QED
    BY <2>4, <2>9, <2>10
<1> QED
  BY <1>3, <1>4

\* The line has the nearest rate from below, and the format asked for but for odd parity.
THEOREM LineAsAsked == ASSUME DriversAssumption PROVE U!LineIsAsAsked
<1> SUFFICES ASSUME NEW f \in LineFormats
             PROVE  LET slower == {r \in U!Range(U!Rates) : r <= f.baud_rate}
                        made == U!OnLine(U!Config(f.parity, f.stop_bits))
                    IN /\ slower # {} => U!BaudRate(f.baud_rate) \in slower
                       /\ \A r \in slower : r <= U!BaudRate(f.baud_rate)
                       /\ made.parity = (IF f.parity = "odd" THEN "even" ELSE f.parity)
                       /\ made.stop_bits = f.stop_bits
  BY DEF U!LineIsAsAsked
<1>1. f.baud_rate \in Nat /\ f.parity \in {"none", "even", "odd"} /\ f.stop_bits \in {1, 2}
  BY DEF DriversAssumption
<1> DEFINE c == U!Config(f.parity, f.stop_bits)
<1>2. /\ 4 \in c <=> f.stop_bits = 2
      /\ 8 \notin c
      /\ {1, 2, 3} \subseteq c <=> f.parity # "none"
  BY <1>1 DEF U!Config, U!Included, U!OddShifted
<1>3. /\ U!OnLine(c).parity = (IF f.parity = "odd" THEN "even" ELSE f.parity)
      /\ U!OnLine(c).stop_bits = f.stop_bits
  BY <1>1, <1>2 DEF U!OnLine, U!Included
<1>4. /\ (\E r \in U!Range(U!Rates) : r <= f.baud_rate) => U!BaudRate(f.baud_rate) \in U!Range(U!Rates) /\ U!BaudRate(f.baud_rate) <= f.baud_rate
      /\ \A r \in U!Range(U!Rates) : r <= f.baud_rate => r <= U!BaudRate(f.baud_rate)
  BY <1>1, RateIsNearest
<1> QED
  BY <1>3, <1>4

-----------------------------------------------------------------------------
(* Usb. *)

\* The state of the driver, the host, and the application.
CdcRecord ==
    [fifo : Seq(Nat), looping : BOOLEAN, ring : Seq(Nat), rx_count : Nat, rx_drop_count : Nat,
     out : Int, tx_enabled : BOOLEAN, data_terminal_ready : BOOLEAN, submitted : BOOLEAN,
     working : {<<>>} \cup {<<b>> : b \in BOOLEAN}, dcd : BOOLEAN, dsr : BOOLEAN]
PeerRecord == [sent : Nat, got : Int, dtr : BOOLEAN, events : Nat]
ClientRecord ==
    [reads : {"callback", "thread"}, taken : Seq(Nat), ready : BOOLEAN, terminal : BOOLEAN, sent : BOOLEAN]
UsbTyped == cdc \in CdcRecord /\ peer \in PeerRecord /\ client \in ClientRecord

\* The octets, of which the ring never holds more than it can.
OctetsInv == Len(cdc.ring) <= RingSize /\ H!OctetsInOrder

\* What the work has read is what the timer saw last, unless it is submitted again.
TerminalInv ==
    ~cdc.submitted =>
        IF cdc.working = <<>>
        THEN client.terminal = cdc.data_terminal_ready /\ cdc.dcd = cdc.data_terminal_ready
             /\ cdc.dsr = cdc.data_terminal_ready
        ELSE cdc.working[1] = cdc.data_terminal_ready

\* Octets leave a queue p, q for what is behind it: what the three hold stays.
LEMMA Assoc ==
  ASSUME NEW a \in Seq(Nat), NEW b \in Seq(Nat), NEW c \in Seq(Nat)
  PROVE  (a \o b) \o c = a \o (b \o c)
  BY ConcatAssociative, SMTT(30)

\* The length of two queues one behind the other.
LEMMA LengthOfTwo ==
  ASSUME NEW a \in Seq(Nat), NEW b \in Seq(Nat)
  PROVE  a \o b \in Seq(Nat) /\ Len(a \o b) = Len(a) + Len(b) /\ Len(a) \in Nat /\ Len(b) \in Nat
  BY ConcatProperties

\* What is taken is no more than asked for, and no more than there is.
LEMMA LesserFacts == \A a, b \in Nat : H!Lesser(a, b) \in 0 .. b /\ H!Lesser(a, b) \in 0 .. a
  BY DEF H!Lesser

\* What fits the batch, what waits and the room: all of it is put into the ring.
LEMMA LesserTwice ==
  ASSUME NEW size \in Nat, NEW batch \in Nat, NEW held \in Nat, NEW waiting \in Nat, held <= size
  PROVE  LET m == H!Lesser(H!Lesser(size - held, batch), waiting)
         IN  m \in 0 .. waiting /\ H!Lesser(m, size - held) = m /\ held + m <= size
<1> DEFINE room == size - held
           p == H!Lesser(room, batch)
           m == H!Lesser(p, waiting)
<1>1. room \in Nat /\ held + room = size
  OBVIOUS
<1> HIDE DEF room
<1>2. p \in 0 .. room
  BY <1>1, LesserFacts
<1> HIDE DEF p
<1>3. m \in 0 .. waiting /\ m \in 0 .. p
  BY <1>1, <1>2, LesserFacts
<1> HIDE DEF m
<1>4. H!Lesser(m, room) = m
  BY <1>1, <1>2, <1>3 DEF H!Lesser
<1>5. held + m <= size
  BY <1>1, <1>2, <1>3
<1> QED
  BY <1>3, <1>4, <1>5 DEF m, p, room

\* Octets leave c for b and b for a: what the three hold together stays.
TakenOf(a, b, c, m, n) == a \o SubSeq(b \o SubSeq(c, 1, m), 1, H!Lesser(n, Len(b \o SubSeq(c, 1, m))))
LeftOf(b, c, m, n) ==
    SubSeq(b \o SubSeq(c, 1, m), H!Lesser(n, Len(b \o SubSeq(c, 1, m))) + 1, Len(b \o SubSeq(c, 1, m)))
NothingLost(a, b, c, m, n) ==
    /\ TakenOf(a, b, c, m, n) \in Seq(Nat) /\ LeftOf(b, c, m, n) \in Seq(Nat)
    /\ SubSeq(c, m + 1, Len(c)) \in Seq(Nat)
    /\ Len(TakenOf(a, b, c, m, n)) + Len(LeftOf(b, c, m, n)) = Len(a) + Len(b) + m
    /\ Len(LeftOf(b, c, m, n)) <= Len(b) + m
    /\ (TakenOf(a, b, c, m, n) \o LeftOf(b, c, m, n)) \o SubSeq(c, m + 1, Len(c)) = (a \o b) \o c
\* What moved from one sequence to the next, and was then taken, is lost nowhere.
LEMMA Moved ==
  ASSUME NEW a, NEW b, NEW c, NEW m, NEW n, a \in Seq(Nat), b \in Seq(Nat), c \in Seq(Nat),
         m \in 0 .. Len(c), n \in Nat
  PROVE  NothingLost(a, b, c, m, n)
<1> DEFINE front == SubSeq(c, 1, m)
           c1 == SubSeq(c, m + 1, Len(c))
           r == b \o front
           k == H!Lesser(n, Len(r))
           pulled == SubSeq(r, 1, k)
           b1 == SubSeq(r, k + 1, Len(r))
           a1 == a \o pulled
<1>0. m \in Nat
  OBVIOUS
<1>1. front \in Seq(Nat) /\ c1 \in Seq(Nat) /\ Len(front) = m /\ front \o c1 = c
  BY SplitFront, Zenon
<1> HIDE DEF front, c1
<1>2. r \in Seq(Nat) /\ Len(r) = Len(b) + m /\ Len(b) \in Nat /\ Len(r) \in Nat
  <2>1. r \in Seq(Nat) /\ Len(r) = Len(b) + Len(front) /\ Len(b) \in Nat /\ Len(front) \in Nat
    BY <1>1, LengthOfTwo, Zenon
  <2> HIDE DEF r
  <2> QED
    BY <1>1, <2>1
<1>3. k \in 0 .. Len(r)
  BY <1>2, LesserFacts, Zenon
<1>9. k \in Nat
  BY <1>2, <1>3
<1> HIDE DEF k
<1>4. pulled \in Seq(Nat) /\ b1 \in Seq(Nat) /\ Len(pulled) = k /\ pulled \o b1 = r
  BY <1>2, <1>3, SplitFront, Zenon
<1> HIDE DEF pulled, b1
<1>5. a1 \in Seq(Nat) /\ Len(a1) = Len(a) + Len(pulled) /\ Len(a) \in Nat
  BY <1>4, LengthOfTwo, Zenon
<1>6. (a1 \o b1) \o c1 = (a \o b) \o c
  <2>1. b \o front = r
    OBVIOUS
  <2>2. a \o pulled = a1
    OBVIOUS
  <2> HIDE DEF r, a1
  <2>3. ((a \o pulled) \o b1) \o c1 = (a \o b) \o c
    <3>1. front \in Seq(Nat)
      BY <1>1
    <3>7. c1 \in Seq(Nat)
      BY <1>1
    <3>8. pulled \in Seq(Nat)
      BY <1>4
    <3>9. b1 \in Seq(Nat)
      BY <1>4
    <3>10. r \in Seq(Nat)
      BY <1>2
    <3>2. (a \o pulled) \o b1 = a \o (pulled \o b1)
      BY ONLY a \in Seq(Nat), <3>8, <3>9, Assoc
    <3>3. (a \o r) \o c1 = a \o (r \o c1)
      BY ONLY a \in Seq(Nat), <3>10, <3>7, Assoc
    <3>4. (b \o front) \o c1 = b \o (front \o c1)
      BY ONLY b \in Seq(Nat), <3>1, <3>7, Assoc
    <3>5. (a \o b) \o c = a \o (b \o c)
      BY ONLY a \in Seq(Nat), b \in Seq(Nat), c \in Seq(Nat), Assoc
    <3>6. pulled \o b1 = r /\ front \o c1 = c
      BY <1>1, <1>4
    <3> QED
      BY ONLY <2>1, <3>2, <3>3, <3>4, <3>5, <3>6, Zenon
  <2> QED
    BY <2>2, <2>3, Zenon
<1>7. Len(pulled) + Len(b1) = Len(r) /\ Len(b1) \in Nat
  BY <1>4, LengthOfTwo, Zenon
<1> HIDE DEF a1, r
<1>8. Len(a1) + Len(b1) = Len(a) + Len(b) + m /\ Len(b1) <= Len(b) + m
  <2>1. Len(a1) = Len(a) + k /\ Len(b1) + k = Len(b) + m
    <3>1. Len(pulled) = k /\ Len(r) = Len(b) + m
      BY <1>2, <1>4, Zenon
    <3> QED
      BY ONLY <1>2, <1>5, <1>7, <1>9, <3>1
  <2>2. Len(a1) \in Nat /\ Len(b1) \in Nat /\ Len(a) \in Nat /\ Len(b) \in Nat
    BY <1>2, <1>5, <1>7, LengthOfTwo, Zenon
  <2> QED
    BY ONLY <1>0, <1>9, <2>1, <2>2
<1> QED
  BY <1>1, <1>4, <1>5, <1>6, <1>8 DEF a1, b1, c1, pulled, k, r, front, TakenOf, LeftOf, NothingLost

\* What every step of the USB driver keeps.
UsbInv == UsbTyped /\ OctetsInv /\ TerminalInv /\ connection \in [is_connected : BOOLEAN, count : Nat, told : BOOLEAN]
          /\ connection.told = connection.is_connected

\* What the octets are about stays.
SameOctets ==
    /\ cdc'.fifo = cdc.fifo /\ cdc'.ring = cdc.ring /\ cdc'.rx_count = cdc.rx_count
    /\ cdc'.rx_drop_count = cdc.rx_drop_count /\ peer'.sent = peer.sent
    /\ client'.taken = client.taken /\ (client.ready => client'.ready)
SameTerminal ==
    /\ cdc'.submitted = cdc.submitted /\ cdc'.working = cdc.working /\ cdc'.dcd = cdc.dcd
    /\ cdc'.dsr = cdc.dsr /\ cdc'.data_terminal_ready = cdc.data_terminal_ready
    /\ client'.terminal = client.terminal

\* Who leaves the octets alone keeps their order.
LEMMA OctetsStay == OctetsInv /\ SameOctets => OctetsInv'
  BY DEF OctetsInv, H!OctetsInOrder, SameOctets
\* Who leaves DTR and its report alone keeps what is known of it.
LEMMA TerminalStays == TerminalInv /\ SameTerminal => TerminalInv'
  BY DEF TerminalInv, SameTerminal

\* Nothing has arrived, and nobody has asked for DTR.
LEMMA UsbStarts == ASSUME H!UsbAssumption PROVE H!Init => UsbInv
<1> SUFFICES ASSUME H!Init PROVE UsbInv
  OBVIOUS
<1>1. PICK where \in UsbReaders :
        client = [reads |-> where, taken |-> <<>>, ready |-> FALSE, terminal |-> FALSE, sent |-> TRUE]
  BY DEF H!Init
<1>2. /\ cdc = [fifo |-> <<>>, looping |-> FALSE, ring |-> <<>>, rx_count |-> 0, rx_drop_count |-> 0,
              out |-> 0, tx_enabled |-> FALSE, data_terminal_ready |-> FALSE, submitted |-> FALSE,
              working |-> <<>>, dcd |-> FALSE, dsr |-> FALSE]
      /\ peer = [sent |-> 0, got |-> 0, dtr |-> FALSE, events |-> 0]
      /\ connection = [is_connected |-> FALSE, count |-> 0, told |-> FALSE]
  BY DEF H!Init
<1>3. <<>> \in Seq(Nat) /\ where \in {"callback", "thread"}
  BY DEF H!UsbAssumption
<1>4. UsbTyped
  BY <1>1, <1>2, <1>3 DEF UsbTyped, CdcRecord, PeerRecord, ClientRecord
<1>5. OctetsInv
  <2>1. (<<>> \o <<>>) \o <<>> = [i \in 1 .. 0 |-> i] /\ Len(<<>>) = 0
    OBVIOUS
  <2> QED
    BY <1>1, <1>2, <2>1 DEF OctetsInv, H!OctetsInOrder, H!UsbAssumption
<1>6. TerminalInv
  BY <1>1, <1>2 DEF TerminalInv
<1> QED
  BY <1>2, <1>4, <1>5, <1>6 DEF UsbInv

\* The host sends an octet: it goes to the end of the controller's fifo.
LEMMA HostSendsKeeps == ASSUME UsbInv, H!HostSends PROVE UsbInv'
<1> DEFINE f == Append(cdc.fifo, peer.sent + 1)
           e == peer.events + 1
           n == peer.sent + 1
<1>1. cdc' = [cdc EXCEPT !.fifo = f] /\ UNCHANGED <<client, connection>>
      /\ peer' = [[peer EXCEPT !.sent = n] EXCEPT !.events = e]
  BY DEF H!HostSends, H!Event, UsbInv, UsbTyped, PeerRecord
<1>2. cdc.fifo \in Seq(Nat) /\ peer.sent \in Nat /\ peer.events \in Nat /\ cdc.ring \in Seq(Nat)
      /\ client.taken \in Seq(Nat)
  BY DEF UsbInv, UsbTyped, CdcRecord, PeerRecord, ClientRecord
<1>3. f \in Seq(Nat) /\ e \in Nat /\ n \in Nat
  BY <1>2
<1>4. (client.taken \o cdc.ring) \o f = [i \in 1 .. n |-> i]
  <2>1. client.taken \o cdc.ring \in Seq(Nat)
    BY <1>2, LengthOfTwo
  <2>2. (client.taken \o cdc.ring) \o f = Append((client.taken \o cdc.ring) \o cdc.fifo, n)
    <3>1. cdc.fifo \in Seq(Nat) /\ n \in Nat
      BY <1>2, <1>3
    <3>2. client.taken \o cdc.ring \in Seq(Nat)
      BY <2>1
    <3> QED
      BY ONLY <3>1, <3>2, GrowBackNat
  <2> QED
    BY <1>2, <2>2, CountUp DEF UsbInv, OctetsInv, H!OctetsInOrder
<1> HIDE DEF f, e, n
<1>5. cdc' \in CdcRecord /\ cdc'.fifo = f /\ cdc'.ring = cdc.ring /\ cdc'.rx_count = cdc.rx_count
      /\ cdc'.rx_drop_count = cdc.rx_drop_count /\ SameTerminal
  BY <1>1, <1>3 DEF UsbInv, UsbTyped, CdcRecord, SameTerminal
<1>6. peer' \in PeerRecord /\ peer'.sent = n
  BY <1>1, <1>3 DEF UsbInv, UsbTyped, PeerRecord
<1> QED
  BY <1>1, <1>4, <1>5, <1>6, TerminalStays DEF UsbInv, UsbTyped, OctetsInv, H!OctetsInOrder

\* A round of the driver's callback, and a read of the application.
LEMMA RoundKeeps ==
  ASSUME H!UsbAssumption, UsbInv, H!fd_usb_cdc_zephyr_irq_callback PROVE UsbInv'
<1> DEFINE recv_len == H!Lesser(H!Lesser(RingSize - Len(cdc.ring), BatchSize), Len(cdc.fifo))
           rb_len == H!Lesser(recv_len, RingSize - Len(cdc.ring))
<1>1. /\ cdc.fifo \in Seq(Nat) /\ cdc.ring \in Seq(Nat) /\ client.taken \in Seq(Nat)
      /\ cdc.rx_count \in Nat /\ cdc.rx_drop_count = 0
  BY DEF UsbInv, UsbTyped, CdcRecord, ClientRecord, OctetsInv, H!OctetsInOrder
<1>2. /\ Len(cdc.ring) \in Nat /\ Len(cdc.fifo) \in Nat /\ Len(client.taken) \in Nat
      /\ RingSize \in Nat /\ BatchSize \in Nat
  BY <1>1 DEF H!UsbAssumption
<1>3. Len(cdc.ring) <= RingSize /\ cdc.rx_count = Len(client.taken) + Len(cdc.ring)
  BY DEF UsbInv, OctetsInv, H!OctetsInOrder
<1>4. recv_len \in 0 .. Len(cdc.fifo) /\ rb_len = recv_len /\ Len(cdc.ring) + recv_len <= RingSize
  BY <1>2, <1>3, LesserTwice
<1>5. PICK m \in 0 .. Len(cdc.fifo) : m = recv_len /\ m = rb_len /\ Len(cdc.ring) + m <= RingSize
  BY <1>4, Zenon
<1>6. m \in Nat
  BY <1>2
<1> DEFINE fifo == SubSeq(cdc.fifo, m + 1, Len(cdc.fifo))
           ring == cdc.ring \o SubSeq(cdc.fifo, 1, m)
           count == cdc.rx_count + m
           drops == cdc.rx_drop_count + m - m
           looping == fifo # <<>>
<1>7. PICK n \in Nat :
         /\ cdc' = [cdc EXCEPT !.fifo = fifo, !.ring = H!After(ring, n), !.looping = looping,
                               !.rx_count = count, !.rx_drop_count = drops, !.tx_enabled = FALSE]
         /\ client' = [H!Read(client, ring, n) EXCEPT !.ready = TRUE]
         /\ UNCHANGED <<peer, connection>>
  <2>1. PICK n \in IF client.reads = "callback" THEN ReadSizes ELSE {0} :
         /\ cdc' = [cdc EXCEPT !.fifo = SubSeq(cdc.fifo, recv_len + 1, Len(cdc.fifo)),
                               !.ring = H!After(cdc.ring \o SubSeq(cdc.fifo, 1, rb_len), n),
                               !.looping = SubSeq(cdc.fifo, recv_len + 1, Len(cdc.fifo)) # <<>>,
                               !.rx_count = cdc.rx_count + recv_len,
                               !.rx_drop_count = cdc.rx_drop_count + recv_len - rb_len, !.tx_enabled = FALSE]
         /\ client' = [H!Read(client, cdc.ring \o SubSeq(cdc.fifo, 1, rb_len), n) EXCEPT !.ready = TRUE]
         /\ UNCHANGED <<peer, connection>>
    BY DEF H!fd_usb_cdc_zephyr_irq_callback
  <2>2. n \in Nat
    BY DEF H!UsbAssumption
  <2> HIDE DEF recv_len, rb_len
  <2> QED
    BY <1>5, <2>1, <2>2
<1> DEFINE taken1 == TakenOf(client.taken, cdc.ring, cdc.fifo, m, n)
           ring1 == LeftOf(cdc.ring, cdc.fifo, m, n)
<1>8. /\ taken1 \in Seq(Nat) /\ ring1 \in Seq(Nat) /\ fifo \in Seq(Nat)
      /\ Len(taken1) + Len(ring1) = Len(client.taken) + Len(cdc.ring) + m
      /\ Len(ring1) <= Len(cdc.ring) + m
      /\ (taken1 \o ring1) \o fifo = (client.taken \o cdc.ring) \o cdc.fifo
  <2>1. NothingLost(client.taken, cdc.ring, cdc.fifo, m, n)
    BY <1>1, Moved, Zenon
  <2> QED
    BY ONLY <2>1 DEF NothingLost
<1>9. /\ Len(taken1) + Len(ring1) = Len(client.taken) + Len(cdc.ring) + m
      /\ Len(ring1) <= Len(cdc.ring) + m
  BY <1>8
<1>10. (taken1 \o ring1) \o fifo = (client.taken \o cdc.ring) \o cdc.fifo
  BY <1>8
<1>11. /\ cdc' = [cdc EXCEPT !.fifo = fifo, !.ring = ring1, !.looping = looping,
                            !.rx_count = count, !.rx_drop_count = drops, !.tx_enabled = FALSE]
       /\ client' = [[client EXCEPT !.taken = taken1] EXCEPT !.ready = TRUE]
       /\ looping \in BOOLEAN
  BY <1>7 DEF H!After, H!Read, UsbInv, UsbTyped, ClientRecord, TakenOf, LeftOf
<1> HIDE DEF fifo, ring, taken1, ring1, looping
<1>12. Len(ring1) \in Nat
  BY <1>8
<1>13. count = Len(taken1) + Len(ring1) /\ Len(ring1) <= RingSize /\ count \in Nat
  <2> DEFINE t1 == Len(taken1)
             r1 == Len(ring1)
             t == Len(client.taken)
             r == Len(cdc.ring)
             c == cdc.rx_count
  <2>1. /\ t1 + r1 = t + r + m /\ r1 <= r + m /\ r + m <= RingSize /\ c = t + r
        /\ r1 \in Nat /\ t1 \in Nat /\ t \in Nat /\ r \in Nat /\ RingSize \in Nat
    <3>1. t1 \in Nat /\ r1 \in Nat
      BY <1>8
    <3> QED
      BY <1>2, <1>3, <1>5, <1>9, <3>1, Zenon
  <2> HIDE DEF t1, r1, t, r, c
  <2>2. c + m = t1 + r1 /\ r1 <= RingSize /\ c + m \in Nat
    BY <1>6, <2>1
  <2> QED
    BY <2>2 DEF t1, r1, t, r, c
<1>14. drops = 0
  BY <1>1, <1>6
<1> HIDE DEF count, drops
<1>15. cdc' \in CdcRecord /\ cdc'.fifo = fifo /\ cdc'.ring = ring1 /\ cdc'.rx_count = count
      /\ cdc'.rx_drop_count = 0
  BY <1>8, <1>11, <1>13, <1>14 DEF UsbInv, UsbTyped, CdcRecord
<1>16. client' \in ClientRecord /\ client'.taken = taken1 /\ client'.ready /\ SameTerminal
  BY <1>8, <1>11 DEF UsbInv, UsbTyped, ClientRecord, CdcRecord, SameTerminal
<1>17. OctetsInv'
  BY <1>7, <1>10, <1>13, <1>15, <1>16 DEF UsbInv, OctetsInv, H!OctetsInOrder
<1> QED
  BY <1>7, <1>15, <1>16, <1>17, TerminalStays DEF UsbInv, UsbTyped

\* fd_usb_cdc_get_rx_data: the octets go from the ring to the application.
LEMMA ReadKeeps ==
  ASSUME H!UsbAssumption, UsbInv, H!fd_usb_cdc_get_rx_data PROVE UsbInv'
<1>1. /\ cdc.fifo \in Seq(Nat) /\ cdc.ring \in Seq(Nat) /\ client.taken \in Seq(Nat)
      /\ cdc.rx_count = Len(client.taken) + Len(cdc.ring) /\ Len(cdc.ring) <= RingSize
      /\ Len(cdc.ring) \in Nat /\ Len(cdc.fifo) \in Nat
  BY DEF UsbInv, UsbTyped, CdcRecord, ClientRecord, OctetsInv, H!OctetsInOrder
<1>2. PICK n \in Nat :
         /\ client' = [H!Read(client, cdc.ring, n) EXCEPT !.ready = cdc.ring # <<>>]
         /\ cdc' = [cdc EXCEPT !.ring = H!After(cdc.ring, n)]
         /\ UNCHANGED <<peer, connection>>
  BY DEF H!fd_usb_cdc_get_rx_data, H!UsbAssumption, UsbInv, UsbTyped, CdcRecord
<1> DEFINE k == H!Lesser(n, Len(cdc.ring))
           taken1 == client.taken \o SubSeq(cdc.ring, 1, k)
           ring1 == SubSeq(cdc.ring, k + 1, Len(cdc.ring))
           ready == cdc.ring # <<>>
<1>3. /\ taken1 \in Seq(Nat) /\ ring1 \in Seq(Nat)
      /\ Len(taken1) + Len(ring1) = Len(client.taken) + Len(cdc.ring)
      /\ Len(ring1) <= Len(cdc.ring)
      /\ (taken1 \o ring1) \o cdc.fifo = (client.taken \o cdc.ring) \o cdc.fifo
  <2>1. k \in 0 .. Len(cdc.ring)
    BY <1>1, LesserFacts
  <2> HIDE DEF k
  <2> DEFINE pulled == SubSeq(cdc.ring, 1, k)
  <2>2. pulled \in Seq(Nat) /\ ring1 \in Seq(Nat) /\ pulled \o ring1 = cdc.ring
    BY <1>1, <2>1, SplitFront
  <2> HIDE DEF pulled
  <2>3. taken1 \in Seq(Nat) /\ Len(taken1) = Len(client.taken) + Len(pulled) /\ Len(pulled) \in Nat
        /\ Len(client.taken) \in Nat
    BY <1>1, <2>2, LengthOfTwo DEF pulled
  <2>4. Len(cdc.ring) = Len(pulled) + Len(ring1) /\ Len(ring1) \in Nat
    BY <2>2, LengthOfTwo
  <2>5. taken1 \o ring1 = client.taken \o cdc.ring
    <3>1. client.taken \in Seq(Nat) /\ pulled \in Seq(Nat) /\ ring1 \in Seq(Nat)
      BY <1>1, <2>2
    <3>2. taken1 = client.taken \o pulled
      BY DEF pulled
    <3> HIDE DEF ring1, taken1
    <3>3. (client.taken \o pulled) \o ring1 = client.taken \o (pulled \o ring1)
      BY ONLY <3>1, Assoc
    <3> QED
      BY <2>2, <3>2, <3>3, Zenon
  <2> HIDE DEF taken1, ring1
  <2>6. Len(taken1) + Len(ring1) = Len(client.taken) + Len(cdc.ring) /\ Len(ring1) <= Len(cdc.ring)
    <3>1. Len(taken1) = Len(client.taken) + Len(pulled) /\ Len(pulled) \in Nat /\ Len(client.taken) \in Nat
      BY <2>3
    <3> DEFINE t1 == Len(taken1)
               r1 == Len(ring1)
               t == Len(client.taken)
               r == Len(cdc.ring)
               h == Len(pulled)
    <3>2. t1 = t + h /\ h \in Nat /\ t \in Nat /\ r = h + r1 /\ r1 \in Nat
      BY <2>4, <3>1
    <3> HIDE DEF t1, r1, t, r, h
    <3>3. t1 + r1 = t + r /\ r1 <= r
      BY <3>2
    <3> QED
      BY <3>3 DEF t1, r1, t, r
  <2> QED
    BY <2>2, <2>3, <2>5, <2>6, Zenon
<1>4. /\ client' = [[client EXCEPT !.taken = taken1] EXCEPT !.ready = ready]
      /\ cdc' = [cdc EXCEPT !.ring = ring1] /\ ready \in BOOLEAN
  BY <1>2 DEF H!After, H!Read, UsbInv, UsbTyped, ClientRecord
<1>5. ring1 # <<>> => ready
  BY <1>1, <1>3
<1> HIDE DEF taken1, ring1, ready
<1>6. cdc' \in CdcRecord /\ cdc'.fifo = cdc.fifo /\ cdc'.ring = ring1 /\ cdc'.rx_count = cdc.rx_count
      /\ cdc'.rx_drop_count = cdc.rx_drop_count
  BY <1>3, <1>4 DEF UsbInv, UsbTyped, CdcRecord
<1>7. client' \in ClientRecord /\ client'.taken = taken1 /\ (client'.ready <=> ready) /\ SameTerminal
  BY <1>3, <1>4 DEF UsbInv, UsbTyped, ClientRecord, CdcRecord, SameTerminal
<1>8. Len(ring1) <= RingSize
  BY <1>1, <1>3 DEF H!UsbAssumption
<1>9. OctetsInv'
  BY <1>1, <1>2, <1>3, <1>5, <1>6, <1>7, <1>8 DEF UsbInv, OctetsInv, H!OctetsInOrder
<1> QED
  BY <1>2, <1>6, <1>7, <1>9, TerminalStays DEF UsbInv, UsbTyped

\* The work and the timer, which say what DTR is.
LEMMA TerminalKeeps ==
  ASSUME UsbInv, H!HostToggles \/ H!fd_usb_cdc_zephyr_timer \/ H!WorkReads
                 \/ H!fd_usb_cdc_zephyr_data_terminal_ready_work
  PROVE  UsbInv'
<1> DEFINE flag == cdc.data_terminal_ready
           toggled == ~peer.dtr
           dtr == peer.dtr
           e == peer.events + 1
<1>1. e \in Nat /\ flag \in BOOLEAN /\ dtr \in BOOLEAN /\ toggled \in BOOLEAN
      /\ cdc \in CdcRecord /\ peer \in PeerRecord /\ client \in ClientRecord
  BY DEF UsbInv, UsbTyped, PeerRecord, CdcRecord
<1>2. CASE H!HostToggles
  <2>1. peer' = [[peer EXCEPT !.dtr = toggled] EXCEPT !.events = e] /\ UNCHANGED <<cdc, client, connection>>
    BY <1>1, <1>2 DEF H!HostToggles, H!Event, PeerRecord
  <2> HIDE DEF toggled, e
  <2>2. peer' \in PeerRecord /\ peer'.sent = peer.sent
    BY <1>1, <2>1 DEF PeerRecord
  <2>3. SameOctets /\ SameTerminal
    BY <2>1, <2>2 DEF SameOctets, SameTerminal
  <2> QED
    BY <2>1, <2>2, <2>3, OctetsStay, TerminalStays DEF UsbInv, UsbTyped
<1>3. CASE H!fd_usb_cdc_zephyr_timer
  <2>1. /\ cdc' = [cdc EXCEPT !.data_terminal_ready = dtr, !.submitted = TRUE]
        /\ UNCHANGED <<peer, client, connection>>
    BY <1>3 DEF H!fd_usb_cdc_zephyr_timer
  <2> HIDE DEF dtr
  <2>2. cdc' \in CdcRecord /\ cdc'.submitted
    BY <1>1, <2>1 DEF CdcRecord
  <2>3. SameOctets
    BY <1>1, <2>1 DEF SameOctets, CdcRecord
  <2> QED
    BY <2>1, <2>2, <2>3, OctetsStay DEF UsbInv, UsbTyped, TerminalInv
<1>4. CASE H!WorkReads
  <2> DEFINE w == <<flag>>
  <2>1. /\ cdc' = [cdc EXCEPT !.submitted = FALSE, !.working = w]
        /\ UNCHANGED <<peer, client, connection>>
    BY <1>4 DEF H!WorkReads
  <2>2. w \in {<<b>> : b \in BOOLEAN} /\ w # <<>> /\ w[1] = flag
    BY <1>1
  <2> HIDE DEF w
  <2>3. cdc' \in CdcRecord /\ cdc'.working = w
    BY <1>1, <2>1, <2>2 DEF CdcRecord
  <2>4. SameOctets /\ cdc'.data_terminal_ready = flag
    BY <1>1, <2>1 DEF SameOctets, CdcRecord
  <2>5. TerminalInv'
    BY <2>2, <2>3, <2>4, Zenon DEF TerminalInv
  <2> QED
    BY <2>1, <2>3, <2>4, <2>5, OctetsStay DEF UsbInv, UsbTyped
<1>5. CASE H!fd_usb_cdc_zephyr_data_terminal_ready_work
  <2> DEFINE b == cdc.working[1]
  <2>1. /\ cdc' = [cdc EXCEPT !.working = <<>>, !.dcd = b, !.dsr = b]
        /\ client' = [client EXCEPT !.terminal = b] /\ cdc.working # <<>>
        /\ UNCHANGED <<peer, connection>>
    BY <1>5 DEF H!fd_usb_cdc_zephyr_data_terminal_ready_work
  <2>2. b \in BOOLEAN
    BY <1>1, <2>1 DEF CdcRecord
  <2>3. ~cdc.submitted => b = flag
    BY <2>1 DEF UsbInv, TerminalInv
  <2> HIDE DEF b
  <2>4. cdc' \in CdcRecord /\ cdc'.dcd = b /\ cdc'.dsr = b /\ cdc'.working = <<>>
    BY <1>1, <2>1, <2>2 DEF CdcRecord
  <2>5. cdc'.submitted = cdc.submitted /\ cdc'.data_terminal_ready = flag
    BY <1>1, <2>1 DEF CdcRecord
  <2>6. client' \in ClientRecord /\ client'.terminal = b
    BY <1>1, <2>1, <2>2 DEF ClientRecord
  <2>7. SameOctets
    BY <1>1, <2>1 DEF SameOctets, CdcRecord, ClientRecord
  <2>8. TerminalInv'
    BY <2>3, <2>4, <2>5, <2>6, Zenon DEF TerminalInv
  <2> QED
    BY <2>1, <2>4, <2>6, <2>7, <2>8, OctetsStay DEF UsbInv, UsbTyped
<1> QED
  BY <1>2, <1>3, <1>4, <1>5

\* What is sent, and the status of the device.
LEMMA OthersKeep ==
  ASSUME H!UsbAssumption, UsbInv,
         H!fd_usb_cdc_tx_data \/ H!HostReceives \/ H!fd_usb_dc_status_callback
  PROVE  UsbInv'
<1> DEFINE e == peer.events + 1
           status == [is_connected : BOOLEAN, count : Nat, told : BOOLEAN]
<1>1. e \in Nat /\ cdc \in CdcRecord /\ peer \in PeerRecord /\ client \in ClientRecord
      /\ cdc.out \in Int /\ TxRoom \in Nat
  BY DEF UsbInv, UsbTyped, PeerRecord, CdcRecord, H!UsbAssumption
<1>2. CASE H!fd_usb_cdc_tx_data
  <2>1. PICK n \in 1 .. 2 :
           /\ peer' = [peer EXCEPT !.events = e] /\ UNCHANGED connection
           /\ cdc' = [cdc EXCEPT !.out = cdc.out + H!Lesser(n, TxRoom - cdc.out)]
           /\ client' = [client EXCEPT !.sent = H!Lesser(n, TxRoom - cdc.out) = n]
    BY <1>1, <1>2 DEF H!fd_usb_cdc_tx_data, H!Event, PeerRecord, CdcRecord
  <2> DEFINE sum == cdc.out + H!Lesser(n, TxRoom - cdc.out)
             whole == H!Lesser(n, TxRoom - cdc.out) = n
  <2>2. sum \in Int /\ whole \in BOOLEAN
    BY <1>1 DEF H!Lesser
  <2> HIDE DEF sum, whole, e
  <2>3. /\ cdc' = [cdc EXCEPT !.out = sum] /\ client' = [client EXCEPT !.sent = whole]
        /\ peer' = [peer EXCEPT !.events = e]
    BY <2>1 DEF sum, whole
  <2>4. cdc' \in CdcRecord
    BY <1>1, <2>2, <2>3 DEF CdcRecord
  <2>5. client' \in ClientRecord
    BY <1>1, <2>2, <2>3 DEF ClientRecord
  <2>6. peer' \in PeerRecord
    BY <1>1, <2>3 DEF PeerRecord
  <2>7. SameOctets
    BY <1>1, <2>3 DEF SameOctets, CdcRecord, ClientRecord, PeerRecord
  <2>8. SameTerminal
    BY <1>1, <2>3 DEF SameTerminal, CdcRecord, ClientRecord
  <2> QED
    BY <2>1, <2>4, <2>5, <2>6, <2>7, <2>8, OctetsStay, TerminalStays DEF UsbInv, UsbTyped
<1>3. CASE H!HostReceives
  <2> DEFINE got == peer.got + cdc.out
  <2>1. peer' = [peer EXCEPT !.got = got] /\ cdc' = [cdc EXCEPT !.out = 0]
        /\ UNCHANGED <<client, connection>> /\ got \in Int
    BY <1>1, <1>3 DEF H!HostReceives, PeerRecord
  <2> HIDE DEF got
  <2>2. cdc' \in CdcRecord
    <3> DEFINE none == 0
    <3>1. none \in Int /\ cdc' = [cdc EXCEPT !.out = none]
      BY <2>1
    <3> HIDE DEF none
    <3> QED
      BY <1>1, <3>1 DEF CdcRecord
  <2>3. peer' \in PeerRecord
    BY <1>1, <2>1 DEF PeerRecord
  <2>4. SameOctets
    BY <1>1, <2>1 DEF SameOctets, CdcRecord, PeerRecord
  <2>5. SameTerminal
    BY <1>1, <2>1 DEF SameTerminal, CdcRecord
  <2> QED
    BY <2>1, <2>2, <2>3, <2>4, <2>5, OctetsStay, TerminalStays DEF UsbInv, UsbTyped
<1>4. CASE H!fd_usb_dc_status_callback
  <2>1. PICK code \in H!Codes :
          connection' = [connection EXCEPT
              !.count = connection.count + 1,
              !.is_connected = IF code \in {"connected", "disconnected"} THEN code = "connected" ELSE connection.is_connected,
              !.told = IF code \in {"connected", "disconnected"} THEN code = "connected" ELSE connection.told]
    BY <1>4 DEF H!fd_usb_dc_status_callback, UsbInv
  <2>2. UNCHANGED <<cdc, client>> /\ peer' = [peer EXCEPT !.events = e]
    BY <1>1, <1>4 DEF H!fd_usb_dc_status_callback, H!Event, PeerRecord
  <2> DEFINE c == connection.count + 1
             b == IF code \in {"connected", "disconnected"} THEN code = "connected" ELSE connection.is_connected
  <2>3. c \in Nat /\ b \in BOOLEAN /\ connection \in status /\ connection.told = connection.is_connected
    <3>1. connection \in status /\ connection.told = connection.is_connected
      BY DEF UsbInv
    <3>2. c \in Nat
      BY <3>1
    <3>3. connection.is_connected \in BOOLEAN
      BY <3>1
    <3>4. b \in BOOLEAN
      BY <3>3
    <3> QED
      BY <3>1, <3>2, <3>4
  <2>4. connection' = [connection EXCEPT !.count = c, !.is_connected = b, !.told = b]
    BY <2>1, <2>3
  <2> HIDE DEF c, b, e
  <2>5. connection' \in status /\ connection'.told = b /\ connection'.is_connected = b
    BY <2>3, <2>4
  <2>6. peer' \in PeerRecord /\ peer'.sent = peer.sent
    BY <1>1, <2>2 DEF PeerRecord
  <2>7. SameOctets /\ SameTerminal
    BY <2>2, <2>6 DEF SameOctets, SameTerminal
  <2> QED
    BY <2>2, <2>5, <2>6, <2>7, OctetsStay, TerminalStays DEF UsbInv, UsbTyped
<1> QED
  BY <1>2, <1>3, <1>4

\* Every step keeps the invariant.
LEMMA UsbKeeps == ASSUME H!UsbAssumption, UsbInv, [H!Next]_(H!usbVars) PROVE UsbInv'
<1>1. CASE UNCHANGED H!usbVars
  BY <1>1 DEF H!usbVars, UsbInv, UsbTyped, OctetsInv, TerminalInv, H!OctetsInOrder
<1> QED
  BY <1>1, HostSendsKeeps, RoundKeeps, ReadKeeps, TerminalKeeps, OthersKeep DEF H!Next

\* What the host sends is read in order and nothing is dropped, and the DTR that the timer saw
\* last is known to the application and answered when no work is under way (fd_usb_cdc.c).
THEOREM UsbServes == ASSUME H!UsbAssumption PROVE H!Spec => []H!UsbAgrees
<1>1. UsbInv => H!UsbAgrees
  <2> SUFFICES ASSUME UsbInv, ~cdc.submitted, cdc.working = <<>>
               PROVE  {client.terminal, cdc.dcd, cdc.dsr} = {cdc.data_terminal_ready}
    BY DEF UsbInv, OctetsInv, H!UsbAgrees, H!TerminalIsReported
  <2>1. client.terminal = cdc.data_terminal_ready /\ cdc.dcd = cdc.data_terminal_ready
        /\ cdc.dsr = cdc.data_terminal_ready
    BY DEF UsbInv, TerminalInv
  <2> QED
    BY <2>1, Zenon
<1> QED
  BY <1>1, UsbStarts, UsbKeeps, PTL DEF H!Spec

-----------------------------------------------------------------------------
(* Touch. *)

\* A sequence of three is known by its elements.
LEMMA ThreeIsSeq ==
  ASSUME NEW s \in Seq(Nat), NEW a \in Nat, NEW b \in Nat, NEW c \in Nat,
         Len(s) = 3, s[1] = a, s[2] = b, s[3] = c
  PROVE  s = <<a, b, c>>
<1> DEFINE t == <<a, b, c>>
<1>1. t \in Seq(Nat) /\ Len(t) = 3 /\ t[1] = a /\ t[2] = b /\ t[3] = c
  OBVIOUS
<1> HIDE DEF t
<1>2. \A i \in 1 .. Len(s) : s[i] = t[i]
  BY <1>1
<1>3. s = t
  BY <1>1, <1>2, SeqEqual
<1> QED
  BY <1>3 DEF t

\* The registers are read in two halves.
LEMMA TwoHalves ==
  ASSUME NEW q, q \in Seq(Nat), Len(q) = 6
  PROVE  /\ \A i \in 1 .. 6 : q[i] \in Nat
         /\ SubSeq(q, 1, 3) = <<q[1], q[2], q[3]>> /\ SubSeq(q, 4, 6) = <<q[4], q[5], q[6]>>
<1>0. ASSUME NEW i \in 1 .. 6 PROVE q[i] \in Nat
  <2>1. i \in 1 .. Len(q)
    OBVIOUS
  <2> QED
    BY <2>1, ElementOfSeq
<1>1. SubSeq(q, 1, 3) = <<q[1], q[2], q[3]>>
  <2> DEFINE s == SubSeq(q, 1, 3)
  <2>0. \A i \in 1 .. 3 : q[i] \in Nat
    BY <1>0
  <2>1. s \in Seq(Nat) /\ Len(s) = (IF 1 <= 3 THEN 3 - 1 + 1 ELSE 0)
        /\ \A i \in 1 .. 3 - 1 + 1 : s[i] = q[1 + i - 1]
    BY ONLY <2>0, SubSeqProperties
  <2> HIDE DEF s
  <2>2. Len(s) = 3 /\ s[1] = q[1] /\ s[2] = q[2] /\ s[3] = q[3]
    BY ONLY <2>1
  <2>3. q[1] \in Nat /\ q[2] \in Nat /\ q[3] \in Nat
    BY <1>0
  <2>4. s = <<q[1], q[2], q[3]>>
    BY ONLY <2>1, <2>2, <2>3, ThreeIsSeq
  <2> QED
    BY <2>4 DEF s
<1>2. SubSeq(q, 4, 6) = <<q[4], q[5], q[6]>>
  <2> DEFINE s == SubSeq(q, 4, 6)
  <2>0. \A i \in 4 .. 6 : q[i] \in Nat
    BY <1>0
  <2>1. s \in Seq(Nat) /\ Len(s) = (IF 4 <= 6 THEN 6 - 4 + 1 ELSE 0)
        /\ \A i \in 1 .. 6 - 4 + 1 : s[i] = q[4 + i - 1]
    BY ONLY <2>0, SubSeqProperties
  <2> HIDE DEF s
  <2>2. Len(s) = 3 /\ s[1] = q[4] /\ s[2] = q[5] /\ s[3] = q[6]
    BY ONLY <2>1
  <2>3. q[4] \in Nat /\ q[5] \in Nat /\ q[6] \in Nat
    BY <1>0
  <2>4. s = <<q[4], q[5], q[6]>>
    BY ONLY <2>1, <2>2, <2>3, ThreeIsSeq
  <2> QED
    BY <2>4 DEF s
<1> QED
  BY <1>0, <1>1, <1>2

\* The elements of two halves, joined.
LEMMA Join6 ==
  ASSUME NEW a \in Nat, NEW b \in Nat, NEW c \in Nat, NEW d \in Nat, NEW e \in Nat, NEW f \in Nat,
         NEW q, q = <<a, b, c>> \o <<d, e, f>>
  PROVE  q[1] = a /\ q[2] = b /\ q[3] = c /\ q[4] = d /\ q[5] = e /\ q[6] = f
<1> DEFINE l == <<a, b, c>>
           r == <<d, e, f>>
<1>1. l \in Seq(Nat) /\ r \in Seq(Nat) /\ Len(l) = 3 /\ Len(r) = 3
      /\ l[1] = a /\ l[2] = b /\ l[3] = c /\ r[1] = d /\ r[2] = e /\ r[3] = f
  OBVIOUS
<1>2. q = l \o r
  OBVIOUS
<1> HIDE DEF l, r
<1>4. \A i \in 1 .. Len(l) + Len(r) : (l \o r)[i] = IF i <= Len(l) THEN l[i] ELSE r[i - Len(l)]
  BY <1>1, ConcatProperties
<1>3. /\ (l \o r)[1] = l[1] /\ (l \o r)[2] = l[2] /\ (l \o r)[3] = l[3]
      /\ (l \o r)[4] = r[1] /\ (l \o r)[5] = r[2] /\ (l \o r)[6] = r[3]
  <2>1. Len(l) = 3 /\ Len(r) = 3
    BY <1>1
  <2>2. \A i \in 1 .. 6 : (l \o r)[i] = IF i <= 3 THEN l[i] ELSE r[i - 3]
    <3>1. ASSUME NEW i \in 1 .. 6 PROVE (l \o r)[i] = IF i <= 3 THEN l[i] ELSE r[i - 3]
      <4>1. i \in 1 .. Len(l) + Len(r)
        BY <2>1
      <4>2. (l \o r)[i] = IF i <= Len(l) THEN l[i] ELSE r[i - Len(l)]
        BY ONLY <1>4, <4>1
      <4> QED
        BY ONLY <2>1, <4>2
    <3> QED
      BY <3>1, Zenon
  <2> DEFINE lr == l \o r
  <2> HIDE DEF lr
  <2>3. \A i \in 1 .. 6 : lr[i] = IF i <= 3 THEN l[i] ELSE r[i - 3]
    BY <2>2 DEF lr
  <2>4. lr[1] = l[1] /\ lr[2] = l[2] /\ lr[3] = l[3] /\ lr[4] = r[1] /\ lr[5] = r[2] /\ lr[6] = r[3]
    BY ONLY <2>3
  <2> QED
    BY <2>4 DEF lr
<1> QED
  BY <1>1, <1>2, <1>3, Zenon

\* The parts of a coordinate, as the registers hold them.
High(n) == n \div 256
Low(n) == n % 256
Nibble(n) == n % 16

\* A coordinate has twelve bits.
Coordinates == 0 .. 4095
Splits(x) ==
    /\ High(x) \in Nat /\ Low(x) \in Nat /\ 256 * High(x) + Low(x) = x
    /\ Nibble(128 + High(x)) = High(x) /\ Nibble(High(x)) = High(x)

\* Twelve bits, put together from their parts.
LEMMA CoordinateParts == \A x \in Coordinates : Splits(x)
<1> SUFFICES ASSUME NEW x \in Coordinates PROVE Splits(x)
  OBVIOUS
<1>0. x \in Nat /\ x <= 4095
  BY DEF Coordinates
<1>1. x \in Nat /\ High(x) \in Int /\ Low(x) \in 0 .. 255 /\ x = 256 * High(x) + Low(x)
  BY <1>0 DEF High, Low
<1>2. High(x) \in 0 .. 15
  <2>1. PICK h \in Int, l \in Nat : h = High(x) /\ l = Low(x) /\ l <= 255 /\ x = 256 * h + l
    BY <1>1
  <2>3. h >= 0 /\ h <= 15
    BY <1>0, <2>1
  <2> QED
    BY <2>1, <2>3
<1>3. \A n \in 0 .. 15 : Nibble(128 + n) = n /\ Nibble(n) = n
  BY DEF Nibble
<1> QED
  BY <1>1, <1>2, <1>3 DEF Splits

-----------------------------------------------------------------------------
\* Where a finger can be, and what can be decoded from registers.
Touches == [gesture : Nat, finger : Nat, x : Coordinates, y : Coordinates]
ToldTouch == [gesture : Nat, finger : Nat, x : Nat, y : Nat]

\* The six registers of a touch.
LEMMA RegistersOf ==
  ASSUME NEW f
  PROVE  P!Registers(f) = <<f.gesture, f.finger, 128 + High(f.x), Low(f.x), High(f.y), Low(f.y)>>
  BY DEF P!Registers, P!Down, High, Low

\* The registers are six numbers.
LEMMA RegistersFacts ==
  ASSUME NEW f \in Touches, NEW r, r = P!Registers(f)
  PROVE  r \in Seq(Nat) /\ Len(r) = 6
<1>1. f.gesture \in Nat /\ f.finger \in Nat /\ f.x \in Coordinates /\ f.y \in Coordinates
  BY DEF Touches
<1>2. High(f.x) \in Nat /\ Low(f.x) \in Nat /\ High(f.y) \in Nat /\ Low(f.y) \in Nat
  <2>1. Splits(f.x) /\ Splits(f.y)
    BY ONLY <1>1, CoordinateParts, Zenon
  <2> QED
    BY ONLY <2>1 DEF Splits
<1> DEFINE a == f.gesture
           b == f.finger
           c == 128 + High(f.x)
           d == Low(f.x)
           e == High(f.y)
           g == Low(f.y)
<1>3. r = <<a, b, c, d, e, g>>
  BY RegistersOf, Zenon
<1>4. a \in Nat /\ b \in Nat /\ c \in Nat /\ d \in Nat /\ e \in Nat /\ g \in Nat
  BY <1>1, <1>2
<1> HIDE DEF a, b, c, d, e, g
<1> QED
  BY ONLY <1>3, <1>4

\* What is decoded from the registers of a touch has these registers.
LEMMA DecodesBack ==
  ASSUME NEW f \in Touches, NEW r, r = P!Registers(f), NEW q,
         q[1] = r[1], q[2] = r[2], q[3] = r[3], q[4] = r[4], q[5] = r[5], q[6] = r[6]
  PROVE  P!Registers(P!Decoded(q)) = r
<1>1. f.x \in Coordinates /\ f.y \in Coordinates
  BY DEF Touches
<1> DEFINE x == f.x
           y == f.y
<1>2. r = <<f.gesture, f.finger, 128 + High(x), Low(x), High(y), Low(y)>>
  BY RegistersOf
<1>3. /\ q[1] = f.gesture /\ q[2] = f.finger /\ q[3] = 128 + High(x) /\ q[4] = Low(x)
      /\ q[5] = High(y) /\ q[6] = Low(y)
  BY <1>2
<1>4. 256 * Nibble(q[3]) + q[4] = x /\ 256 * Nibble(q[5]) + q[6] = y
  <2>0. Splits(x) /\ Splits(y)
    BY ONLY <1>1, CoordinateParts, Zenon
  <2>1. 256 * High(x) + Low(x) = x /\ Nibble(128 + High(x)) = High(x)
    BY ONLY <2>0 DEF Splits
  <2>2. 256 * High(y) + Low(y) = y /\ Nibble(High(y)) = High(y)
    BY ONLY <2>0 DEF Splits
  <2> HIDE DEF x, y
  <2>3. Nibble(q[3]) = High(x) /\ Nibble(q[5]) = High(y) /\ q[4] = Low(x) /\ q[6] = Low(y)
    BY ONLY <1>3, <2>1, <2>2, Zenon
  <2> QED
    BY ONLY <2>1, <2>2, <2>3, Zenon
<1>5. P!Decoded(q) = [gesture |-> q[1], finger |-> q[2], x |-> 256 * Nibble(q[3]) + q[4],
                      y |-> 256 * Nibble(q[5]) + q[6]]
  BY DEF P!Decoded, Nibble
<1> DEFINE d == P!Decoded(q)
<1>6. d.gesture = f.gesture /\ d.finger = f.finger /\ d.x = x /\ d.y = y
  BY <1>3, <1>4, <1>5
<1>7. P!Registers(d) = <<d.gesture, d.finger, 128 + High(d.x), Low(d.x), High(d.y), Low(d.y)>>
  BY RegistersOf
<1> HIDE DEF d
<1>8. P!Registers(d) = r
  BY <1>2, <1>6, <1>7
<1> QED
  BY <1>8 DEF d

-----------------------------------------------------------------------------
\* The sensor and its driver.
ChipRecord ==
    [registers : {P!Registers(f) : f \in Touches}, pulse : BOOLEAN, identity : {P!Identity}, moves : Nat, nacks : Nat]
Fronts == {<<>>} \cup {<<a, b, c>> : a, b, c \in Nat}
TouchRecord ==
    [state : {"off", "configured", "ready"}, submitted : BOOLEAN, data : Fronts, asserts : Nat]

\* What was read of the first registers, and what the application was told, is what
\* the chip has, unless an interrupt or a work is to come.
TouchInv ==
    /\ chip \in ChipRecord /\ touch \in TouchRecord
    /\ DOMAIN heard = {"last", "failed"} /\ heard = [last |-> heard.last, failed |-> heard.failed]
    /\ touch.state = "off" => ~touch.submitted /\ touch.data = <<>>
    /\ ~chip.pulse /\ ~touch.submitted /\ touch.data # <<>> => touch.data = SubSeq(chip.registers, 1, 3)
    /\ P!TouchSettles

\* Nothing is read before the pins are configured.
LEMMA TouchStarts == P!Init => TouchInv
<1> SUFFICES ASSUME P!Init PROVE TouchInv
  OBVIOUS
<1>1. P!Lifted \in Touches
  <2>1. 0 \in Coordinates
    BY DEF Coordinates
  <2> QED
    BY <2>1 DEF P!Lifted, Touches
<1> DEFINE r == P!Registers(P!Lifted)
<1>2. r \in {P!Registers(f) : f \in Touches}
  BY <1>1
<1> HIDE DEF r
<1>3. /\ chip = [registers |-> r, pulse |-> FALSE, identity |-> P!Identity, moves |-> 0, nacks |-> 0]
      /\ touch = [state |-> "off", submitted |-> FALSE, data |-> <<>>, asserts |-> 0]
      /\ heard = [last |-> P!Lifted, failed |-> FALSE]
  BY DEF P!Init, r
<1>4. chip \in ChipRecord /\ touch \in TouchRecord
  BY <1>2, <1>3 DEF ChipRecord, TouchRecord, Fronts
<1>5. P!TouchSettles
  BY <1>3 DEF P!TouchSettles, r
<1> QED
  BY <1>3, <1>4, <1>5 DEF TouchInv

\* The finger moves: the interrupt is to come.
LEMMA FingerKeeps == ASSUME P!TouchAssumption, TouchInv, P!FingerMoves PROVE TouchInv'
<1>1. PICK f \in Fingers : chip' = [chip EXCEPT !.registers = P!Registers(f), !.moves = chip.moves + 1,
                                              !.pulse = touch.state # "off"]
  BY DEF P!FingerMoves, TouchInv
<1>2. UNCHANGED touch /\ heard' = IF touch.state = "off" THEN [heard EXCEPT !.failed = TRUE] ELSE heard
  BY DEF P!FingerMoves
<1> DEFINE r == P!Registers(f)
           n == chip.moves + 1
           b == touch.state # "off"
           g == [gesture |-> f.gesture, finger |-> f.finger, x |-> f.x, y |-> f.y]
<1>3. r \in {P!Registers(h) : h \in Touches}
  <2>1. g \in Touches
    <3> HIDE DEF r, n, b
    <3>0. \A h \in Fingers :
            h.gesture \in Nat /\ h.finger \in Nat /\ h.x \in Coordinates /\ h.y \in Coordinates
      BY SMTT(60) DEF P!TouchAssumption, Coordinates
    <3>1. f.gesture \in Nat /\ f.finger \in Nat /\ f.x \in Coordinates /\ f.y \in Coordinates
      BY <3>0
    <3> HIDE DEF g
    <3>2. g = [gesture |-> f.gesture, finger |-> f.finger, x |-> f.x, y |-> f.y]
      BY DEF g
    <3>3. \A gs, fi \in Nat, px, py \in Coordinates : [gesture |-> gs, finger |-> fi, x |-> px, y |-> py] \in Touches
      BY DEF Touches
    <3> QED
      BY <3>1, <3>2, <3>3
  <2>2. P!Registers(g) = P!Registers(f)
    BY DEF P!Registers
  <2> QED
    BY <2>1, <2>2
<1>4. n \in Nat /\ b \in BOOLEAN
  BY DEF TouchInv, ChipRecord
<1> HIDE DEF r, n, b
<1>5. chip' = [chip EXCEPT !.registers = r, !.moves = n, !.pulse = b]
  BY <1>1 DEF r, n, b
<1>6. chip' \in ChipRecord /\ (chip'.pulse <=> b)
  BY <1>3, <1>4, <1>5 DEF TouchInv, ChipRecord
<1>7. DOMAIN heard' = {"last", "failed"} /\ heard' = [last |-> heard'.last, failed |-> heard'.failed]
      /\ (~b => heard'.failed)
  BY <1>2 DEF TouchInv, b
<1>8. ~chip'.pulse => touch.state = "off"
  BY <1>6 DEF b
<1> QED
  BY <1>2, <1>6, <1>7, <1>8 DEF TouchInv, P!TouchSettles

\* The work reads the first registers, or fails.
LEMMA WorkKeeps == ASSUME P!TouchAssumption, TouchInv, P!WorkReads PROVE TouchInv'
<1>1. touch.submitted /\ touch.data = <<>> /\ touch \in TouchRecord /\ chip \in ChipRecord
      /\ touch.state # "off"
  BY DEF P!WorkReads, TouchInv
<1>2. PICK f \in Touches : chip.registers = P!Registers(f)
  BY <1>1 DEF ChipRecord
<1> DEFINE front == SubSeq(chip.registers, 1, 3)
<1>3. front \in {<<a, b, c>> : a, b, c \in Nat}
  <2> DEFINE r == chip.registers
  <2>1. r \in Seq(Nat) /\ Len(r) = 6
    BY <1>2, RegistersFacts
  <2>2. front = <<r[1], r[2], r[3]>> /\ \A i \in 1 .. 6 : r[i] \in Nat
    BY ONLY <2>1, TwoHalves
  <2> QED
    BY <2>2
<1>4. CASE touch' = [touch EXCEPT !.submitted = FALSE, !.data = front] /\ UNCHANGED <<chip, heard>>
  <2> HIDE DEF front
  <2>1. touch' \in TouchRecord /\ touch'.data = front /\ touch'.state = touch.state
    <3>1. front \in Fronts
      BY <1>3 DEF Fronts
    <3> QED
      BY <1>1, <1>4, <3>1 DEF TouchRecord
  <2>2. front # <<>>
    BY <1>3
  <2> QED
    BY <1>1, <1>4, <2>1, <2>2 DEF TouchInv, P!TouchSettles, front
<1>5. CASE P!Nack /\ touch' = P!Asserted([touch EXCEPT !.submitted = FALSE])
           /\ heard' = [heard EXCEPT !.failed = TRUE]
  <2> DEFINE n == touch.asserts + 1
             k == chip.nacks + 1
  <2>1. touch' = [[touch EXCEPT !.submitted = FALSE] EXCEPT !.asserts = n] /\ n \in Nat
        /\ chip' = [chip EXCEPT !.nacks = k] /\ k \in Nat
    BY <1>1, <1>5 DEF P!Asserted, P!Nack, TouchRecord, ChipRecord
  <2> HIDE DEF n, k
  <2>2. touch' \in TouchRecord /\ touch'.data = <<>> /\ touch'.state = touch.state
    BY <1>1, <2>1 DEF TouchRecord
  <2>3. chip' \in ChipRecord
    BY <1>1, <2>1 DEF ChipRecord
  <2>4. DOMAIN heard' = {"last", "failed"} /\ heard' = [last |-> heard'.last, failed |-> heard'.failed]
        /\ heard'.failed
    BY <1>5 DEF TouchInv
  <2> QED
    BY <1>1, <2>2, <2>3, <2>4 DEF TouchInv, P!TouchSettles
<1> QED
  BY <1>4, <1>5, Zenon DEF P!WorkReads

\* fd_cst816s_read_touch: the rest is read, and the application is told.
LEMMA ReadTouchKeeps == ASSUME P!TouchAssumption, TouchInv, P!fd_cst816s_read_touch PROVE TouchInv'
<1>1. touch.data # <<>> /\ touch \in TouchRecord /\ chip \in ChipRecord /\ UNCHANGED chip
      /\ touch' = [touch EXCEPT !.data = <<>>]
      /\ heard' = [last |-> P!Decoded(touch.data \o SubSeq(chip.registers, 4, 6)), failed |-> FALSE]
  BY DEF P!fd_cst816s_read_touch, TouchInv
<1>2. PICK f \in Touches : chip.registers = P!Registers(f)
  BY <1>1 DEF ChipRecord
<1> DEFINE r == chip.registers
           q == touch.data \o SubSeq(r, 4, 6)
<1>3. touch' \in TouchRecord /\ touch'.data = <<>> /\ touch'.state = touch.state
      /\ (touch'.submitted <=> touch.submitted)
  <2> DEFINE none == <<>>
  <2>1. none \in Fronts /\ touch' = [touch EXCEPT !.data = none]
    BY <1>1 DEF Fronts
  <2> HIDE DEF none
  <2>2. touch' \in TouchRecord /\ touch'.data = none /\ touch'.state = touch.state
        /\ (touch'.submitted <=> touch.submitted)
    BY <1>1, <2>1 DEF TouchRecord
  <2> QED
    BY <2>2 DEF none
<1>4. ASSUME ~chip.pulse, ~touch.submitted PROVE P!Registers(P!Decoded(q)) = r
  <2>1. touch.data = SubSeq(r, 1, 3)
    BY <1>1, <1>4 DEF TouchInv
  <2>2. r \in Seq(Nat) /\ Len(r) = 6
    BY <1>2, RegistersFacts
  <2>3. touch.data = <<r[1], r[2], r[3]>> /\ SubSeq(r, 4, 6) = <<r[4], r[5], r[6]>>
        /\ \A i \in 1 .. 6 : r[i] \in Nat
    BY ONLY <2>1, <2>2, TwoHalves
  <2>4. q = <<r[1], r[2], r[3]>> \o <<r[4], r[5], r[6]>>
    BY <2>3
  <2>5. r[1] \in Nat /\ r[2] \in Nat /\ r[3] \in Nat /\ r[4] \in Nat /\ r[5] \in Nat /\ r[6] \in Nat
    BY <2>3
  <2> HIDE DEF q
  <2>6. q[1] = r[1] /\ q[2] = r[2] /\ q[3] = r[3] /\ q[4] = r[4] /\ q[5] = r[5] /\ q[6] = r[6]
    BY ONLY <2>4, <2>5, Join6
  <2> QED
    BY <1>2, <2>6, DecodesBack
<1> HIDE DEF q
<1>5. heard' = [last |-> P!Decoded(q), failed |-> FALSE]
  BY <1>1 DEF q
<1>6. P!TouchSettles'
  BY <1>1, <1>3, <1>4, <1>5 DEF P!TouchSettles
<1> QED
  BY <1>1, <1>3, <1>5, <1>6 DEF TouchInv

\* The pins, the identity and the interrupt.
LEMMA OtherTouchKeeps ==
  ASSUME TouchInv, P!ConfigurePins \/ P!ReadIdentity \/ P!fd_cst816s_isr
  PROVE  TouchInv'
<1>1. chip \in ChipRecord /\ touch \in TouchRecord /\ UNCHANGED heard
  BY DEF TouchInv, P!ConfigurePins, P!ReadIdentity, P!fd_cst816s_isr
<1>2. CASE P!ConfigurePins
  <2>1. touch' = [touch EXCEPT !.state = "configured"] /\ UNCHANGED chip
    BY <1>2 DEF P!ConfigurePins
  <2>2. touch' \in TouchRecord /\ touch'.data = touch.data /\ touch'.state = "configured"
        /\ (touch'.submitted <=> touch.submitted)
    BY <1>1, <2>1 DEF TouchRecord
  <2> QED
    BY <1>1, <2>1, <2>2 DEF TouchInv, P!TouchSettles
<1>3. CASE P!ReadIdentity
  <2> DEFINE n == touch.asserts + 1
             k == chip.nacks + 1
  <2>1. /\ n \in Nat /\ k \in Nat
        /\ \/ touch' = [touch EXCEPT !.state = "ready"]
           \/ touch' = [[touch EXCEPT !.state = "ready"] EXCEPT !.asserts = n]
        /\ UNCHANGED chip \/ chip' = [chip EXCEPT !.nacks = k]
    BY <1>1, <1>3 DEF P!ReadIdentity, P!Asserted, P!Nack, TouchRecord, ChipRecord
  <2> HIDE DEF n, k
  <2>2. touch' \in TouchRecord /\ touch'.data = touch.data /\ touch'.state = "ready"
        /\ (touch'.submitted <=> touch.submitted)
    BY <1>1, <2>1 DEF TouchRecord
  <2>3. chip' \in ChipRecord /\ chip'.registers = chip.registers /\ (chip'.pulse <=> chip.pulse)
    BY <1>1, <2>1 DEF ChipRecord
  <2> QED
    BY <1>1, <2>2, <2>3 DEF TouchInv, P!TouchSettles
<1>4. CASE P!fd_cst816s_isr
  <2>1. touch' = [touch EXCEPT !.submitted = TRUE] /\ chip' = [chip EXCEPT !.pulse = FALSE]
        /\ touch.state # "off"
    BY <1>4 DEF P!fd_cst816s_isr
  <2>2. touch' \in TouchRecord /\ touch'.submitted /\ touch'.state = touch.state
    BY <1>1, <2>1 DEF TouchRecord
  <2>3. chip' \in ChipRecord
    BY <1>1, <2>1 DEF ChipRecord
  <2> QED
    BY <1>1, <2>1, <2>2, <2>3 DEF TouchInv, P!TouchSettles
<1> QED
  BY <1>2, <1>3, <1>4

\* When no interrupt and no work is to come, the application knows where the finger is,
\* unless a read failed (fd_cst816s.c).
THEOREM TouchSettled == ASSUME P!TouchAssumption PROVE P!Spec => []P!TouchSettles
<1>1. TouchInv /\ [P!Next]_(P!touchVars) => TouchInv'
  <2>1. CASE UNCHANGED P!touchVars
    BY <2>1 DEF P!touchVars, TouchInv, P!TouchSettles
  <2> QED
    BY <2>1, FingerKeeps, WorkKeeps, ReadTouchKeeps, OtherTouchKeeps DEF P!Next
<1>2. TouchInv => P!TouchSettles
  BY DEF TouchInv
<1> QED
  BY <1>1, <1>2, TouchStarts, PTL DEF P!Spec

-----------------------------------------------------------------------------
\* Bytes are sent in the order they are handed over, on a line as it was asked for; what
\* the host sends over USB is read in order and its DTR reported in the end; and the
\* application knows in the end where the finger is.
THEOREM DriversKeepOrder ==
  ASSUME DriversAssumption, H!UsbAssumption, P!TouchAssumption
  PROVE  U!Spec /\ H!Spec /\ P!Spec => []SentInOrder
<1>1. U!Spec => []U!SentInOrder
  BY UartSends DEF DriversAssumption
<1>2. H!Spec => []H!UsbAgrees
  BY UsbServes
<1>3. P!Spec => []P!TouchSettles
  BY TouchSettled
<1>4. U!SentInOrder /\ H!UsbAgrees /\ P!TouchSettles => SentInOrder
  BY LineAsAsked DEF SentInOrder
<1> QED
  BY <1>1, <1>2, <1>3, <1>4, PTL
-----------------------------------------------------------------------------
(* Fifo. *)

(* The strengthening of the types: what each side still has to do is still *)
(* possible, whatever the other side did since it checked.                 *)

ProducerHasRoom ==
    /\ producer # "idle" => mode = "threads" /\ NextIndex(tail) # head
    /\ producer = "publish" => buffer[tail] = item

ConsumerHasItem ==
    /\ consumer \in {"read", "free"} => head # tail
    /\ consumer = "flush" => mode = "interrupt" /\ head = 0

IInv == FifoTypeOK /\ ProducerHasRoom /\ ConsumerHasItem

-----------------------------------------------------------------------------
(* The arithmetic of the indices. *)

\* There is room for an item beside the place that stays unused.
LEMMA SizeFacts == Size \in Nat /\ Size >= 2 /\ 0 \in Indices
  BY SizeAssumption DEF Indices

\* The next index is another one, and wraps at the end of the buffer.
LEMMA NextFacts ==
    ASSUME NEW i \in Indices
    PROVE  /\ NextIndex(i) \in Indices
           /\ NextIndex(i) # i
           /\ NextIndex(i) = IF i + 1 = Size THEN 0 ELSE i + 1
  BY SizeFacts DEF Indices, NextIndex

\* Both fifos refuse in the same states.
LEMMA RoomFacts ==
    ASSUME FifoTypeOK
    PROVE  HasRoom <=> NextIndex(tail) # head
  BY SizeFacts DEF FifoTypeOK, HasRoom, fd_object_fifo_is_full, fd_fifo_get_count, NextIndex, Indices

\* The count is 0 exactly when the fifo is empty, and its limit when it refuses.
LEMMA CountFacts ==
    ASSUME FifoTypeOK
    PROVE  /\ fd_fifo_get_count \in 0 .. Size - 1
           /\ fd_fifo_get_count = 0 <=> head = tail
           /\ HasRoom <=> fd_fifo_get_count < Size - 1
  BY SizeFacts DEF FifoTypeOK, HasRoom, fd_object_fifo_is_full, fd_fifo_get_count, NextIndex, Indices

\* The remainder that fd_object_fifo_view takes wraps at most once.
LEMMA PlaceFacts ==
    ASSUME FifoTypeOK, NEW i \in Indices
    PROVE  Place(i) \in Indices /\ Place(i) = (head + i) % Size
  BY SizeFacts DEF FifoTypeOK, Place, Indices

-----------------------------------------------------------------------------
(* The types and what each side relies on. *)

\* An initialized fifo is empty, and neither side is inside of a call.
LEMMA InitInv == Init => IInv
  BY SizeFacts DEF Init, IInv, FifoTypeOK, ProducerHasRoom, ConsumerHasItem

\* A put fills a free place and keeps head and tail apart; a get, which only moves
\* the head up to the tail, makes more room for the producer.
LEMMA StepInv ==
    ASSUME IInv, [Next]_fifoVars
    PROVE  IInv'
<1>0. head \in Indices /\ tail \in Indices /\ FifoTypeOK
  BY DEF IInv, FifoTypeOK
<1> USE SizeFacts DEF IInv, FifoTypeOK, ProducerHasRoom, ConsumerHasItem
<1>1. ASSUME NEW d \in Data, PutCheck(d) PROVE IInv'
  BY <1>0, <1>1, RoomFacts DEF PutCheck
<1>2. ASSUME NEW d \in Data, fd_fifo_put(d) PROVE IInv'
  BY <1>0, <1>2, RoomFacts, NextFacts DEF fd_fifo_put
<1>3. CASE PutWrite
  BY <1>0, <1>3 DEF PutWrite
<1>4. CASE PutPublish
  BY <1>0, <1>4, NextFacts DEF PutPublish
<1>5. CASE GetCheck
  BY <1>5 DEF GetCheck
<1>6. CASE GetRead
  BY <1>0, <1>6 DEF GetRead
<1>7. CASE GetFree
  <2>1. NextIndex(head) \in Indices
    BY <1>0, NextFacts
  <2>2. NextIndex(tail) # head => NextIndex(tail) # NextIndex(head) \/ head = tail
    BY <1>0, NextFacts DEF Indices
  <2> QED
    BY <1>0, <1>7, <2>1, <2>2 DEF GetFree
<1>8. ASSUME NEW i \in Indices, fd_object_fifo_view(i) PROVE IInv'
  <2>1. (head + i) % Size \in Indices
    BY <1>0, PlaceFacts
  <2> QED
    BY <1>0, <1>8, <2>1 DEF fd_object_fifo_view
<1>9. CASE FlushHead
  BY <1>0, <1>9 DEF FlushHead
<1>10. CASE FlushTail
  BY <1>0, <1>10 DEF FlushTail
<1>11. CASE UNCHANGED fifoVars
  BY <1>11 DEF fifoVars, NextIndex
<1> QED
  BY <1>1, <1>2, <1>3, <1>4, <1>5, <1>6, <1>7, <1>8, <1>9, <1>10, <1>11 DEF Next, Producer, Consumer

\* The indices stay inside of the buffer, in every interleaving of put, get and flush.
THEOREM TypeCorrect == Spec => []FifoTypeOK
<1>1. Init => IInv
  BY InitInv
<1>2. IInv /\ [Next]_fifoVars => IInv'
  BY StepInv
<1>3. IInv => FifoTypeOK
  BY DEF IInv
<1> QED
  BY <1>1, <1>2, <1>3, PTL DEF Spec

-----------------------------------------------------------------------------
(* The items between two indices, as a sequence. *)

Count(h, t) == IF h <= t THEN t - h ELSE (Size - h) + t
At(h, i) == IF h + i >= Size THEN h + i - Size ELSE h + i
Items(b, h, t) == [i \in 1 .. Count(h, t) |-> b[At(h, i - 1)]]

\* They form a sequence that leaves the place at the tail free.
LEMMA ItemsFacts ==
    ASSUME NEW b \in [Indices -> Data], NEW h \in Indices, NEW t \in Indices
    PROVE  /\ Count(h, t) \in 0 .. Size - 1
           /\ \A i \in 1 .. Count(h, t) : At(h, i - 1) \in Indices /\ At(h, i - 1) # t
           /\ Items(b, h, t) \in Seq(Data)
           /\ Len(Items(b, h, t)) = Count(h, t)
           /\ \A i \in 1 .. Count(h, t) : Items(b, h, t)[i] = b[At(h, i - 1)]
<1>1. Count(h, t) \in 0 .. Size - 1
  BY SizeFacts DEF Count, Indices
<1>2. \A i \in 1 .. Count(h, t) : At(h, i - 1) \in Indices /\ At(h, i - 1) # t
  BY SizeFacts DEF Count, At, Indices
<1>3. Items(b, h, t) \in [1 .. Count(h, t) -> Data]
  BY <1>2 DEF Items
<1>4. Items(b, h, t) \in Seq(Data) /\ Len(Items(b, h, t)) = Count(h, t)
  BY <1>1, <1>3
<1> QED
  BY <1>1, <1>2, <1>4 DEF Items

\* A write at the tail touches no item.
LEMMA WriteKeepsItems ==
    ASSUME NEW b \in [Indices -> Data], NEW h \in Indices, NEW t \in Indices, NEW d \in Data
    PROVE  Items([b EXCEPT ![t] = d], h, t) = Items(b, h, t)
<1>1. \A i \in 1 .. Count(h, t) : [b EXCEPT ![t] = d][At(h, i - 1)] = b[At(h, i - 1)]
  BY ItemsFacts
<1> QED
  BY <1>1 DEF Items

\* Moving the tail (fd_object_fifo_commit) appends the item at it.
LEMMA MoveTailAppends ==
    ASSUME NEW b \in [Indices -> Data], NEW h \in Indices, NEW t \in Indices, NextIndex(t) # h
    PROVE  Items(b, h, NextIndex(t)) = Append(Items(b, h, t), b[t])
<1>0. NextIndex(t) \in Indices /\ b[t] \in Data
  BY NextFacts
<1>1. Count(h, NextIndex(t)) = Count(h, t) + 1 /\ At(h, Count(h, t)) = t
  BY SizeFacts DEF Count, At, NextIndex, Indices
<1> DEFINE s == Items(b, h, NextIndex(t))
           r == Append(Items(b, h, t), b[t])
<1>2. s \in Seq(Data) /\ Len(s) = Count(h, t) + 1 /\ Count(h, t) \in Nat
      /\ \A i \in 1 .. Count(h, t) + 1 : s[i] = b[At(h, i - 1)]
  <2>1. /\ s \in Seq(Data)
        /\ Len(s) = Count(h, NextIndex(t))
        /\ \A i \in 1 .. Count(h, NextIndex(t)) : s[i] = b[At(h, i - 1)]
    BY <1>0, ItemsFacts
  <2>2. Count(h, t) \in Nat
    BY SizeFacts, ItemsFacts
  <2> HIDE DEF s
  <2> QED
    BY <1>1, <2>1, <2>2
<1>3. r \in Seq(Data) /\ Len(r) = Count(h, t) + 1
      /\ (\A i \in 1 .. Count(h, t) : r[i] = b[At(h, i - 1)]) /\ r[Count(h, t) + 1] = b[t]
  <2> DEFINE q == Items(b, h, t)
  <2>1. /\ q \in Seq(Data)
        /\ Len(q) = Count(h, t)
        /\ \A i \in 1 .. Count(h, t) : q[i] = b[At(h, i - 1)]
    BY ItemsFacts
  <2>2. r = Append(q, b[t])
    OBVIOUS
  <2> HIDE DEF q, r
  <2>3. /\ r \in Seq(Data) /\ Len(r) = Len(q) + 1
        /\ \A i \in 1 .. Len(q) : r[i] = q[i]
        /\ r[Len(q) + 1] = b[t]
    BY <1>0, <2>1, <2>2, AppendProperties
  <2> QED
    BY <2>1, <2>3
<1>4. \A i \in 1 .. Len(s) : s[i] = r[i]
  BY <1>1, <1>2, <1>3
<1> HIDE DEF s, r
<1>5. s = r
  BY <1>2, <1>3, <1>4, SeqEqual
<1> QED
  BY <1>5 DEF s, r

\* Moving the head (fd_object_fifo_deallocate) removes the oldest item.
LEMMA MoveHeadRemoves ==
    ASSUME NEW b \in [Indices -> Data], NEW h \in Indices, NEW t \in Indices, h # t
    PROVE  /\ Items(b, h, t) # <<>>
           /\ Items(b, NextIndex(h), t) = Tail(Items(b, h, t))
<1>0. NextIndex(h) \in Indices
  BY NextFacts
<1>1. Count(h, t) >= 1 /\ Count(NextIndex(h), t) = Count(h, t) - 1
  BY SizeFacts DEF Count, NextIndex, Indices
<1>2. \A i \in 1 .. Count(h, t) - 1 : At(NextIndex(h), i - 1) = At(h, (i + 1) - 1)
  BY SizeFacts DEF Count, At, NextIndex, Indices
<1> DEFINE s == Items(b, NextIndex(h), t)
           q == Items(b, h, t)
<1>3. q \in Seq(Data) /\ Len(q) = Count(h, t) /\ Count(h, t) \in Nat
      /\ \A i \in 1 .. Count(h, t) : q[i] = b[At(h, i - 1)]
  BY ItemsFacts
<1>4. s \in Seq(Data) /\ Len(s) = Count(h, t) - 1
      /\ \A i \in 1 .. Count(h, t) - 1 : s[i] = b[At(NextIndex(h), i - 1)]
  <2>1. /\ s \in Seq(Data)
        /\ Len(s) = Count(NextIndex(h), t)
        /\ \A i \in 1 .. Count(NextIndex(h), t) : s[i] = b[At(NextIndex(h), i - 1)]
    BY <1>0, ItemsFacts
  <2> HIDE DEF s
  <2> QED
    BY <1>1, <2>1
<1> HIDE DEF s, q
<1>5. q # <<>>
  BY <1>1, <1>3, EmptySeq
<1>6. Tail(q) \in Seq(Data) /\ Len(Tail(q)) = Count(h, t) - 1
      /\ \A i \in 1 .. Count(h, t) - 1 : Tail(q)[i] = q[i + 1]
  BY <1>3, <1>5, HeadTailProperties
<1>7. \A i \in 1 .. Len(s) : s[i] = Tail(q)[i]
  BY <1>1, <1>2, <1>3, <1>4, <1>6
<1>8. s = Tail(q)
  BY <1>4, <1>6, <1>7, SeqEqual
<1> QED
  BY <1>5, <1>8 DEF s, q

-----------------------------------------------------------------------------
(* The refinement. *)

\* What the queue holds are the items, before and after a step.
LEMMA ContentsAreItems ==
    /\ Contents = IF consumer = "flush" THEN <<>> ELSE Items(buffer, head, tail)
    /\ Contents' = IF consumer' = "flush" THEN <<>> ELSE Items(buffer', head', tail')
  BY DEF Contents, Items, Count, At, fd_fifo_get_count, Place

\* Equal indices mean an empty queue.
LEMMA EmptyItems ==
    ASSUME NEW b \in [Indices -> Data], NEW h \in Indices
    PROVE  Items(b, h, h) = <<>>
<1>1. Count(h, h) = 0
  BY DEF Count, Indices
<1> QED
  BY <1>1, ItemsFacts, EmptySeq

\* An initialized fifo is an empty queue.
LEMMA InitRefines == Init => Queue!Init
<1> SUFFICES ASSUME Init PROVE Contents = <<>> /\ out \in Data
  BY DEF Queue!Init
<1>1. buffer \in [Indices -> Data] /\ head = 0 /\ tail = 0 /\ consumer # "flush" /\ out \in Data
  BY DEF Init
<1> QED
  BY <1>1, SizeFacts, EmptyItems, ContentsAreItems

\* The tail that moves puts the item, the read looks at the first one, the head
\* that moves removes it, and the head of a flush empties the queue.
LEMMA StepRefines ==
    ASSUME IInv, [Next]_fifoVars
    PROVE  [Queue!Next]_(Queue!vars)
<1> USE DEF IInv, FifoTypeOK
<1> SUFFICES Queue!Put \/ Queue!Peek \/ Queue!Remove \/ Queue!Flush
             \/ (Contents' = Contents /\ out' = out)
  BY DEF Queue!Next, Queue!vars
<1>0. /\ Count(head, tail) \in 0 .. Size - 1
      /\ Len(Items(buffer, head, tail)) = Count(head, tail)
      /\ Count(head, tail) = fd_fifo_get_count
  BY ItemsFacts DEF Count, fd_fifo_get_count
<1>1. ASSUME NEW d \in Data, PutCheck(d) PROVE Contents' = Contents /\ out' = out
  BY <1>1, ContentsAreItems DEF PutCheck
<1>2. ASSUME NEW d \in Data, fd_fifo_put(d)
      PROVE  Queue!Put \/ (Contents' = Contents /\ out' = out)
  <2>1. CASE consumer = "flush"
    BY <1>2, <2>1, ContentsAreItems DEF fd_fifo_put
  <2>2. CASE consumer # "flush"
    <3> DEFINE b == [buffer EXCEPT ![tail] = d]
    <3>1. b \in [Indices -> Data] /\ b[tail] = d
      OBVIOUS
    <3>2. NextIndex(tail) # head /\ fd_fifo_get_count < Size - 1
      BY <1>2, RoomFacts, CountFacts DEF fd_fifo_put
    <3>3. Items(b, head, NextIndex(tail)) = Append(Items(buffer, head, tail), d)
      <4>1. Items(b, head, NextIndex(tail)) = Append(Items(b, head, tail), b[tail])
        BY <3>1, <3>2, MoveTailAppends
      <4>2. Items(b, head, tail) = Items(buffer, head, tail)
        BY WriteKeepsItems
      <4> QED
        BY <3>1, <4>1, <4>2
    <3>4. Contents' = Append(Contents, d) /\ out' = out /\ Len(Contents) < Size - 1
      BY <1>0, <1>2, <2>2, <3>2, <3>3, ContentsAreItems DEF fd_fifo_put
    <3> QED
      BY <3>4 DEF Queue!Put
  <2> QED
    BY <2>1, <2>2
<1>3. ASSUME PutWrite PROVE Contents' = Contents /\ out' = out
  BY <1>3, ContentsAreItems, WriteKeepsItems DEF PutWrite
<1>4. ASSUME PutPublish PROVE Queue!Put
  <2>1. /\ NextIndex(tail) # head /\ buffer[tail] = item /\ mode = "threads"
        /\ consumer # "flush" /\ fd_fifo_get_count < Size - 1
    BY <1>4, RoomFacts, CountFacts DEF PutPublish, ProducerHasRoom, ConsumerHasItem
  <2>2. Contents' = Append(Contents, item) /\ out' = out /\ Len(Contents) < Size - 1
    BY <1>0, <1>4, <2>1, MoveTailAppends, ContentsAreItems DEF PutPublish
  <2> QED
    BY <2>2 DEF Queue!Put
<1>5. ASSUME GetCheck PROVE Contents' = Contents /\ out' = out
  BY <1>5, ContentsAreItems DEF GetCheck
<1>6. ASSUME NEW i \in 0 .. Size - 1, i < fd_fifo_get_count, consumer # "flush",
             out' = buffer[At(head, i)], Contents' = Contents
      PROVE  Queue!Peek
  <2>1. i + 1 \in 1 .. Len(Contents) /\ Contents[i + 1] = buffer[At(head, i)]
    <3>1. i + 1 \in 1 .. Count(head, tail) /\ (i + 1) - 1 = i
      BY <1>0, <1>6, SizeFacts
    <3>2. Items(buffer, head, tail)[i + 1] = buffer[At(head, (i + 1) - 1)]
      BY <3>1, ItemsFacts
    <3> QED
      BY <1>0, <1>6, <3>1, <3>2, ContentsAreItems
  <2> QED
    BY <1>6, <2>1 DEF Queue!Peek
<1>7. ASSUME GetRead PROVE Queue!Peek
  <2>1. head # tail /\ At(head, 0) = head
    BY <1>7, SizeFacts DEF GetRead, ConsumerHasItem, At, Indices
  <2>2. 0 \in 0 .. Size - 1 /\ 0 < fd_fifo_get_count
    BY <2>1, CountFacts, SizeFacts
  <2>3. Contents' = Contents /\ out' = buffer[head] /\ consumer # "flush"
    BY <1>7, ContentsAreItems DEF GetRead
  <2> QED
    BY <1>6, <2>1, <2>2, <2>3
<1>8. ASSUME GetFree PROVE Queue!Remove
  <2>1. head # tail /\ consumer # "flush"
    BY <1>8 DEF GetFree, ConsumerHasItem
  <2>2. Contents # <<>> /\ Contents' = Tail(Contents) /\ out' = out
    BY <1>8, <2>1, MoveHeadRemoves, ContentsAreItems DEF GetFree
  <2> QED
    BY <2>2 DEF Queue!Remove
<1>9. ASSUME NEW i \in Indices, fd_object_fifo_view(i) PROVE Queue!Peek
  <2>1. At(head, i) = (head + i) % Size
    BY PlaceFacts DEF Place, At
  <2>2. Contents' = Contents /\ out' = buffer[At(head, i)] /\ consumer # "flush" /\ i < fd_fifo_get_count
    BY <1>9, <2>1, ContentsAreItems DEF fd_object_fifo_view
  <2> QED
    BY <1>6, <2>2 DEF Indices
<1>10. ASSUME FlushHead PROVE Queue!Flush
  BY <1>10, ContentsAreItems DEF FlushHead, Queue!Flush
<1>11. ASSUME FlushTail PROVE Contents' = Contents /\ out' = out
  <2>1. head = 0 /\ Items(buffer, 0, 0) = <<>>
    BY <1>11, SizeFacts, EmptyItems DEF FlushTail, ConsumerHasItem
  <2> QED
    BY <1>11, <2>1, ContentsAreItems DEF FlushTail
<1>12. ASSUME UNCHANGED fifoVars PROVE Contents' = Contents /\ out' = out
  BY <1>12, ContentsAreItems DEF fifoVars
<1> QED
  BY <1>1, <1>2, <1>3, <1>4, <1>5, <1>7, <1>8, <1>9, <1>10, <1>11, <1>12
     DEF Next, Producer, Consumer

\* fd_fifo and fd_object_fifo implement the bounded queue: nothing is lost, taken
\* twice, read before it is written or overwritten before it is read, although
\* neither side takes a lock.
THEOREM QueueRefined == Spec => ImplementsQueue
<1>1. Init => IInv
  BY InitInv
<1>2. IInv /\ [Next]_fifoVars => IInv'
  BY StepInv
<1>3. Init => Queue!Init
  BY InitRefines
<1>4. IInv /\ [Next]_fifoVars => [Queue!Next]_(Queue!vars)
  BY StepRefines
<1> QED
  BY <1>1, <1>2, <1>3, <1>4, PTL DEF Spec, ImplementsQueue, Queue!Spec
=============================================================================
