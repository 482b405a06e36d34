-------------------------------- MODULE Fifo --------------------------------
(***************************************************************************)
(* The ring buffers of subsys/base: fd_fifo.c (bytes, copied in and out)   *)
(* and fd_object_fifo.c (objects, written and read in place between        *)
(* allocate and commit, view and deallocate).  Both keep a head, which     *)
(* only the consumer moves, and a tail, which only the producer moves, and *)
(* use no lock.  A step is one access to state the other side also uses,   *)
(* so the two sides interleave as an interrupt and a thread, or two        *)
(* threads, do.  A flush moves both indices: it is safe only for the       *)
(* consumer, and only when the producer is an interrupt, whose put is over *)
(* before the flush goes on.                                               *)
(***************************************************************************)
EXTENDS Naturals, Sequences

CONSTANTS
    Data,   \* the bytes, or the contents of an object
    Size    \* items in the buffer, one of which stays unused

ASSUME SizeAssumption == Size \in Nat /\ Size >= 2
ASSUME DataAssumption == Data # {}

VARIABLES
    kind,      \* "byte": fd_fifo, "object": fd_object_fifo
    mode,      \* "interrupt": the producer is an interrupt, "threads": it is not
    buffer,
    head,
    tail,
    producer,  \* how far the producer is in its put
    item,      \* the item it puts
    consumer,  \* how far the consumer is in its get or flush
    out        \* the item the consumer looked at last

fifoVars == <<kind, mode, buffer, head, tail, producer, item, consumer, out>>

Indices == 0 .. Size - 1

NextIndex(i) == IF i + 1 >= Size THEN 0 ELSE i + 1

fd_fifo_get_count == IF head <= tail THEN tail - head ELSE (Size - head) + tail

fd_object_fifo_is_full == fd_fifo_get_count >= Size - 1

\* Mutant: the place that tells full from empty is used as well.
HasRoomToTheLast == fd_fifo_get_count < Size

\* fd_fifo_put refuses when the next tail is the head, fd_object_fifo_allocate
\* when the count is at its limit.
HasRoom == IF kind = "byte" THEN NextIndex(tail) # head ELSE ~ fd_object_fifo_is_full

FifoTypeOK ==
    /\ kind \in {"byte", "object"} /\ mode \in {"interrupt", "threads"}
    /\ buffer \in [Indices -> Data] /\ item \in Data /\ out \in Data
    /\ head \in Indices /\ tail \in Indices
    /\ producer \in {"idle", "write", "publish"}
    /\ consumer \in {"idle", "read", "free", "flush"}

Init ==
    /\ kind \in {"byte", "object"}
    /\ mode \in {"interrupt", "threads"}
    /\ \E d \in Data : buffer = [i \in Indices |-> d] /\ item = d /\ out = d
    /\ head = 0 /\ tail = 0
    /\ producer = "idle" /\ consumer = "idle"

-----------------------------------------------------------------------------
(* The producer. *)

\* The check of fd_fifo_put, or fd_object_fifo_allocate.
PutCheck(d) ==
    /\ mode = "threads"
    /\ producer = "idle"
    /\ HasRoom
    /\ item' = d /\ producer' = "write"
    /\ UNCHANGED <<kind, mode, buffer, head, tail, consumer, out>>

\* The item is written into the free place at the tail.
PutWrite ==
    /\ producer = "write"
    /\ buffer' = [buffer EXCEPT ![tail] = item]
    /\ producer' = "publish"
    /\ UNCHANGED <<kind, mode, head, tail, item, consumer, out>>

\* The tail moves: the last assignment of fd_fifo_put, or fd_object_fifo_commit.
PutPublish ==
    /\ producer = "publish"
    /\ tail' = NextIndex(tail)
    /\ producer' = "idle"
    /\ UNCHANGED <<kind, mode, buffer, head, item, consumer, out>>

\* The whole of fd_fifo_put (or allocate, write and commit) in an interrupt.
fd_fifo_put(d) ==
    /\ mode = "interrupt"
    /\ HasRoom
    /\ buffer' = [buffer EXCEPT ![tail] = d]
    /\ tail' = NextIndex(tail)
    /\ item' = d
    /\ UNCHANGED <<kind, mode, head, producer, consumer, out>>

-----------------------------------------------------------------------------
(* The consumer. *)

GetCheck ==
    /\ consumer = "idle"
    /\ head # tail
    /\ consumer' = "read"
    /\ UNCHANGED <<kind, mode, buffer, head, tail, producer, item, out>>

GetRead ==
    /\ consumer = "read"
    /\ out' = buffer[head]
    /\ consumer' = "free"
    /\ UNCHANGED <<kind, mode, buffer, head, tail, producer, item>>

GetFree ==
    /\ consumer = "free"
    /\ head' = NextIndex(head)
    /\ consumer' = "idle"
    /\ UNCHANGED <<kind, mode, buffer, tail, producer, item, out>>

\* fd_object_fifo_view of the object at an index, and the reading of it.
fd_object_fifo_view(index) ==
    /\ kind = "object"
    /\ consumer = "idle"
    /\ index < fd_fifo_get_count
    /\ out' = buffer[(head + index) % Size]
    /\ UNCHANGED <<kind, mode, buffer, head, tail, producer, item, consumer>>

\* fd_fifo_flush, fd_object_fifo_flush: the head, then the tail.
FlushHead ==
    /\ mode = "interrupt"
    /\ consumer = "idle"
    /\ head' = 0
    /\ consumer' = "flush"
    /\ UNCHANGED <<kind, mode, buffer, tail, producer, item, out>>

FlushTail ==
    /\ consumer = "flush"
    /\ tail' = 0
    /\ consumer' = "idle"
    /\ UNCHANGED <<kind, mode, buffer, head, producer, item, out>>

Producer == (\E d \in Data : PutCheck(d) \/ fd_fifo_put(d)) \/ PutWrite \/ PutPublish

Consumer == \/ GetCheck \/ GetRead \/ GetFree \/ FlushHead \/ FlushTail
            \/ \E index \in Indices : fd_object_fifo_view(index)

Next == Producer \/ Consumer

Spec == Init /\ [][Next]_fifoVars

-----------------------------------------------------------------------------
(* The queue this implements. *)

\* The place of the i-th item after the head.
Place(i) == IF head + i >= Size THEN head + i - Size ELSE head + i

\* During a flush the queue is already empty: what an interrupt puts before
\* the tail is reset is dropped with the rest.
Contents ==
    IF consumer = "flush" THEN <<>>
    ELSE [i \in 1 .. fd_fifo_get_count |-> buffer[Place(i - 1)]]

Queue == INSTANCE BoundedQueue WITH queue <- Contents, out <- out, Capacity <- Size - 1

\* An object fifo and a byte fifo implement a bounded queue, whatever order
\* the steps of the producer and the consumer come in: no item is lost, taken
\* twice, read before it is written or overwritten before it is read.
ImplementsQueue == Queue!Spec
=============================================================================
