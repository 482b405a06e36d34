---------------------------- MODULE BoundedQueue ----------------------------
(***************************************************************************)
(* What subsys/base promises of its two ring buffers, fd_fifo and          *)
(* fd_object_fifo: a first in, first out queue that holds at most Capacity *)
(* items.  Fifo.tla is shown to implement it.                              *)
(***************************************************************************)
EXTENDS Naturals, Sequences

CONSTANTS Data, Capacity

VARIABLES
    queue,  \* the items put and not yet removed, oldest first
    out     \* the item the consumer looked at last

vars == <<queue, out>>

Init == queue = <<>> /\ out \in Data

Put == /\ Len(queue) < Capacity
       /\ \E d \in Data : queue' = Append(queue, d)
       /\ UNCHANGED out

Peek == /\ \E i \in 1 .. Len(queue) : out' = queue[i]
        /\ UNCHANGED queue

Remove == /\ queue # <<>>
          /\ queue' = Tail(queue)
          /\ UNCHANGED out

Flush == queue' = <<>> /\ UNCHANGED out

Next == Put \/ Peek \/ Remove \/ Flush

Spec == Init /\ [][Next]_vars
=============================================================================
