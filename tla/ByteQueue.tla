------------------------------ MODULE ByteQueue ------------------------------
(***************************************************************************)
(* What a fifo_t promises an interrupt that writes and a task that reads:  *)
(* a queue of at most Capacity bytes, whatever the moment of the           *)
(* interrupt.  A byte that is refused leaves it as it was.                 *)
(***************************************************************************)
EXTENDS Naturals, Sequences

CONSTANTS Byte, Capacity

VARIABLE queued

Init == queued = << >>

Put == /\ Len(queued) < Capacity
       /\ \E b \in Byte : queued' = Append(queued, b)

Get == /\ queued # << >>
       /\ queued' = Tail(queued)

Next == Put \/ Get

Spec == Init /\ [][Next]_queued
=============================================================================
