------------------------------ MODULE TaskFifo ------------------------------
(***************************************************************************)
(* What the task queue promises: tasks, numbered in the order they are     *)
(* accepted, leave in that order; at any moment everything that is queued  *)
(* may be discarded together.                                              *)
(***************************************************************************)
EXTENDS Naturals, Sequences

CONSTANT Room

VARIABLES queue, next

Init == queue = <<>> /\ next = 0

Submit ==
    /\ Len(queue) < Room
    /\ queue' = Append(queue, next) /\ next' = next + 1

Take == queue # <<>> /\ queue' = Tail(queue) /\ UNCHANGED next

Discard == queue' = <<>> /\ UNCHANGED next

Next == Submit \/ Take \/ Discard

Spec == Init /\ [][Next]_<<queue, next>>
=============================================================================
