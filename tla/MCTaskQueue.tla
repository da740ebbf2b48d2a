---------------------------- MODULE MCTaskQueue ----------------------------
(***************************************************************************)
(* TaskQueue for TLC.                                                      *)
(***************************************************************************)
EXTENDS TaskQueue, TLC

\* The budget in which the events of DOMAIN some happen at most some[e] times.
Only(some) == some @@ [e \in Events |-> 0]

\* Two threads submit to a ring that fills and wraps, and a launch may fail.
SafetyBudgets == {Only([task |-> 5, fault |-> 1])}

\* A thread submits while another synchronizes; the queue is destroyed; a launch
\* fails and the device is stopped and restarted; a signal arrives.
LivenessBudgets ==
    {Only([task |-> 2, sync |-> 1]), Only([task |-> 2, destroy |-> 1]),
     Only([task |-> 2, fault |-> 1, stop |-> 1, restart |-> 1]), Only([task |-> 2, signal |-> 1])}

\* Two threads submit their first tasks.
FirstBudgets == {Only([task |-> 2])}

Symmetry == Permutations(Producers)
=============================================================================
