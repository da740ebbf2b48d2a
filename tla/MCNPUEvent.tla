----------------------------- MODULE MCNPUEvent -----------------------------
(* NPUEvent for TLC. *)
EXTENDS NPUEvent, TLC

OneOf(S) == {CHOOSE x \in S : TRUE}
AllModes ==
    [SyncLaunch : {{}, OneOf(Streams \ {DefaultStream})}, Ipc : {{}, OneOf(Events)},
     PerStreamQueue : BOOLEAN, ExWithFlag : BOOLEAN]

\* A stream that bypasses the task queue only with PER_STREAM_QUEUE.
OrderedModes == {m \in AllModes : m.SyncLaunch # {} => m.PerStreamQueue}
\* Every task goes through the one task queue of the device.
SharedModes == {m \in AllModes : m.SyncLaunch = {} /\ ~m.PerStreamQueue}

Symmetry == Permutations(Threads)
=============================================================================
