\* Every setting under which the order of records and waits is promised.
CONSTANTS
    Threads = {t1, t2}
    Events = {e1, e2}
    Streams = {s0, s1}
    DefaultStream = s0
    Modes <- OrderedModes
    FailStatus = {}
    MaxCalls = 4
    MaxFaults = 0
SPECIFICATION Spec
INVARIANTS EnqueueBeforeDequeue NoUseAfterDestroy WaitSeesRecord QueryHonest
SYMMETRY Symmetry
\* The application may simply stop making calls.
CHECK_DEADLOCK FALSE
