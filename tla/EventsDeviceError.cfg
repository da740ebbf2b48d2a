\* A failing task queue.
CONSTANTS
    Threads = {t1, t2}
    Events = {e1}
    Streams = {s0, s1}
    DefaultStream = s0
    Modes <- SharedModes
    FailStatus = {"DEVICE", "ERROR"}
    MaxCalls = 3
    MaxFaults = 1
SPECIFICATION FairSpec
PROPERTIES EventSyncReturns
\* The application may simply stop making calls.
CHECK_DEADLOCK FALSE
