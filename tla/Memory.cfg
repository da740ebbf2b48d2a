\* The allocators, the runtime and the captured graphs.
CONSTANTS
    Parts = {"host", "caching", "runtime", "tree", "update", "graphed"}
    r1 = r1
    r2 = r2
    null = null
    Capacity = 2
    MaxTasks = 1
SPECIFICATION MCSpec
INVARIANTS HostSound CachingSound TreeSound GraphsExact
PROPERTIES RuntimeSound
\* The application may simply stop making calls.
CHECK_DEADLOCK FALSE
