\* Profiling sessions, what is computed from the profiles, and fault detection.
CONSTANTS
    Parts = {"plain", "dynamic", "events", "timeline", "reports", "flight", "silent", "hooks"}
    Variants = {"flag", "infnan", "custom", "fsdp"}
    OpTraces <- MCOpTraces
    MemTraces <- MCMemTraces
    StepTraces <- MCStepTraces
    CommTraces <- MCCommTraces
    PyTraces <- MCPyTraces
SPECIFICATION MCSpec
INVARIANTS SessionsSound TraceExact ReportsExact SilentSound
\* A session ends, and a profile is analysed once.
CHECK_DEADLOCK FALSE
