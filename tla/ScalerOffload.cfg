\* The sharded scaler when the optimizer's state is on the host.
CONSTANTS
    Parts = {"scaler"}
    Variants = {"fsdpcpu"}
    OpTraces <- MCOpTraces
    MemTraces <- MCMemTraces
    StepTraces <- MCStepTraces
    CommTraces <- MCCommTraces
    PyTraces <- MCPyTraces
SPECIFICATION MCSpec
INVARIANTS RanksAgree
\* Training ends.
CHECK_DEADLOCK FALSE
