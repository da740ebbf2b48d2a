\* Loss scaling, optimizers, sharding and the groups of ranks.
CONSTANTS
    Parts = {"scaler", "fused", "fsdp", "meeting", "collectives"}
    Variants = {"flag", "infnan", "custom", "fsdp"}
    OpTraces <- MCOpTraces
    MemTraces <- MCMemTraces
    StepTraces <- MCStepTraces
    CommTraces <- MCCommTraces
    PyTraces <- MCPyTraces
SPECIFICATION MCSpec
INVARIANTS RanksAgree OptimizerSound CommSound
PROPERTIES ScalerSound
\* Training ends.
CHECK_DEADLOCK FALSE
