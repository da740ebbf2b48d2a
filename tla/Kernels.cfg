\* Kernels, their tiles and their compilation, and sharded operators.
CONSTANTS
    Parts = {"reductions", "kernel", "graph", "sharding"}
SPECIFICATION MCSpec
INVARIANTS ReductionsExact KernelsSound ShardingExact
\* A program is compiled once.
CHECK_DEADLOCK FALSE
