\* What operators are lowered to, and how they are reduced.
CONSTANTS
    Parts = {"lowering", "trace", "pooling", "tiling"}
SPECIFICATION MCSpec
INVARIANTS LoweredExact PoolsExact
\* A program is compiled once.
CHECK_DEADLOCK FALSE
