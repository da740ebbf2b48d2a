\* Two threads submit to a ring that fills and wraps, and a launch may fail.
CONSTANTS
    Producers = {p1, p2}
    Waiters = {}
    NoThread = none
    Capacity = 4
    FaultKinds = {"UCE_EXIT", "other"}
    Budgets <- SafetyBudgets
SPECIFICATION Spec
INVARIANTS TypeOK NoOverwrite RingIsFifo SyncCovers NoLaunchAfterLoss
PROPERTIES ImplementsFifo
SYMMETRY Symmetry
\* An idle queue rests: the consumer sleeps until someone submits.
CHECK_DEADLOCK FALSE
