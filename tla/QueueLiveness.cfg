\* The wake-ups, the recovery from failures and the destruction.
CONSTANTS
    Producers = {p1}
    Waiters = {w1}
    NoThread = none
    Capacity = 2
    FaultKinds = {"UCE_EXIT"}
    Budgets <- LivenessBudgets
SPECIFICATION FairSpec
PROPERTIES CallsReturn TasksLeave
\* An idle queue rests: the consumer sleeps until someone submits.
CHECK_DEADLOCK FALSE
