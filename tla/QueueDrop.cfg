\* Two threads submit their first tasks.
CONSTANTS
    Producers = {p1, p2}
    Waiters = {}
    NoThread = none
    Capacity = 2
    FaultKinds = {}
    Budgets <- FirstBudgets
SPECIFICATION Spec
PROPERTIES NoSilentDrop
\* An idle queue rests: the consumer sleeps until someone submits.
CHECK_DEADLOCK FALSE
