\* The background threads: releaser, profile dumper, checksum rounds, analysis tasks.
CONSTANTS
    Parts = {"release", "dumper", "checksum", "analysis"}
    r1 = r1
    r2 = r2
    null = null
    Capacity = 3
    MaxTasks = 6
SPECIFICATION MCFairSpec
INVARIANTS RingInv ReleasedInOrder NoUseAfterFree RingBounded DumperSafe RoundsAgree SuccessIsReal AnalysisSound
PROPERTIES CallsEnd
\* The application may simply stop making calls.
CHECK_DEADLOCK FALSE
