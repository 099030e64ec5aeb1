SPECIFICATION Spec
CONSTANTS
    Giga = 20
    Precise = 2
    Iterations = {0, 1, 2, 6, 10}
    Starts = {0, 18}
    Durations = {1, 2, 5}
    NULL = NULL
INVARIANTS
    AverageInSeconds
CHECK_DEADLOCK FALSE
