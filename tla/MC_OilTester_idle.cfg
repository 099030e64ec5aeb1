SPECIFICATION Spec
CONSTANTS
    NImpls = 2
    Iterations = 2
    Flags <- SomeFlags
    CpuFlags <- NoFlags
    Times = {1, 2, 3}
    RefBehaviours <- AllRefBehaviours
    ImplBehaviours <- AllImplBehaviours
    MaxRuns = 2
    NULL = NULL
CHECK_DEADLOCK FALSE
INVARIANTS
    DoNothingIsRefused
