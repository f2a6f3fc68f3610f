\* Every grace and result; the planner destroys, dies, the process is signalled or crashes.
SPECIFICATION FairSpec
CONSTANTS
    Graces = {"off", "timed", "never"}
    Results = {"stream", "value", "error"}
    LaunchFails = TRUE
    SaveFails = TRUE
    PlannerDies = TRUE
    ProcessCrashes = TRUE
INVARIANTS ReturnTells Relayed
PROPERTIES SaveSpared DestroyEnds ProcessFolds
CHECK_DEADLOCK FALSE
