\* A module that claims to fold by itself (grace -1), interrupted while it saves.
SPECIFICATION FairSpec
CONSTANTS
    Graces = {"never"}
    Results = {"stream", "value"}
    LaunchFails = FALSE
    SaveFails = FALSE
    PlannerDies = FALSE
    ProcessCrashes = FALSE
PROPERTY ProcessAlwaysFolds
CHECK_DEADLOCK FALSE
