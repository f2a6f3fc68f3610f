\* Two planners at the same time: a writer that lives against the sweep of the other.
SPECIFICATION Spec
CONSTANTS
    l1 = l1  l2 = l2  l3 = l3  pid = pid  pad = pad
    Life = {l1, l2}
    NoLife = NoLife
    Uses = {l1, l2}
    PidOf <- Reused
    Body = 1
    DiskFails = FALSE
    Overlap = TRUE
    MaxReaders = 2
PROPERTY LiveKept
CHECK_DEADLOCK FALSE
