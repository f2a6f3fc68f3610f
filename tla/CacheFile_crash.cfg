\* One planner after another, crashes that a module process outlives, a full disk and reused process numbers.
SPECIFICATION FairSpec
CONSTANTS
    l1 = l1  l2 = l2  l3 = l3  pid = pid  pad = pad
    Life = {l1, l2, l3}
    NoLife = NoLife
    Uses = {l1, l3}
    PidOf <- Reused
    Body = 1
    DiskFails = TRUE
    Overlap = FALSE
    MaxReaders = 1
INVARIANT ReadWhole
PROPERTIES NoCorpseLeft OnlyUnusedRemoved ReaderEnds PromiseSpec
CHECK_DEADLOCK FALSE
