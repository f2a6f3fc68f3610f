\* An async statement that may flush, one that does not, and an agent.  An async statement
\* that flushes its own try waits for itself, and with it the try: the system stops there.
SPECIFICATION FairSpec
CONSTANTS
    x = x  y = y  z = z
    Job = {x, y, z}
    Async = {x, y}
    Flusher = {x}
    Body = Body
    NoError = NoError
INVARIANTS Barrier NoErrorMissed ZeroIsFinal
PROPERTIES EndsWithJobs DestroyEnds
CHECK_DEADLOCK FALSE
