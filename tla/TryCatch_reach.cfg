\* An async statement that is never told although its try was destroyed.
SPECIFICATION FairSpec
CONSTANTS
    x = x  y = y  z = z
    Job = {x}
    Async = {x}
    Flusher = {}
    Body = Body
    NoError = NoError
PROPERTY DestroyReaches
