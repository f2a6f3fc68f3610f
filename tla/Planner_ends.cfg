\* Programs of every kind of statement, interrupted, failing and panicking at any step.
SPECIFICATION FairSpec
CONSTANTS
    p = p  l = l  w = w  t = t  a = a  s = s  c = c  u = u  v = v
    Flush = Flush  Exit = Exit  Fatal = Fatal
    Job = {p, l, w, t, a, s, c, u, v}
    AsyncJob = {a, s}
    TryJob = {t}
    SystemJob = {s, u, v}
    LazyJob = {l, c}
    InProc = {w, c}
    Panics = {w, c}
    MayFail = {p, l, w, t, a, s, v}
    MayWedge = {w, c}
    Long = {p, l, w, t, a, s, c, u, v}
    Progs <- MixedProgs
    Signal = {2, 15}
    OwnCodes = {3, 300}
INVARIANTS NoLostWake NothingLeft ExitCodeTells SweepOnlyWhole
PROPERTIES PanicFires TeardownEnds
CHECK_DEADLOCK FALSE
