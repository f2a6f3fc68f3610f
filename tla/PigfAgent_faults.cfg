\* Failures, a teardown of either try, an interrupt, and one place in the gate.
SPECIFICATION FairSpec
CONSTANTS
    a = a  b = b  p = p  q = q  r = r  t = t  ha = ha  hp = hp  hr = hr
    Node = {a, p, q}
    NoNode = NoNode
    Root = Root
    Try = {Root, t}
    Hash = {ha, hp}
    Args <- RelayArgs
    TryOf <- RelayTryOf
    HashOf <- RelayHashOf
    OutCache = {a}
    InProc = {}
    MayFail = {a, p}
    MaxLimit = 1
    Signals = TRUE
INVARIANTS GateExact ChildrenWatched FinishedSettled CorpseReported
PROPERTIES OutcomeStable AllFinish
