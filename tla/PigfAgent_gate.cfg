\* No failure, a limit that moves between one and two, a consumer of an alias.
SPECIFICATION Spec
CONSTANTS
    a = a  b = b  p = p  q = q  r = r  t = t  ha = ha  hp = hp  hr = hr
    Node = {a, p, q, r}
    NoNode = NoNode
    Root = Root
    Try = {Root, t}
    Hash = {ha, hp, hr}
    Args <- RelayArgs
    TryOf <- RelayTryOf
    HashOf <- RelayHashOf
    OutCache = {a, p, q}
    InProc = {a}
    MayFail = {}
    MaxLimit = 2
    Signals = FALSE
INVARIANTS HoldersWaitOnHolders OneWriter
PROPERTIES NeverTruncates GateSpec
