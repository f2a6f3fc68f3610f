\* A late error inside a try against what the manual says.
SPECIFICATION Spec
CONSTANTS
    a = a  b = b  p = p  q = q  r = r  t = t  ha = ha  hp = hp  hr = hr
    Node = {a, b, p}
    NoNode = NoNode
    Root = Root
    Try = {Root, t}
    Hash = {ha, hp}
    Args <- TwinArgs
    TryOf <- TwinTryOf
    HashOf <- TwinHashOf
    OutCache = {a, b, p}
    InProc = {}
    MayFail = {b}
    MaxLimit = 1
    Signals = FALSE
PROPERTY CatchDecides
