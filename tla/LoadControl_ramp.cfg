\* A ramp that can be switched off, a limit that can be as small as one.
SPECIFICATION FairSpec
CONSTANTS
    a1 = a1  a2 = a2  a3 = a3
    Agent = {a1, a2, a3}
    MaxLimit = 4
    VCpus = {1, 4}
    Starts = {1, 4}
    Slacks = {0, 2}
    Ramps = {TRUE, FALSE}
INVARIANT TypeOK
PROPERTIES GateSpec SlowUp StaysClose AllServed Ends
