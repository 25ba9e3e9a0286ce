CONSTANTS
    Conn = {c1}
    Device = {d1}
    Static = Static
    MaxChunks = 1
    IndexPeriod = 1
SPECIFICATION Spec
INVARIANT TotalsAreReal
CHECK_DEADLOCK FALSE
