CONSTANTS
    Conn = {c1, c2}
    Device = {d1, d2}
    Static = Static
    MaxChunks = 2
    IndexPeriod = 2
SPECIFICATION FairSpec
INVARIANTS TypeOK InboundTotals OutboundTotals
PROPERTY AcceptedIsSettled
CHECK_DEADLOCK FALSE
