CONSTANTS
    Worker = {w1, w2}
    Outbound = {o1, o2, o3}
    Conn = {c1, c2}
    None = None
SPECIFICATION FairSpec
INVARIANTS TypeOK TableOwned DevTableOwned
PROPERTY CloseReturns
