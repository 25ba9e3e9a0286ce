CONSTANTS
    Device = {d1, d2}
    WSS = {w1, w2}
    QUIC = {q1, q2}
    Timeout = 0
    NoConn = NoConn
    NoDevice = NoDevice
SPECIFICATION Spec
SYMMETRY Symmetry
INVARIANTS OfflineReleases NoOrphanQUIC ConnectionsBelong
PROPERTIES CloseReleasesAll ImplementsPresence
