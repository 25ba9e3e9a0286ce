CONSTANTS
    Device = {d1}
    WSS = {w1, w2}
    QUIC = {q1}
    Timeout = 1
    NoConn = NoConn
    NoDevice = NoDevice
SPECIFICATION LifecycleFairSpec
INVARIANTS LifecycleTypeOK ExitExplained
PROPERTIES SignalEndsProcess SilentGoesOffline
CHECK_DEADLOCK FALSE
