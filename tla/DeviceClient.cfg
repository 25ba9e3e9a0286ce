SPECIFICATION FairSpec
INVARIANTS TypeOK OneInFlight KnownBeforeUse OnlySocketLeft
PROPERTIES StopEndsAll LoneReaderReturns HeartbeatReturns
CHECK_DEADLOCK FALSE
