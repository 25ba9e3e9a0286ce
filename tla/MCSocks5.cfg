CONSTANTS
    Request <- MCRequest
    MaxData = 2
SPECIFICATION FairSpec
INVARIANTS TypeOK SameTarget RelayedIsAccepted ClientStream
PROPERTY LeavingIsNoticed
CHECK_DEADLOCK FALSE
