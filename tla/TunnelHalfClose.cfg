CONSTANTS
    MaxUp = 1
    MaxDown = 1
SPECIFICATION FairSpec
PROPERTY StreamClosedInTheEnd
CHECK_DEADLOCK FALSE
