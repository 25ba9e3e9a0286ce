CONSTANTS
    MaxUp = 2
    MaxDown = 1
SPECIFICATION FairSpec
INVARIANTS TypeOK UploadComplete DownloadComplete
PROPERTIES ImplementsPipes  TrafficFreesDevice
CHECK_DEADLOCK FALSE
