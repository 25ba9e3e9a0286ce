CONSTANTS
    Id <- MCId
    Location <- MCLocation
    TagList <- MCTagList
    Address <- MCAddress
    Target <- MCTarget
    LongTarget <- MCLongTarget
    Reason <- MCReason
    Number <- MCNumber
    Binary <- MCBinary
    Octet <- MCOctet
    Line <- MCLine
    Payload <- MCPayload
    MaxTargetAddressLen = 2
SPECIFICATION Spec
INVARIANTS TypeOK NoSpuriousRegistration KindsArrive NothingStopsTheReader HeadersArrive
