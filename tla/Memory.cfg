SPECIFICATION Spec
CONSTANTS
    a = a
    b = b
    none = none
    Channel <- MCChannel
    Nothing = none
    Legacy <- MCLegacy
    Configs <- MCConfigs
    BatchLimit = 2
    MaxDay = 2
    MaxMessages = 2
    MaxRepairs = 1
    MaxFaults = 1
    MaxTotal = 3
INVARIANTS
    NothingLost
    RepeatsOnlyAfterFault
    NoRequestSleeps
PROPERTIES
    RecordsSummarized
