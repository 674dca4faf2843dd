SPECIFICATION FairSpec
CONSTANTS
    Configs <- MCConfigs
    PortName <- MCPortName
    SocketNums = {1, 2}
    CoreMaps <- MCCoreMaps
    Clusters = {1, 2}
    MaxTransactors = 2
    NULL = NULL
    UNINIT = UNINIT
INVARIANTS
    TypeOK
    RequestReachesSocket
    GapNeverMisroutes
    StartedBound
PROPERTY
    GoodPlatformRuns
CHECK_DEADLOCK FALSE
