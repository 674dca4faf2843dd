SPECIFICATION Spec
CONSTANTS
    Configs <- MCConfigs
    PortName <- MCPortName
    SocketNums = {1, 2}
    CoreMaps <- MCCoreMaps
    Clusters = {1, 2}
    MaxTransactors = 1
    NULL = NULL
    UNINIT = UNINIT
INVARIANT
    SingleTransactorServes
CHECK_DEADLOCK FALSE
