SPECIFICATION Spec
CONSTANTS
    Configs <- MCConfigs
    PortName <- MCPortName
    SocketNums = {1, 2}
    CoreMaps <- MCCoreMaps
    Clusters = {1, 2}
    MaxTransactors = 2
    NULL = NULL
    UNINIT = UNINIT
INVARIANT
    PortKeepsTransactor
CHECK_DEADLOCK FALSE
