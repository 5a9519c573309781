CONSTANTS
    MaxMtps <- MC_MaxMtps
    MaxInstance <- MC_MaxInstance
    NumConns <- MC_CoapConns
    Queues <- MC_CoapQueues
    Ports <- MC_CoapPorts
    Paths <- MC_CoapPaths
    ProtocolInputs <- MC_ProtocolInputs
    CoapStartMayFail = TRUE
    ReuseInstances = FALSE
    ReconnectCapturesQueue = FALSE
    StoreDeleteMayFail = FALSE
    ReferenceReadMayFail = FALSE

SPECIFICATION Spec

INVARIANT CapacityMatchesStore
