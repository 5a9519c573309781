CONSTANTS
    MaxMtps <- MC_MaxMtps
    MaxInstance <- MC_MaxInstance
    NumConns <- MC_StompConns
    Queues <- MC_StompQueues
    Ports <- MC_StompPorts
    Paths <- MC_StompPaths
    ProtocolInputs <- MC_ProtocolInputs
    CoapStartMayFail = TRUE
    ReuseInstances = TRUE
    ReconnectCapturesQueue = FALSE
    StoreDeleteMayFail = FALSE
    ReferenceReadMayFail = FALSE

SPECIFICATION Spec

INVARIANT SlotInstancesUnique
