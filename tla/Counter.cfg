SPECIFICATION CounterSpec
CONSTANTS
    Ops <- CounterOps
    RespCode <- CounterRespCode
    Callback <- CounterCallback
    ErrorCode <- mc_RpbErrorResp
    Fds = {1}
    MaxCalls = 3
    MaxChunks = 1
    RecvTimeout = TRUE
    SendTimeout = TRUE
    UnpackMayFail = FALSE
    ReconnectOn <- OnFailedConnection
    BareConnect = FALSE
INVARIANTS NoneLost NoneInvented
PROPERTIES ReadsForward
