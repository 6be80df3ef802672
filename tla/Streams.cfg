SPECIFICATION FairNodeSpec
CONSTANTS
    Ops <- StreamOps
    RespCode <- StreamRespCode
    Callback <- StreamCallback
    ErrorCode <- mc_RpbErrorResp
    Fds = {1, 2}
    MaxCalls = 3
    MaxChunks = 3
    RecvTimeout = FALSE
    SendTimeout = TRUE
    UnpackMayFail = TRUE
    ReconnectOn <- OnBrokenReply
    BareConnect = FALSE
INVARIANTS TypeOK InOrder OwnSocketOnly
PROPERTIES KeepsFairContract
