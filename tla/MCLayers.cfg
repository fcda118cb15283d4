CONSTANTS
    SizeOf <- MCSizeOf
    RollSize = 2
    FlushInterval = 0
    CheckEveryN = 2
    Day = 2
    BufferSize = 3
    MaxBuffers = 2
    MaxRecords = 4
    MaxStarts = 2
    MaxTime = 3
    Peer = {"a", "b"}
    PeerLoop <- MCPeerLoop
    Script <- MCScript
    Rules <- MCRules
    FileMode = TRUE
    HasNotFound = TRUE
    NameSize <- MCNameSize
    PayloadSize <- MCPayloadSize
    Codec <- MCCodec
    Generated = {"Query", "Empty"}
    Registered = {"Query"}
    RawTaken = {"raw"}
    MaxMessageLen = 40
    MaxFrames = 2
    CalledMethod <- MCCalledMethod
    Parses <- MCParses
    Service = {"Solve"}
    MaxLosses = 1
    MaxRefusals = 2
    Client = {"a", "b"}
    Commands <- MCCommands
    NoWord = ""
    MaxReplies = 3
    Conn = {"a", "b"}
    LoopOf <- MCLoopOf
    Topic = {"foo", "bar"}
    Line <- MCLine
    MaxLines = 2
    FdLimit = 3
    MaxBacklog = 2
    MaxPeers = 4
    Base = 2
    Delays = {0, 2, 3}
    MaxTimers = 2
    MaxTimerClock = 9
SPECIFICATION Spec
CHECK_DEADLOCK FALSE
INVARIANTS
    LayersTypeOK
    RecordsConserved
    RightAnswers
    AllAnswered
    FramesDelivered
    BadFramesRefused
    CallsRight
    ServesAMap
    SubscriptionsAgree
    SendsReachTheLiving
    IdleFdOwned
    TimersKeepTime
PROPERTIES
    RollsWhenFull
    RecordsWritten
    StopReturns
    CallReturns
