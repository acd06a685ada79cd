CONSTANTS
    NumSpatialLayers = 2
    NumTemporalLayers = 2
    Scores = {0, 9}
    TsBase <- MCTsBase
    TicksPerFrame = 2
    FrameMs = 2
    ClockRate = 1000
    SrErrors = {0}
    ExtraOffsetPacketLimit = 200
    ExtraOffsetIdleLimit = 500
    TsMod = 65536
    SeqMod = 65536
    MaxFrames = 3
    MaxPackets = 3
    PayloadSupport = {TRUE}

SPECIFICATION Spec
INVARIANTS TypeOK InactiveHoldsNoLayers PendingSwitchKeyFrameRequested
PROPERTIES SyncNeedsSenderReports DecodableOutput OutputSeqIncreasing SwitchTsAdvances
