CONSTANTS
    NumSpatialLayers = 2
    NumTemporalLayers = 2
    Scores = {0, 9}
    TsBase <- MCTsBase
    TicksPerFrame = 2
    FrameMs = 2
    ClockRate = 1000
    SrErrors = {0, 1}
    ExtraOffsetPacketLimit = 200
    ExtraOffsetIdleLimit = 500
    TsMod = 65536
    SeqMod = 65536
    MaxFrames = 4
    MaxPackets = 4
    PayloadSupport = {TRUE}

SPECIFICATION Spec
PROPERTY FrameTsIncreasing
