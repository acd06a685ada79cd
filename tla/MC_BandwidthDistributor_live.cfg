CONSTANTS
    c1 = c1
    c2 = c2
    Consumers <- MCConsumers
    Preferred <- MCPreferred
    Rates <- MCRates
    RembCapable <- MCRembCapable
    NumSpatialLayers = 2
    NumTemporalLayers = 2
    Scores = {0, 9}
    InitialScores = {9}
    Losses = {0, 15}
    AvailableBitrates = {3000, 6000}
    SenderReports = {1}
SPECIFICATION Spec
PROPERTIES
    DistributionCompletes
