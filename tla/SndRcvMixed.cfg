SPECIFICATION FairSpec
CONSTANTS
    s1 = s1
    s2 = s2
    s3 = s3
    Broadcast = Broadcast
    Nobody = Nobody
    Host = Host
    Other = Other
    Sta <- TwoStations
    Calls <- MixedCalls
    MaxCalls = 2
    Unasked <- OthersTraffic
    Sizes = {0}
    FmsnMod = 4
    Lossy = FALSE
INVARIANTS
    EmptyMeansSilence
    WholeAnswersAreReturned
    BroadcastWaits
PROPERTIES
    CallsReturn
