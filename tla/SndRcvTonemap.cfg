SPECIFICATION Spec
CONSTANTS
    s1 = s1
    s2 = s2
    s3 = s3
    Broadcast = Broadcast
    Nobody = Nobody
    Host = Host
    Other = Other
    Sta <- OneStation
    Calls <- TonemapCalls
    MaxCalls = 1
    Unasked <- None
    Sizes = {1}
    FmsnMod = 4
    Lossy = FALSE
INVARIANT EmptyMeansSilence
