SPECIFICATION Spec
CONSTANTS
    s1 = s1
    s2 = s2
    s3 = s3
    Broadcast = Broadcast
    Nobody = Nobody
    Host = Host
    Other = Other
    Sta <- OneStation
    Calls <- RuleCalls
    MaxCalls = 2
    Unasked <- OlderTraffic
    Sizes = {0, 1}
    FmsnMod = 4
    Lossy = TRUE
INVARIANTS
    TypeOK
    PacketsAreWhole
    EarlyEmptyIsCutShort
    WholeAnswersAreReturned
    NothingLeaks
PROPERTIES
    ImplementsExchange
