SPECIFICATION FairSpec
CONSTANTS
    s1 = s1
    s2 = s2
    Broadcast = Broadcast
    Sta <- TwoStations
    Commands <- OneDestination
    TotalMod = 8
    MaxRetry = 3
    Copies = 1
INVARIANTS
    TypeOK
    ReturnedOkIsWritten
    NoFragmentSkipped
    InTimeIsSaved
PROPERTIES
    ImplementsTransfer
    Terminates
