SPECIFICATION Spec
CONSTANTS
    s1 = s1
    s2 = s2
    Broadcast = Broadcast
    Sta <- TwoStations
    Commands <- SaveLate
    TotalMod = 8
    MaxRetry = 3
    Copies = 1
INVARIANTS
    ReturnedOkIsSaved
