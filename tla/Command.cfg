SPECIFICATION FairSpec
CONSTANTS
    UIntMod = 8
    MaxArgs = 13
    Devices <- MCDevices
    Present <- MCPresent
    CommandLines <- AllLines
    StaLines <- MCStaLines
    MaxMoves = 2
INVARIANTS
    TypeOK
    IndexIsStable
    UsageSendsNothing
    SuccessIsAnswered
    HalfUpgradeIsReported
    LeftOpenExactly
    UndefinedExactly
PROPERTIES
    EveryInterfaceIsTried
    Ends
