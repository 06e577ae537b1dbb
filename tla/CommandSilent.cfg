SPECIFICATION Spec
CONSTANTS
    UIntMod = 8
    MaxArgs = 13
    Devices <- MCDevices
    Present <- MCPresent
    CommandLines <- FileLines
    StaLines <- MCStaLines
    MaxMoves = 2
INVARIANTS
    SilenceIsReported
