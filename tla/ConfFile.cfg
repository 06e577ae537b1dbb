SPECIFICATION Spec
CONSTANTS
    STARTING_CAPACITY = 2
    OBJECT_MAX_CAPACITY = 12
    MAX_NESTING = 3
    PerNumber = 2
    arrayOfNotchedArrays <- MCNotched
    Garbage = {0, 271}
    Machines <- MCMachines
    LostBits = 3
    Configurations <- MCConfigurations
    Updates <- MCUpdates
    Edits <- MCEdits
    MaxCommands = 2
    LateAnswers = TRUE
    DiskErrors = TRUE
INVARIANTS
    TypeOK
    TempFilesRemoved
    ReadIsMerged
    RoundTrip
PROPERTIES
    ModifyIsExact
    CalibrationKeepsNotches
    StaysReadable
