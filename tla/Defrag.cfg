SPECIFICATION Spec
CONSTANTS
    Frame <- MCFrame
    MaxFrames = 4
INVARIANTS
    TypeOK
    GroupsKeepMessagesAndOrder
    ReturnsCompletePackets
    CrashesExactlyAfterGap
