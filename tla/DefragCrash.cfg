SPECIFICATION Spec
CONSTANTS
    Frame <- MCFrame
    MaxFrames = 4
INVARIANT EveryGroupIsBuilt
