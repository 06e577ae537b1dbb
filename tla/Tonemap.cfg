SPECIFICATION Spec
CONSTANTS
    Runs <- MCRuns
    MaxRuns = 3
    BYTES_PER_LINE = 2
INVARIANTS
    RunsAreKept
    ListsAllButTheOpenRun
CHECK_DEADLOCK FALSE
