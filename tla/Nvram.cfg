SPECIFICATION Spec
CONSTANTS
    MTK_NVRAM_BLOCK_SIZE = 6
    NvramT = 4
    Mac = 3
    Word = 2
    SizeMod = 16
    IndexMod = 4
    Files <- MCFiles
    Factory <- MCFactory
    NoFile = NoFile
    MaxCommands = 5
INVARIANTS
    FactoryDataIsKept
    BlocksMakeTheFile
CHECK_DEADLOCK FALSE
