SPECIFICATION FairSpec
CONSTANTS
    XLEN = 14
    WordSize = 16384
    RegIds <- MCRegIds
    RomWords = 16
    MemWords = 4
    CounterSize = 1
    BpEntries = 64
    BpTags = 256
    DivSteps = 4
    Programs <- WaitPrograms
    InitRegs <- MCInitRegs
    InitMems <- MCInitMems
    FetchWaits = {1, 2, 3}
    DataWaits = {0, 1, 2, 3}
    IdleBus = 16383
    ExternalLine <- Low
    TimerLine <- Low
INVARIANTS
    TypeOK
    FetchConsistent
    StagesHoldProgram
    AccessBelongsToM
PROPERTIES
    ImplementsHart
    Progress
