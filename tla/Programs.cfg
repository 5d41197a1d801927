SPECIFICATION Spec
CONSTANTS
    XLEN = 14
    WordSize = 16384
    RegIds <- MCRegIds
    RomWords = 16
    MemWords = 4
    CounterSize = 1
    BpEntries = 64
    BpTags = 256
    DivSteps = 32
    Programs <- AllPrograms
    InitRegs <- MCInitRegs
    InitMems <- MCInitMems
    FetchWaits = {1}
    DataWaits = {1}
    IdleBus = 16383
    ExternalLine <- Low
    TimerLine <- Low
INVARIANTS
    SpacedPipeline
    UnforwardedOperandIsCurrent
PROPERTIES
    ImplementsHart
    TrapEmptiesPipeline
