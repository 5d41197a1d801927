SPECIFICATION Spec
CONSTANTS
    XLEN = 14
    WordSize = 16384
    RegIds <- MCRegIds
    RomWords = 16
    MemWords = 4
    CounterSize = 1
    BpEntries = 64
    BpTags = 256
    DivSteps = 32
    Programs <- InterruptPrograms
    InitRegs <- IntRegs
    InitMems <- MCInitMems
    FetchWaits = {1, 2}
    DataWaits = {1}
    IdleBus = 16383
    ExternalLine <- Free
    TimerLine <- Free
INVARIANT InterruptHasVictim
PROPERTY ImplementsHart
