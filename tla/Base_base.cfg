SPECIFICATION BaseSpec
CONSTANTS
    Data = {1, 2}
    Size = 4
    TxFifoLimit = 3
    RxFifoLimit = 2
    DmaLimit = 2
    LineFormats <- MCLineFormats
    MaxTx = 4
    MaxRx = 3
    MaxFaults = 1
    Timers = {1, 2}
    Work = {"a", "b", "c"}
    TaskLimit = 2
    Submitters = {"main", "worker"}
    MaxSubmits = 2
    MaxDelay = 2
    TaskCount = 4
    Priorities = {1, 2}
    ByteBits = 3
    WordBits = 7
    LookAhead = 2
    BufferSize = 9
    MaxFields = 2
    Requests <- MCRequests
    DamagedRequests <- MCDamagedRequests
    MessageSize = 28
    ResponseSize = 28
    RxLimit = 28
    MaxCalls = 2
    Lexemes <- MCLexemes
    MaxLexemes = 3
    HeapCounts = {0, 1, 6}
    Symbols <- MCSymbols
    Halves <- MCHalves
    Singles <- MCSingles
    Days <- MCDays
    Clocks = {0, 43199, 43200, 86399}
    Series <- MCSeries
    Datasets <- MCDatasets
    OctetBits = 3
    RegisterBits = 9
    EncoderSize = 6
    CountBits = 3
    Readers = {"rpc", "screen"}
    TicksPerSecond = 2
    SecondsPerOverflow = 2
    UtcTimes = {5}
    ClockConfigurations <- MCClockConfigurations
    MaxTicks = 5
    MaxRtcCalls = 3
    RingSize = 2
    BatchSize = 2
    ReadSizes = {1, 3}
    TxRoom = 2
    UsbReaders = {"callback", "thread"}
    MaxUsbEvents = 5
    Fingers <- MCFingers
    MaxTouches = 4
    MaxNacks = 2
INVARIANTS
    SentInOrder
    NoTaskForgotten
    FieldsReadBack
    CodecsAgree
    GatewayServes
PROPERTIES
    ImplementsQueue
    SerialLineServed
    TasksRunWhenDue
CHECK_DEADLOCK FALSE
