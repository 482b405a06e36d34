SPECIFICATION MCSpec
CONSTANTS
    Backends = {"ram", "color_8bit", "color_16bit", "gray_4bit", "ssd1327", "ili9341", "gc9a01", "ssd1331"}
    Columns = 4
    Rows = 3
    Areas <- MCAreas
    Colors <- MCColors
    Images <- MCImages
    Bitmaps <- MCBitmaps
    Places <- MCPlaces
    Font <- MCFont
    Strings <- MCStrings
    Windows <- MCWindows
    Burst = 5
    MaxDraws = 3
    OctetBits = 2
    TransferOctets = 8
    WindowOctets = 16
    MemoryOctets = 24
    AckRetries = 2
    RegisterRetries = 2
    Transfers <- MCTransfers
    Delays = {0, 1}
    Upsets <- MCUpsets
    MaxUpsets = 1
    MaxCalls = 4
    BitsOfOctet = 3
    Address = 1
    Cells = 2
    I2cCalls <- MCI2cCalls
    SpiCalls <- MCSpiCalls
    TransferChunk = 2
    SpiDevices = {1, 2}
    MaxIo = 3
    Blocks = 3
    Contents = {"A", "B"}
    Polls = 6
    Behaviours <- MCBehaviours
    Csd <- MCCsd
    MaxCardCalls = 5
    Conns = {"a", "b"}
    L2capRing = 3
    L2capTxRing = 0
    RecvChunk = 2
    SduSizes = {1, 2}
    SendSizes = {0, 1}
    Levels = {0, 4, 8}
    SoftDevices <- MCSoftDevices
    Hashes <- MCHashes
    MaxOctets = 4
    MaxChannels = 2
    MaxHostCalls = 3
    PinCount = 2
    MaskBits = 3
    Frequencies <- MCFrequencies
    Duties <- MCDuties
    Masks <- MCMasks
    I2cOperations <- MCI2cOperations
    MaxPinCalls = 3
    PaperOctets = 3
    PaperRows = 6
    PaperBase = 4
    PaperAreas <- MCPaperAreas
    Clearing = {TRUE, FALSE}
    Peripherals <- MCPeripherals
    MaxPaperCalls = 5
INVARIANT
    BleFaithful
PROPERTIES
    SwdFaithful
    BusesFaithful
    StorageFaithful
    DisplayFaithful
CHECK_DEADLOCK FALSE
