SPECIFICATION MCSpec
CONSTANTS
  Slots <- MCSlots
  Buffers = 2
  TxSize = 3
  RxSize = 2
  Chunks = 1
  Methods = {"set_screen", "frame_buffer_read"}
  MaxCalls = 2
  MaxPackets = 3
  MaxSessions = 2
  MaxShortages = 1
  RxRing = 1
  TxRing = 2
  SendBuffer = 1
  GetChunk = 2
  Bounds <- MCBounds
INVARIANT AnswersOwnCall
INVARIANT LeaksOnlyOnRefusal
INVARIANT ReaderHasContext
INVARIANT Resynchronizes
INVARIANT FramesInOrder
INVARIANT ChannelFollowsNetwork
INVARIANT OctetsKept
PROPERTY StreamCompletes
CHECK_DEADLOCK FALSE
