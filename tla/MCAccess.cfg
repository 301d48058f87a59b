CONSTANTS
  Blocks = 2
  PageSize = 4
  ByteValues = 32
  BytesPerInt = 2
  Multiplier = 165
  Increment = 11
  Modulus = 16384
  Shift = 16
  SegmentUnit = 2
  LinearUnit = 4
  Reads <- SmallReads
  Writes <- SmallWrites
  Files <- SmallFiles
  HexFiles <- SmallHexFiles
  Offsets = {0, 6}
  Null = Null
  U64 = 16
  Loads <- Places
  Stores <- SmallStores
SPECIFICATION MCSpec
INVARIANT TypeOK NewestStoreWins
PROPERTY MemoryIsFlat
CHECK_DEADLOCK FALSE
