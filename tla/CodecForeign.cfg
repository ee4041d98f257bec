SPECIFICATION ForeignSpec
CONSTANTS
  Junk = Junk
  MaxBytes = 2
  ChunkSize = 2
  SizeMax = 63
  kMinimumUnderlyingStorageSize = 4
  kReallocationFactor = 2
  kMaximumAlwaysInternalAppendSize = 4
  Zero = 0
  Radix = 4
  CodecOf <- MCCodecOf
  Values <- MCValues
  TooLong <- MCTooLong
  Greedy = {"greedy"}
  Foreign <- MCForeign
  MaxWrites = 0
INVARIANTS NothingThrown RemainderIsRest DecodedIsEncodable
CHECK_DEADLOCK FALSE
