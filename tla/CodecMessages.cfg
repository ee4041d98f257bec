SPECIFICATION Spec
CONSTANTS
  Junk = Junk
  MaxBytes = 2
  ChunkSize = 2
  SizeMax = 63
  kMinimumUnderlyingStorageSize = 4
  kReallocationFactor = 2
  kMaximumAlwaysInternalAppendSize = 4
  Zero = 0
  Radix = 4
  CodecOf <- MCCodecOf
  Values <- MCValues
  TooLong <- MCTooLong
  Greedy = {"greedy"}
  Foreign <- NoForeign
  MaxWrites = 4
INVARIANTS InStep CutEncodingsFail
PROPERTIES Implements
CHECK_DEADLOCK FALSE
