SPECIFICATION Spec
CONSTANTS
  Junk = Junk
  MaxBytes = 2
  ChunkSize = 2
  SizeMax = 15
  kMinimumUnderlyingStorageSize = 4
  kReallocationFactor = 2
  kMaximumAlwaysInternalAppendSize = 4
  Registers = {x, y}
  Zero = 0
  Arrays <- MCArrays
  Files <- MCSmallFiles
  Readable = {TRUE}
  Empties = FALSE
  Sizes <- MCSizes
  MaxLength = 4
  MaxSteps = 3
SYMMETRY Symmetry
PROPERTIES Implements
CHECK_DEADLOCK FALSE
