SPECIFICATION Spec
CONSTANTS
  Byte = {0, 1, 2, 3}
  Zero = 0
  Junk = Junk
  Contents <- MCOneFile
  ChunkSize = 2
  SizeMax = 15
  Faults = {"grow", "write interrupted", "short write", "write error"}
  MaxLength = 5
INVARIANTS NothingLost GrowthInv
CHECK_DEADLOCK FALSE
