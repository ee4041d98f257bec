SPECIFICATION Spec
CONSTANTS
  Byte = {0, 1, 2, 3, 4, 5}
  Zero = 0
  Junk = Junk
  Contents <- MCOneFile
  ChunkSize = 2
  SizeMax = 15
  Faults = {"short read"}
  MaxLength = 6
INVARIANT WritesPrefix
CHECK_DEADLOCK FALSE
