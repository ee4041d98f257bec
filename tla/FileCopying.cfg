SPECIFICATION FairSpec
CONSTANTS
  Byte = {0, 1, 2, 3, 4, 5}
  Zero = 0
  Junk = Junk
  Contents <- MCContents
  ChunkSize = 2
  SizeMax = 15
  Faults = {"open error", "read error", "write error", "short write", "shrink"}
  MaxLength = 6
INVARIANT IInv
PROPERTIES Implements Advances TerminatesUnlessTruncated
CHECK_DEADLOCK FALSE
