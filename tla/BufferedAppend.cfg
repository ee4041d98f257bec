SPECIFICATION Spec
CONSTANTS
  a = a
  b = b
  Threads = {t1, t2}
  Vectors = {v1, v2, v3, v4}
  Storages = {s1, s2, s3}
  Byte = {a, b}
  Garbage = Garbage
  None = None
  Sources <- MCSources
  FileBacked = {}
  MaxLength = 3
  kMinimumUnderlyingStorageSize = 3
  kReallocationFactor = 2
  kMaximumAlwaysInternalAppendSize = 1
SYMMETRY Symmetry
INVARIANTS TypeOK VectorsFit DataRaceFree
PROPERTIES Immutability AppendConcatenates Implements
