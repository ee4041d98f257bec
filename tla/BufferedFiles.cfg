SPECIFICATION FairSpec
CONSTANTS
  a = a
  b = b
  Threads = {t1, t2}
  Vectors = {v1, v2, v3, f1}
  Storages = {s1, s2, s3}
  Byte = {a, b}
  Garbage = Garbage
  None = None
  Sources <- MCOneSource
  FileBacked = {f1}
  MaxLength = 3
  kMinimumUnderlyingStorageSize = 3
  kReallocationFactor = 2
  kMaximumAlwaysInternalAppendSize = 1
INVARIANT IInv
PROPERTIES AppendsEnd WaitFree
