SPECIFICATION FairSpec
CONSTANTS
  t1 = t1
  t2 = t2
  Thread <- MCThread
  Arena <- MCArena
  Vector = {v}
  Pointer = {p, q}
  NULL = NULL
  Items <- MCItems
  Datas <- MCDatas
  MaxItems = 3
  MaxSteps = 4
INVARIANTS TypeOK CountsBalance BytesStayValid VectorsKeepBytes ToNSDataExact NothingStranded
VIEW InUseOnly
CHECK_DEADLOCK FALSE
PROPERTIES Reclaimed Implements
