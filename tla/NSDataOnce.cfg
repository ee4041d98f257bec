SPECIFICATION Spec
CONSTANTS
  t1 = t1
  t2 = t2
  Thread <- MCThread
  Arena <- MCArena
  Vector = {v}
  Pointer = {p}
  NULL = NULL
  Items <- MCFileViews
  Datas <- MCDatas
  MaxItems = 1
  MaxSteps = 4
INVARIANT DestroyedOnce
VIEW InUseOnly
CHECK_DEADLOCK FALSE
