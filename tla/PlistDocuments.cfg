SPECIFICATION Spec
CONSTANTS
  NotUTF8 = {"bad"}
  Schemas <- MCSchemas
  Foreign <- MCForeign
  Values <- MCValues
  Initial <- MCInitial
  MaxEdits = 2
INVARIANTS TypeOK ExtraKeysApart WrittenReadsBack
PROPERTIES Implements
CHECK_DEADLOCK FALSE
