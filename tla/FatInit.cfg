SPECIFICATION FatSpec
CONSTANTS
  t1 = t1
  t2 = t2
  Thread <- MCThread
  NumFuncs = 2
  NumThresholds = 1
  Setups <- MCSetups
INVARIANTS
  ConsistentUse
  FlagMeansReady
  InitRoutineOnce
PROPERTIES
  FieldsSettle
  CallsRun
