SPECIFICATION DriversSpec
CONSTANTS
  Id <- MCId
  TaskLists <- MCTaskLists
  KdLists <- MCKdLists
  KdProviders <- MCKdProviders
INVARIANTS Topological VerdictRight LeastOrder
INVARIANTS VerdictOrderFree ExecutableOrder RunAgreesWithPlan
PROPERTIES CallsReturn
