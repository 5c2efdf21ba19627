SPECIFICATION Spec
CONSTANTS
  Trees <- MCTrees
  Audits <- MCAudits
  Orphans <- MCOrphans
  Registered = 1
INVARIANTS
  EveryImageHasOneCase
  PlanIsTheTree
  
  RowOrderIsIrrelevant
CHECK_DEADLOCK FALSE
