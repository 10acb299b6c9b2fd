SPECIFICATION Spec
CONSTANTS
  InitTrees <- MCTrees
  MaxOps = 2
INVARIANT TypeOK
PROPERTIES InnerWhenFollows Refinement
CHECK_DEADLOCK FALSE
