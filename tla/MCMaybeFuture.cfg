SPECIFICATION FairSpec
CONSTANT Trees <- MCTrees
INVARIANTS
  LazyUntilBegun
  InProgramOrder
  SameResult
  OneAtATime
PROPERTY Completes
CHECK_DEADLOCK FALSE
