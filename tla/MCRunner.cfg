SPECIFICATION Spec
CONSTANTS
  r1 = r1
  r2 = r2
  Runs = {r1, r2}
  Roots = {r1}
  Specs <- MCSpecs
  RootDepths = {2, 3}
INVARIANTS TypeOK RecursionFuse CompletedMeansDone FailureIsNotZero ChildIsTold RowsTellTheResult
PROPERTIES RunReturns
CHECK_DEADLOCK FALSE
