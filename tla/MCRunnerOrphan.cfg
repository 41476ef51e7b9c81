SPECIFICATION Spec
CONSTANTS
  r1 = r1
  r2 = r2
  Runs = {r1, r2}
  Roots = {r1}
  Specs <- MCSpecs
  RootDepths = {2, 3}
INVARIANT NoOrphan
CHECK_DEADLOCK FALSE
