SPECIFICATION Spec
CONSTANTS
  c1 = c1
  c2 = c2
  c3 = c3
  Commands = {c1, c2, c3}
  Requests <- MCRequests
  Events = {"PreToolUse"}
  Arbiter = "arbiter"
  Mine = "mine"
  MaxSecond = 1
  MaxSaves = 1
SYMMETRY Symmetry
INVARIANTS TypeOK UserWorkIsRecoverable HookedOnce
PROPERTIES SuccessIsReal
CHECK_DEADLOCK FALSE
