SPECIFICATION Spec
CONSTANTS
  h1 = h1
  h2 = h2
  r1 = r1
  r2 = r2
  Hooks = {h1, h2}
  Runs = {r1, r2}
  Session <- MCSession
  Tool <- MCTool
  Cwd <- MCCwd
  TooLong <- MCTooLong
  Long = {h2}
  Quiet = {r2}
  Unset = Unset
  None = None
  MaxCuts = 2
INVARIANTS TypeOK RowsAreFound ReadersAgree ListAgreesWithResume
PROPERTIES TailKeepsUp
CHECK_DEADLOCK FALSE
