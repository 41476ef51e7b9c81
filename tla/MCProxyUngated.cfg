SPECIFICATION Spec
CONSTANTS
  rm = rm
  c1 = c1
  c2 = c2
  Slots = {c1, c2}
  EmptyText = EmptyText
  NoPattern = NoPattern
  NoField = NoField
  Absent = Absent
  Broken = Broken
  Refusal = Refusal
  Regexp <- MCRegexp
  Compilable = {rm}
  Asks <- MCAsks
  Answers <- MCAnswers
  Policies <- MCPolicies
  Limits <- MCLimits
  Table <- MCTable
  Cli = "claude-code"
  MaxCost = 1
  MaxDay = 1
  MaxRequests = 5
SYMMETRY Symmetry
INVARIANT DeniedNeverArrives
CHECK_DEADLOCK FALSE
