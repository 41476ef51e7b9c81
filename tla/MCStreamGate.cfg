SPECIFICATION Spec
CONSTANTS
  rm = rm
  ls = ls
  p = p
  q = q
  EmptyText = EmptyText
  NoPattern = NoPattern
  NoField = NoField
  Absent = Absent
  Broken = Broken
  Regexp <- MCRegexp
  Compilable = {rm, ls}
  Providers = {"anthropic", "openai", "gemini"}
  Policies <- MCPolicies
  ToolNames = {"Bash"}
  Pieces = {p, q}
  Json <- MCJson
  Text <- MCText
  EmptyObject = "{}"
  MaxEvents = 6
  MaxBlocks = 2
  MaxOthers = 2
INVARIANTS TypeOK NothingLostOrReordered DenyHolds NothingElseIsRefused
CHECK_DEADLOCK FALSE
