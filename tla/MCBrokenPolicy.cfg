SPECIFICATION Spec
CONSTANTS
  h1 = h1
  h2 = h2
  q1 = q1
  rm = rm
  NotRE2 = NotRE2
  EmptyText = EmptyText
  NoPattern = NoPattern
  NoField = NoField
  Absent = Absent
  Broken = Broken
  Regexp <- MCRegexp
  Compilable = {rm}
  Hooks = {h1}
  Calls <- MCCalls
  Disks <- BrokenPolicyDisk
  Envs <- MCEnvs
  Questions = {q1}
  ChannelNames <- MCChannelNames
  ToolChannels <- MCToolChannels
  MaxUses = 1
  DefaultIterations = 2
INVARIANT OnErrorDrivesFailures
CHECK_DEADLOCK FALSE
