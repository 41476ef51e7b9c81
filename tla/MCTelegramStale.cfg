SPECIFICATION Spec
CONSTANTS
  p1 = p1
  p2 = p2
  Processes = {p1, p2}
  OptionSets <- MCOptionSets
  OtherText = OtherText
  MaxAsks = 2
  MaxUpdates = 2
INVARIANT ReplyIsForTheQuestion
SYMMETRY Symmetry
CHECK_DEADLOCK FALSE
