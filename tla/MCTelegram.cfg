SPECIFICATION Spec
CONSTANTS
  p1 = p1
  p2 = p2
  Processes = {p1, p2}
  OptionSets <- MCOptionSets
  OtherText = OtherText
  MaxAsks = 2
  MaxUpdates = 2
INVARIANTS TypeOK OneQuestionPerTap NoTapPassedOver
SYMMETRY Symmetry
CHECK_DEADLOCK FALSE
