SPECIFICATION Spec
CONSTANTS
  Calls = {"plain", "failing", "refused", "check", "escalate", "delegate"}
  Notified = {"plain", "check"}
  Contents = {"old", "new", "broken"}
  Broken = "broken"
  Times = {1, 2}
  Start <- MCStart
  None = None
  MaxSent = 2
  MaxEdits = 2
INVARIANTS TypeOK AnsweredInOrder StopsAfterOne FreshUnlessTimesCollide
PROPERTY ServerIsAtomic
CHECK_DEADLOCK FALSE
