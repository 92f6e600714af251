CONSTANTS
  Captures = {c1, c2}
  Lines <- MCLines
  Seconds = {s1, s2}
  PollLimit = 1
SPECIFICATION Spec
INVARIANT TmpCleaned
CHECK_DEADLOCK FALSE
