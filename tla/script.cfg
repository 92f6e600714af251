CONSTANTS
  Captures = {c1, c2}
  Lines <- MCLines
  Seconds = {s1, s2}
  PollLimit = 1
SPECIFICATION Spec
INVARIANTS TypeOK OkMeansOwn OkCleansUp
PROPERTY ScriptEnds
CHECK_DEADLOCK FALSE
