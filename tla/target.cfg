CONSTANTS
  a = a
  a2 = a2
  b = b
  b2 = b2
  w = w
  Pods <- MCPods
  Manifest <- MCManifest
  Status <- MCStatus
  Selected <- MCSelected
  Requests <- MCRequests
SPECIFICATION Spec
INVARIANTS TypeOK PickedBest KindKept UserMatches DebugLeavesNothing
CHECK_DEADLOCK FALSE
