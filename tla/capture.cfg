SPECIFICATION FairCaptureSpec
CONSTANTS
  Members <- SmallMembers
  MaxSizes <- SmallMaxSizes
  NoFile = NoFile
  Redacts = {TRUE, FALSE}
  Wants = {1, 2}
INVARIANTS
  OkMeansComplete
  LeftoverIsReported
  ScriptIsBlamed
  NoGoroutineLeft
  OnlyRemoteWaits
PROPERTIES
  Ends
  RawFailsFast
