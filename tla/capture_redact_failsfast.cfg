SPECIFICATION FairCaptureSpec
CONSTANTS
  Members <- SmallMembers
  MaxSizes <- SmallMaxSizes
  NoFile = NoFile
  Redacts = {TRUE}
  Wants = {1, 2}
PROPERTY FailsFast
