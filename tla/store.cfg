SPECIFICATION StoreSpec
CONSTANTS
  Members <- SmallMembers
  MaxSizes <- SmallMaxSizes
  NoFile = NoFile
INVARIANTS
  TypeOK
  NeverPartial
  OkMeansAll
  FailedBundleIsGone
  NoLitter
  SizeCap
PROPERTIES
  KeepsPromise
