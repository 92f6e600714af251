SPECIFICATION FairSpec
CONSTANTS
  StartTimeout = 2
  Signals = {"TERM", "KILL"}
INVARIANTS
  TypeOK
  NeverCutShort
  KeepaliveReaped
PROPERTIES
  StaysAlive
  ToolboxEnds
