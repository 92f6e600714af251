SPECIFICATION Spec
CONSTANTS
  StartTimeout = 1
  Signals = {}
INVARIANTS
  ExitCodePasses
