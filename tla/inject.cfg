SPECIFICATION FairSpec
CONSTANTS
  a = a
  b = b
  Clients = {a, b}
  Probing = {a}
  Barred = {a}
  Attempts = 2
INVARIANTS
  TypeOK
  InjectedOnce
  DeniedLeavesNothing
  ExecIntoStarted
PROPERTIES
  AppendOnly
  EveryoneDecides
