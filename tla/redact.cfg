SPECIFICATION Spec
CONSTANTS
  Texts <- OneLineVariables
  Redacts = {TRUE, FALSE}
  Faults = {FALSE, TRUE}
  Cancels = {FALSE, TRUE}
INVARIANTS
  TypeOK
  MaskedUnlessCut
  NothingLost
