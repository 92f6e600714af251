SPECIFICATION Spec
CONSTANTS
  Texts <- TwoLineVariable
  Redacts = {TRUE}
  Faults = {FALSE}
  Cancels = {FALSE}
INVARIANT VariablesMasked
