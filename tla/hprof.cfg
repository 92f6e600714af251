SPECIFICATION Spec
CONSTANT Inputs <- DumpInputs
INVARIANTS
  TypeOK
  OnlyValuesZeroed
  AcceptsReadable
