CONSTANTS
  None = None
  Var <- MCVar
  TypeSize <- MCTypeSize
  ArgRegs <- MCArgRegs
  MaxFrame = 64
  RedZone = 24
  NoRedZone = {FALSE}
  Functions <- ElseFunctions
  Inputs = {0, 1, 2, 7, 8, 15}
  Junk = {5, 10}
  RefSteps = 20
SPECIFICATION Spec
INVARIANTS
  MeaningPreserved
