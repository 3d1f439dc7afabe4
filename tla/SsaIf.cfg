CONSTANTS
  None = None
  Var = {2, 3, 4, 5, 6, 7, 8, 9, 10, 11}
  Label = {}
  MaxOps = 1
  ConstevalIterations = 2
  MaxCmovCost = 4
  MaxSteps = 20
  Cases <- UnknownIfCases
SPECIFICATION Spec
INVARIANTS
  MeaningPreserved
